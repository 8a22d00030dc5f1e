-------------------------------- MODULE Tcp --------------------------------
(***************************************************************************)
(* The life cycle of TCP connections in src/tcp.c and the re-entrancy of   *)
(* its blocking operations.                                                *)
(*                                                                         *)
(* The library runs on one thread, but every operation that waits for a    *)
(* packet (TcpConnect, TcpSendData, TcpReceiveData, TcpClose) handles      *)
(* whatever else arrives from inside its wait; a handler may call back the *)
(* application and may itself start a TcpClose that waits again.  The C    *)
(* stack is therefore part of the state: `stack' is the sequence of        *)
(* activations that are in the middle of something, the last being the one *)
(* that runs.                                                              *)
(*                                                                         *)
(* Sequence numbers are abstracted to what the code asks of them: whether  *)
(* a segment carries the number the slot expects, and whether it           *)
(* acknowledges what a waiting operation sent.  Both are inputs.           *)
(***************************************************************************)
EXTENDS Naturals, SequencesExt

CONSTANTS
  TCP_MAX_CONNECTIONS, \* slots of the connection table
  Peers,               \* remote ends: ip, mac and remote port
  NoPeer,              \* what a slot outside any conversation holds
  PortCount,           \* local dynamic ports, NET_MIN_DINAMIC_PORT..NET_MAX_PORT
  FlagSets,            \* sets of TCP flags that segments carry
  Timeouts,            \* timeouts the application passes
  CloseTimeout,        \* the 1000 of a passive close
  ConnectRetry,        \* waits between two SYNs or two FINs (300)
  SendRetry,           \* waits between two copies of a data segment (200)
  ShortMax,            \* largest unsigned short (65535)
  ArpPolls,            \* segments handled within one wait for an ARP reply
  MaxParts,            \* segments one TcpSendData is split into
  CallbackOps,         \* blocking operations the application calls in callbacks
  MaxDepth,            \* depth of the stack at which callbacks stop calling
  SimultaneousOpen     \* may a peer send a bare SYN to a dynamic port?

States == {"NO_CONNECTION", "NEW", "SYN_RECEIVED", "ESTABLISHED", "DYEING"}
BlockingOps == {"connect", "send", "receive", "close"}
Callbacks == {"onConnect", "onIncomingData", "onDisconnect"}

ASSUME SizesAssumption ==
  /\ TCP_MAX_CONNECTIONS \in Nat \ {0}
  /\ PortCount \in Nat \ {0}
  /\ ShortMax \in Nat \ {0}
  /\ ArpPolls \in 0..ShortMax
  /\ MaxParts \in Nat \ {0}
  /\ MaxDepth \in Nat
ASSUME TimeoutsAssumption ==
  /\ Timeouts \subseteq 0..ShortMax
  /\ CloseTimeout \in 0..ShortMax
  /\ ConnectRetry \in Nat \ {0}
  /\ SendRetry \in Nat \ {0}
ASSUME PeersAssumption == NoPeer \notin Peers
ASSUME FlagsAssumption ==
  /\ \A F \in FlagSets : F \subseteq {"SYN", "ACK", "FIN", "RST"}
  /\ {{"SYN"}, {"SYN", "ACK"}, {"ACK"}, {"FIN", "ACK"}} \subseteq FlagSets
ASSUME CallbackAssumption ==
  /\ CallbackOps \subseteq {"connect", "send", "receive", "disconnect", "network"}
  /\ SimultaneousOpen \in BOOLEAN

Ids == 0..(TCP_MAX_CONNECTIONS - 1)
Ports == 0..PortCount
ServerPort == PortCount  \* stands for the ports the application listens on

VARIABLES
  connections,         \* connections[i]: the slot of connection id i
  stack,               \* activations in progress, the running one last
  buffer,              \* what reading the shared packet buffer may yield
  connectPortRotaiting \* next local port of an active connection

vars == <<connections, stack, buffer, connectPortRotaiting>>

Connection == [state : States, peer : Peers \cup {NoPeer}, port : Ports,
               mac : Peers \cup {NoPeer}]

(***************************************************************************)
(* A slot that is free.  The code leaves the other fields as they were,    *)
(* but looks at none of them before it writes them all (the mac left over  *)
(* while TcpConnect waits for ARP excepted: see CallConnect).              *)
(***************************************************************************)
Free == [state |-> "NO_CONNECTION", peer |-> NoPeer, port |-> ServerPort, mac |-> NoPeer]

Conversation(st, p) == [state |-> st, peer |-> p.peer, port |-> p.port, mac |-> p.peer]

Packet == [peer : Peers, port : Ports, flags : FlagSets, len : 0..1]

Content == [flags : FlagSets, len : 0..1]
Header(flags, len) == [flags |-> flags, len |-> len]
Received(p) == Header(p.flags, p.len)

(***************************************************************************)
(* Activations.  pc: "arp" waiting in ArpWhoIs, "first" and "loop" at the  *)
(* head of the retry loop, "wait" inside TcpWaitPacket, "hit" and "miss"   *)
(* when it has returned 1 or 0 (or will, once the activations above have   *)
(* ended), "expired" out of patience, "call" inside a callback, "rest" in  *)
(* TcpHandleIncomingPacket after the call of OnConnect.                    *)
(*   current  connection->sendSequence still is the number waited for      *)
(*   stale    the slot was given to another conversation since the call    *)
(***************************************************************************)
Frame == [op : BlockingOps \cup Callbacks \cup {"handle"}, conn : Ids,
          pc : {"arp", "first", "loop", "wait", "hit", "miss", "expired", "call", "rest"},
          timeout : 0..ShortMax, waiting : 0..ShortMax, left : 0..MaxParts,
          current : BOOLEAN, stale : BOOLEAN]

Activation(op, i, pc, timeout, left) ==
  [op |-> op, conn |-> i, pc |-> pc, timeout |-> timeout, waiting |-> 0,
   left |-> left, current |-> TRUE, stale |-> FALSE]
Callback(cb, i) == Activation(cb, i, "call", 0, 0)
Closing(i, timeout) == Activation("close", i, "first", timeout, 0)

Push(s, f) == Append(s, f)
Pop(s) == SubSeq(s, 1, Len(s) - 1)
Top(s) == s[Len(s)]
SetTop(s, f) == [s EXCEPT ![Len(s)] = f]

Running(op, pcs) == stack # <<>> /\ Top(stack).op = op /\ Top(stack).pc \in pcs

(***************************************************************************)
(* sendSequence of slot i moves on: operations that wait below for an      *)
(* earlier number no longer wait for the current one.                      *)
(***************************************************************************)
Outdate(s, i) ==
  [k \in DOMAIN s |-> IF s[k].conn = i /\ s[k].op \in BlockingOps \ {"receive"}
                      THEN [s[k] EXCEPT !.current = FALSE] ELSE s[k]]

(* Slot i is given to a new conversation: whoever still uses it is stale. *)
Disown(s, i) ==
  [k \in DOMAIN s |-> IF s[k].conn = i THEN [s[k] EXCEPT !.stale = TRUE] ELSE s[k]]

(***************************************************************************)
(* The shared buffer is overwritten by every segment received or sent.  It *)
(* matters while some activation will read it again: TcpHandleIncomingPacket *)
(* after OnConnect, TcpReceiveData after a hit.  Otherwise it is forgotten.*)
(***************************************************************************)
Rereads(f) == f.op = "handle" \/ (f.op = "receive" /\ f.pc = "hit")
Hold(s, b) == IF \E k \in DOMAIN s : Rereads(s[k]) THEN b ELSE {}

(* The loops over the table stop at the first slot they look for. *)
First(S) == {i \in S : \A j \in S : i <= j}

StolenWhileNew(st) == st \in {"NO_CONNECTION", "NEW"}  \* mutant of IsEmpty
IsEmpty(st) == st = "NO_CONNECTION"

EmptyIds == {i \in Ids : IsEmpty(connections[i].state)}

TcpIsConnection(p, i) ==
  /\ connections[i].state # "NO_CONNECTION"
  /\ connections[i].port = p.port
  /\ connections[i].peer = p.peer
  /\ connections[i].mac = p.peer

Matching(p) == {i \in Ids : TcpIsConnection(p, i)}

Init ==
  /\ connections = [i \in Ids |-> Free]
  /\ stack = <<>>
  /\ buffer = {}
  /\ connectPortRotaiting = 0

-----------------------------------------------------------------------------
(***************************************************************************)
(* TcpHandleIncomingPacket.  stk is the stack its caller leaves, inOrder   *)
(* the slots whose expectedSequence is the segment's sequence number.      *)
(***************************************************************************)
ClosedTwice(st) == st \in {"ESTABLISHED", "DYEING"}  \* mutant of PassiveClose
PassiveClose(st) == st = "ESTABLISHED"

MayDeliver(st) == st = "ESTABLISHED"

(* Lines 603-626: c is the header the buffer now shows, for slot i. *)
Deliver(i, c, expected, stk) ==
  LET st == connections[i].state
      fin == "FIN" \in c.flags /\ st \in {"ESTABLISHED", "DYEING"}
      data == ~fin /\ MayDeliver(st) /\ c.len # 0
  IN \/ /\ fin /\ expected /\ PassiveClose(st)
        /\ connections' = [connections EXCEPT ![i].state = "DYEING"]
        /\ stack' = Push(Push(stk, Closing(i, CloseTimeout)), Callback("onDisconnect", i))
        /\ buffer' = Hold(stack', {Header({"ACK"}, 0)})
     \/ /\ fin /\ ~(expected /\ PassiveClose(st))
        /\ stack' = stk
        /\ buffer' = Hold(stack', {Header({"ACK"}, 0)})
        /\ UNCHANGED connections
     \/ /\ data
        /\ stack' = IF expected THEN Push(stk, Callback("onIncomingData", i)) ELSE stk
        /\ buffer' = Hold(stack', {Header({"ACK"}, 0)})
        /\ UNCHANGED connections
     \/ /\ ~fin /\ ~data
        /\ stack' = stk
        /\ buffer' = Hold(stack', {c})
        /\ UNCHANGED connections

(* Lines 580-596 in state NEW: OnNewConnection accepts, drops or rejects. *)
NewConnection(i, p, stk) ==
  \/ /\ connections' = [connections EXCEPT ![i] = Conversation("SYN_RECEIVED", p)]
     /\ stack' = stk
     /\ buffer' = Hold(stack', {Header({"SYN", "ACK"}, 0)})
  \/ \E b \in {{Received(p)}, Content} :  \* REJECT leaves an ICMP packet in the buffer
       /\ connections' = [connections EXCEPT ![i] = Free]
       /\ stack' = stk
       /\ buffer' = Hold(stack', b)

(* Lines 598-602: the ACK that ends the handshake. *)
Confirm(i, p, stk) ==
  /\ connections' = [connections EXCEPT ![i].state = "ESTABLISHED"]
  /\ \E s \in {stk, Outdate(stk, i)} :  \* sendSequence is what the peer says it is
       stack' = Push(Push(s, Activation("handle", i, "rest", 0, 0)), Callback("onConnect", i))
  /\ buffer' = Hold(stack', {Received(p)})

TcpHandleIncomingPacket(p, inOrder, stk) ==
  LET syn == p.flags = {"SYN"} IN
  IF Matching(p) = {}
  THEN IF syn /\ EmptyIds # {}
       THEN \E i \in First(EmptyIds) : NewConnection(i, p, Disown(stk, i))
       ELSE stack' = stk /\ buffer' = Hold(stack', {Received(p)}) /\ UNCHANGED connections
  ELSE \E i \in First(Matching(p)) :
         LET st == connections[i].state
         IN \/ syn /\ st = "NEW" /\ NewConnection(i, p, stk)
            \/ /\ syn /\ st = "SYN_RECEIVED"
               /\ stack' = stk
               /\ buffer' = Hold(stack', {Header({"SYN", "ACK"}, 0)})
               /\ UNCHANGED connections
            \/ "ACK" \in p.flags /\ st = "SYN_RECEIVED" /\ Confirm(i, p, stk)
            \/ /\ ~(syn /\ st \in {"NEW", "SYN_RECEIVED"})
               /\ ~("ACK" \in p.flags /\ st = "SYN_RECEIVED")
               /\ Deliver(i, Received(p), i \in inOrder, stk)

(* The segments that may arrive; a peer opens only towards listening ports *)
(* unless SimultaneousOpen.                                                *)
Arriving == {p \in Packet : SimultaneousOpen \/ (p.flags = {"SYN"} => p.port = ServerPort)}

(***************************************************************************)
(* The application calls the library from its main loop, and in callbacks  *)
(* as far as CallbackOps allows.                                           *)
(***************************************************************************)
MayCall(op) ==
  \/ stack = <<>>
  \/ /\ stack # <<>> /\ Top(stack).op \in Callbacks
     /\ op \in CallbackOps /\ Len(stack) < MaxDepth

(* One packet of NetHandleNetwork. *)
NetHandleNetwork ==
  /\ MayCall("network")
  /\ \E p \in Arriving : \E inOrder \in SUBSET Matching(p) :
       TcpHandleIncomingPacket(p, inOrder, stack)
  /\ UNCHANGED connectPortRotaiting

(* Back from OnConnect: the rest reads the buffer again (lines 603-626). *)
HandleRest ==
  /\ Running("handle", {"rest"})
  /\ \E c \in buffer, expected \in BOOLEAN :
       Deliver(Top(stack).conn, c, expected, Pop(stack))
  /\ UNCHANGED connectPortRotaiting

CallbackReturn ==
  /\ stack # <<>> /\ Top(stack).op \in Callbacks
  /\ stack' = Pop(stack)
  /\ UNCHANGED <<connections, buffer, connectPortRotaiting>>

-----------------------------------------------------------------------------
(***************************************************************************)
(* TcpWaitPacket: what a waiting operation f expects, and the wait itself. *)
(***************************************************************************)
ExpectedFlags(op) == IF op = "connect" THEN {"SYN", "ACK"} ELSE {"ACK"}

(* The segment is the one waited for; acked says that it acknowledges what *)
(* f waits for.                                                            *)
Hit(f, p, inOrder, acked) ==
  /\ TcpIsConnection(p, f.conn)
  /\ ExpectedFlags(f.op) \subseteq p.flags
  /\ f.conn \in inOrder \/ f.op = "connect"
  /\ acked

(* May connection->sendSequence be the number f waits for?  A stale f      *)
(* compares with the numbers of another conversation.                      *)
CurrentNow(f) == IF f.stale THEN BOOLEAN ELSE {f.current}

Waiting == stack # <<>> /\ Top(stack).pc = "wait"

WaitPacket(p, inOrder, acked) ==
  LET f == Top(stack)
      hitStack == SetTop(stack, [f EXCEPT !.pc = "hit"])
      seen == IF f.op = "connect" THEN inOrder \cup {f.conn} ELSE inOrder
  IN IF Hit(f, p, inOrder, acked)
     THEN \E current \in CurrentNow(f) :
            IF current /\ (p.len # 0 \/ "FIN" \in p.flags)
            THEN TcpHandleIncomingPacket(p, seen, hitStack)
            ELSE stack' = hitStack /\ buffer' = Hold(stack', {Received(p)}) /\ UNCHANGED connections
     ELSE TcpHandleIncomingPacket(p, inOrder, SetTop(stack, [f EXCEPT !.pc = "miss"]))

TcpWaitPacket ==
  /\ Waiting
  /\ \E p \in Arriving : \E inOrder \in SUBSET Matching(p), acked \in BOOLEAN :
       WaitPacket(p, inOrder, acked)
  /\ UNCHANGED connectPortRotaiting

(* Nothing for TCP within the wait, or a bad checksum; ARP, ICMP or UDP    *)
(* packets handled meanwhile overwrite the buffer.                         *)
TcpWaitNothing ==
  /\ Waiting
  /\ stack' = SetTop(stack, [Top(stack) EXCEPT !.pc = "miss"])
  /\ buffer' \in {buffer, Hold(stack', Content)}
  /\ UNCHANGED <<connections, connectPortRotaiting>>

(* waiting++ and the test that follows, in unsigned short arithmetic.      *)
(* TcpReceiveData does not count when its timeout is 0.                    *)
NotCounted(w) == w  \* mutant of Increment
Increment(w) == (w + 1) % (ShortMax + 1)
Expired(w, timeout) == w > timeout

TcpWaitMissed ==
  /\ stack # <<>> /\ Top(stack).pc = "miss"
  /\ LET f == Top(stack)
         w == Increment(f.waiting)
     IN stack' = SetTop(stack,
          IF f.op = "receive" /\ f.timeout = 0 THEN [f EXCEPT !.pc = "loop"]
          ELSE IF Expired(w, f.timeout) THEN [f EXCEPT !.pc = "expired"]
          ELSE [f EXCEPT !.pc = "loop", !.waiting = w])
  /\ UNCHANGED <<connections, buffer, connectPortRotaiting>>

(* Head of the loop of TcpClose and TcpConnect: send FIN or SYN, wait. *)
HandshakeTry ==
  /\ stack # <<>> /\ Top(stack).op \in {"close", "connect"} /\ Top(stack).pc \in {"first", "loop"}
  /\ LET f == Top(stack)
         flags == IF f.op = "close" THEN {"FIN", "ACK"} ELSE {"SYN"}
         first == f.pc = "first"
     IN /\ stack' = SetTop(IF first THEN Outdate(stack, f.conn) ELSE stack,
                          [f EXCEPT !.pc = "wait", !.current = first \/ f.current])
        /\ buffer' = IF f.waiting % ConnectRetry = 0 THEN Hold(stack', {Header(flags, 0)})
                                                     ELSE buffer
  /\ UNCHANGED <<connections, connectPortRotaiting>>

(* TcpClose frees its slot on the ACK of its FIN or out of patience, TcpConnect out of patience. *)
KeptSlot(c) == c  \* mutant of GiveUp
GiveUp(c) == Free

Release(op) ==
  /\ Running(op, {"expired"} \cup (IF op = "close" THEN {"hit"} ELSE {}))
  /\ connections' = [connections EXCEPT ![Top(stack).conn] = GiveUp(@)]
  /\ stack' = Pop(stack)
  /\ UNCHANGED <<buffer, connectPortRotaiting>>

TcpCloseEnd == Release("close")
TcpConnectExpired == Release("connect")

-----------------------------------------------------------------------------
(* The application's calls.  Those that return at once and change nothing  *)
(* are left out.                                                           *)
NextPort(port) == (port + 1) % PortCount

(***************************************************************************)
(* TcpConnect: takes a slot and looks the mac up.  While ArpWhoIs waits    *)
(* the slot holds the mac of its last conversation, this peer's or not.    *)
(***************************************************************************)
CallConnect(q, timeout) ==
  /\ MayCall("connect")
  /\ \E i \in First(EmptyIds), pc \in {"first", "arp"} :
     \E mac \in IF pc = "first" THEN {q} ELSE {q, NoPeer} :
       /\ connections' = [connections EXCEPT ![i] =
            [state |-> "NEW", peer |-> q, port |-> connectPortRotaiting, mac |-> mac]]
       /\ stack' = Push(Disown(stack, i), Activation("connect", i, pc, timeout, 0))
       /\ buffer' = IF pc = "arp" THEN Hold(stack', Content) ELSE buffer
  /\ connectPortRotaiting' = NextPort(connectPortRotaiting)

TcpConnect == \E q \in Peers, timeout \in Timeouts : CallConnect(q, timeout)

(* An ARP reply ends the wait, whichever host it speaks of. *)
ArpReply ==
  /\ Running("connect", {"arp"})
  /\ \E q \in Peers : connections' = [connections EXCEPT ![Top(stack).conn].mac = q]
  /\ stack' = SetTop(stack, [Top(stack) EXCEPT !.pc = "first", !.waiting = 0])
  /\ buffer' = Hold(stack', Content)
  /\ UNCHANGED connectPortRotaiting

ArpFailed(c) == Free

(* ArpWhoIs fails: no reply in time, or another ARP packet came first. *)
ArpFail ==
  /\ Running("connect", {"arp"})
  /\ connections' = [connections EXCEPT ![Top(stack).conn] = ArpFailed(@)]
  /\ stack' = Pop(stack)
  /\ buffer' \in {buffer, Hold(stack', Content)}
  /\ UNCHANGED connectPortRotaiting

(* TCP segments that arrive while ArpWhoIs waits are handled. *)
ArpPacket ==
  /\ Running("connect", {"arp"}) /\ Top(stack).waiting < ArpPolls
  /\ \E p \in Arriving : \E inOrder \in SUBSET Matching(p) :
       TcpHandleIncomingPacket(p, inOrder,
         SetTop(stack, [Top(stack) EXCEPT !.waiting = @ + 1]))
  /\ UNCHANGED connectPortRotaiting

(* SYN|ACK received: the connection is open, OnConnect is the last call.   *)
TcpConnectHit ==
  /\ Running("connect", {"hit"})
  /\ connections' = [connections EXCEPT ![Top(stack).conn].state = "ESTABLISHED"]
  /\ stack' = SetTop(stack, Callback("onConnect", Top(stack).conn))
  /\ buffer' = Hold(stack', {Header({"ACK"}, 0)})
  /\ UNCHANGED connectPortRotaiting

(***************************************************************************)
(* TcpSendData: the number moves on before the state is looked at.         *)
(***************************************************************************)
TcpSendData ==
  /\ MayCall("send")
  /\ \E i \in Ids, timeout \in Timeouts, parts \in 1..MaxParts :
       stack' = Push(stack, Activation("send", i, "first", timeout, parts))
  /\ UNCHANGED <<connections, buffer, connectPortRotaiting>>

TcpSendDataTry ==
  /\ Running("send", {"first", "loop"})
  /\ LET f == Top(stack)
         first == f.pc = "first"
         s == IF first THEN Outdate(stack, f.conn) ELSE stack
     IN IF connections[f.conn].state # "ESTABLISHED"
        THEN stack' = Pop(s) /\ UNCHANGED buffer
        ELSE /\ stack' = SetTop(s, [f EXCEPT !.pc = "wait", !.current = first \/ f.current])
             /\ buffer' = IF first \/ f.waiting % SendRetry = 0
                          THEN Hold(stack', {Header({"ACK"}, 1)}) ELSE buffer
  /\ UNCHANGED <<connections, connectPortRotaiting>>

(* A part is acknowledged: the next one, or return 1.  waiting goes on.    *)
TcpSendDataHit ==
  /\ Running("send", {"hit"})
  /\ LET f == Top(stack) IN
     stack' = IF f.left <= 1 THEN Pop(stack)
              ELSE SetTop(stack, [f EXCEPT !.pc = "first", !.left = @ - 1])
  /\ UNCHANGED <<connections, buffer, connectPortRotaiting>>

TcpReceiveData ==
  /\ MayCall("receive")
  /\ \E i \in Ids, timeout \in Timeouts \cup {0} :
       stack' = Push(stack, Activation("receive", i, "loop", timeout, 0))
  /\ UNCHANGED <<connections, buffer, connectPortRotaiting>>

TcpReceiveDataTry ==
  /\ Running("receive", {"loop"})
  /\ stack' = IF connections[Top(stack).conn].state # "ESTABLISHED" THEN Pop(stack)
              ELSE SetTop(stack, [Top(stack) EXCEPT !.pc = "wait"])
  /\ UNCHANGED <<connections, buffer, connectPortRotaiting>>

(* Returns 1 after acknowledging what the buffer now says was received.    *)
TcpReceiveDataHit ==
  /\ Running("receive", {"hit"})
  /\ stack' = Pop(stack)
  /\ buffer' = Hold(stack', {Header({"ACK"}, 0)})
  /\ UNCHANGED <<connections, connectPortRotaiting>>

(* TcpSendData and TcpReceiveData return 0 after their timeout. *)
TransferExpired ==
  /\ Running("send", {"expired"}) \/ Running("receive", {"expired"})
  /\ stack' = Pop(stack)
  /\ UNCHANGED <<connections, buffer, connectPortRotaiting>>

DisconnectedTwice(st) == st \in {"ESTABLISHED", "DYEING"}  \* mutant of MayDisconnect
MayDisconnect(st) == st = "ESTABLISHED"

TcpDisconnect ==
  /\ MayCall("disconnect")
  /\ \E i \in Ids, timeout \in Timeouts :
       /\ MayDisconnect(connections[i].state)
       /\ connections' = [connections EXCEPT ![i].state = "DYEING"]
       /\ stack' = Push(Push(stack, Closing(i, timeout)), Callback("onDisconnect", i))
  /\ UNCHANGED <<buffer, connectPortRotaiting>>

-----------------------------------------------------------------------------
(* The application: its main loop and its calls. *)
Application == \/ NetHandleNetwork \/ TcpConnect \/ TcpSendData
               \/ TcpReceiveData \/ TcpDisconnect

(* What the thread does once it is inside the library or a callback. *)
Library == \/ HandleRest \/ CallbackReturn
           \/ TcpWaitPacket \/ TcpWaitNothing \/ TcpWaitMissed
           \/ HandshakeTry \/ TcpCloseEnd \/ TcpConnectExpired
           \/ ArpReply \/ ArpFail \/ ArpPacket \/ TcpConnectHit
           \/ TcpSendDataTry \/ TcpSendDataHit
           \/ TcpReceiveDataTry \/ TcpReceiveDataHit \/ TransferExpired

Next == Application \/ Library

Spec == Init /\ [][Next]_vars

(* The one thread keeps running while it is inside a call. *)
FairSpec == Spec /\ WF_vars(Library)

-----------------------------------------------------------------------------
(***************************************************************************)
(* Properties                                                              *)
(***************************************************************************)

(* Type invariant: the connection table, the activations and the buffer    *)
(* hold what the code's declarations allow.                                *)
TypeOK ==
  /\ connections \in [Ids -> Connection]
  /\ stack \in Seq(Frame)
  /\ buffer \subseteq Content
  /\ connectPortRotaiting \in 0..(PortCount - 1)

(* Every TcpClose in progress works on a slot in state DYEING, ... *)
CloseOwnsDyeing(c, s) ==
  \A k \in DOMAIN s : s[k].op = "close" => c[s[k].conn].state = "DYEING"

(* ... no two of them on the same slot, ... *)
OneCloserPerSlot(s) ==
  \A j, k \in DOMAIN s : s[j].op = "close" /\ s[k].op = "close" /\ s[j].conn = s[k].conn => j = k

(* ... and every slot in state DYEING has one. *)
DyeingHasCloser(c, s) ==
  \A i \in Ids : c[i].state = "DYEING" => \E k \in DOMAIN s : s[k].op = "close" /\ s[k].conn = i

(* A slot that is being closed has exactly one TcpClose working on it      *)
(* (from TcpDisconnect or from the FIN path of TcpHandleIncomingPacket),   *)
(* however the waits nest: it is freed once, and never under another call. *)
CloserOwnsSlot ==
  /\ CloseOwnsDyeing(connections, stack)
  /\ OneCloserPerSlot(stack)
  /\ DyeingHasCloser(connections, stack)

(* When the application is back in its main loop no slot is left half way: *)
(* every TcpConnect and TcpClose has opened or freed its slot.             *)
IdleMeansSettled ==
  stack = <<>> => \A i \in Ids : connections[i].state \notin {"NEW", "DYEING"}

(* TcpClose and TcpConnect free or open the slot they took, never one that *)
(* was meanwhile given to another conversation.                            *)
OwnersNeverStale ==
  \A k \in DOMAIN stack : stack[k].op \in {"close", "connect"} => ~stack[k].stale

(* With callbacks that do not call the library back, handlers nest at most *)
(* once per slot on top of the application's call: the C stack is bounded. *)
BoundedNesting == Len(stack) <= TCP_MAX_CONNECTIONS + 2

(* A blocking call ends, and the application is back in its main loop,     *)
(* whatever arrives meanwhile.  TcpReceiveData with timeout 0 promises no  *)
(* such thing (README.md:246).                                             *)
CallsReturn ==
  (stack # <<>> /\ ~\E k \in DOMAIN stack : stack[k].op = "receive" /\ stack[k].timeout = 0)
    ~> stack = <<>>

(* TcpSendData sends and waits only on the conversation it was called for: *)
(* "send data into any established connection" (README.md:241).            *)
SendStaysWithConversation == Running("send", {"wait"}) => ~Top(stack).stale

(* "receive data by this function will never be send into                  *)
(* TcpOnIncomingData callback" (README.md:251, of TcpReceiveData).         *)
ReceivedNotPassedToCallback ==
  \A k, m \in DOMAIN stack :
    /\ stack[k].op = "receive" /\ stack[k].pc = "hit"
    /\ stack[m].op = "onIncomingData" /\ m > k
    => stack[m].conn # stack[k].conn

(* TcpReceiveData with timeout 0 "ends only if receive data or connection  *)
(* is closed" (README.md:247): when its wait is over there is data to      *)
(* return.                                                                 *)
ReceiveEndsWithData ==
  Running("receive", {"hit"}) => \E c \in buffer : c.len # 0

-----------------------------------------------------------------------------
(***************************************************************************)
(* What the application is promised about its callbacks.                   *)
(***************************************************************************)
Open == {i \in Ids : connections[i].state = "ESTABLISHED"}
Calls == {<<k, stack[k].op, stack[k].conn>> : k \in {m \in DOMAIN stack : stack[m].op \in Callbacks}}

Promise == INSTANCE TcpCallbacks WITH open <- Open, calls <- Calls

(* OnConnect, OnIncomingData and OnDisconnect are called in the order that *)
(* README.md:153-184 promises.                                             *)
CallbacksPaired == Promise!Spec
=============================================================================
