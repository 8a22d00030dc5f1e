------------------------------ MODULE TcpProofs ------------------------------
(***************************************************************************)
(* Theorems about Tcp for every number of slots, peers and ports, every    *)
(* timeout and every nesting of calls in callbacks.                        *)
(***************************************************************************)
EXTENDS Tcp, SequenceTheorems, FiniteSetTheorems, TLAPS

(***************************************************************************)
(* The stack operators, on sequences of activations.                       *)
(***************************************************************************)
(* What Push returns: the stack with one more activation on top. *)
LEMMA PushFacts ==
  ASSUME NEW s \in Seq(Frame), NEW f \in Frame
  PROVE  /\ Push(s, f) \in Seq(Frame)
         /\ Len(Push(s, f)) = Len(s) + 1
         /\ \A k \in 1..Len(s) : Push(s, f)[k] = s[k]
         /\ Push(s, f)[Len(s) + 1] = f
  BY AppendProperties DEF Push

(* What Pop returns: the activations below the top. *)
LEMMA PopFacts ==
  ASSUME NEW s \in Seq(Frame), s # <<>>
  PROVE  /\ Len(s) \in Nat \ {0}
         /\ Top(s) \in Frame
         /\ Pop(s) \in Seq(Frame)
         /\ Len(Pop(s)) = Len(s) - 1
         /\ \A k \in 1..(Len(s) - 1) : Pop(s)[k] = s[k]
<1>1. Len(s) \in Nat /\ Len(s) # 0 /\ Len(s) >= 1
  BY EmptySeq
<1>2. \A k \in 1..Len(s) : s[k] \in Frame
  BY ElementOfSeq
<1>3. /\ SubSeq(s, 1, Len(s) - 1) \in Seq(Frame)
      /\ Len(SubSeq(s, 1, Len(s) - 1)) = IF 1 <= Len(s) - 1 THEN Len(s) - 1 - 1 + 1 ELSE 0
      /\ \A k \in 1..(Len(s) - 1 - 1 + 1) : SubSeq(s, 1, Len(s) - 1)[k] = s[1 + k - 1]
  <2>1. 1 \in Int /\ Len(s) - 1 \in Int /\ \A k \in 1..(Len(s) - 1) : s[k] \in Frame
    BY <1>1, <1>2
  <2> HIDE <1>2
  <2> QED BY <2>1, SubSeqProperties
<1>4. Len(SubSeq(s, 1, Len(s) - 1)) = Len(s) - 1
  <2> DEFINE n == Len(s)
             m == Len(SubSeq(s, 1, n - 1))
  <2>1. n \in Nat /\ n >= 1 /\ m = IF 1 <= n - 1 THEN n - 1 - 1 + 1 ELSE 0
    BY <1>1, <1>3
  <2> HIDE DEF n, m
  <2>2. m = n - 1
    BY <2>1
  <2> QED BY <2>2 DEF n, m
<1>5. \A k \in 1..(Len(s) - 1) : SubSeq(s, 1, Len(s) - 1)[k] = s[k]
  <2> SUFFICES ASSUME NEW k \in 1..(Len(s) - 1)
               PROVE  SubSeq(s, 1, Len(s) - 1)[k] = s[k]
    OBVIOUS
  <2>1. k \in 1..(Len(s) - 1 - 1 + 1) /\ 1 + k - 1 = k
    BY <1>1
  <2> QED BY <1>3, <2>1
<1>6. s[Len(s)] \in Frame
  BY <1>1, <1>2
<1> QED BY <1>1, <1>3, <1>4, <1>5, <1>6 DEF Pop, Top

(* What SetTop returns: the same stack with another top. *)
LEMMA SetTopFacts ==
  ASSUME NEW s \in Seq(Frame), s # <<>>, NEW f \in Frame
  PROVE  /\ SetTop(s, f) \in Seq(Frame)
         /\ SetTop(s, f) # <<>>
         /\ Len(SetTop(s, f)) = Len(s)
         /\ \A k \in 1..Len(s) : SetTop(s, f)[k] = IF k = Len(s) THEN f ELSE s[k]
<1>1. Len(s) \in 1..Len(s)
  BY EmptySeq
<1>2. /\ SetTop(s, f) \in Seq(Frame)
      /\ Len(SetTop(s, f)) = Len(s)
      /\ \A k \in 1..Len(s) : SetTop(s, f)[k] = IF k = Len(s) THEN f ELSE s[k]
  BY <1>1, ExceptSeq DEF SetTop
<1> QED BY <1>1, <1>2, EmptySeq

(* Replacing the top is popping it and pushing another. *)
LEMMA SetTopIsPush ==
  ASSUME NEW s \in Seq(Frame), s # <<>>, NEW f \in Frame
  PROVE  SetTop(s, f) = Push(Pop(s), f)
<1> DEFINE r == SetTop(s, f)
           b == Pop(s)
           t == Push(b, f)
           n == Len(s)
<1>1. /\ n \in Nat \ {0} /\ b \in Seq(Frame) /\ Len(b) = n - 1
      /\ \A k \in 1..(n - 1) : b[k] = s[k]
  BY PopFacts
<1>2. /\ t \in Seq(Frame) /\ Len(t) = Len(b) + 1
      /\ \A k \in 1..Len(b) : t[k] = b[k]
      /\ t[Len(b) + 1] = f
  BY <1>1, PushFacts
<1>3. r \in Seq(Frame) /\ Len(r) = n /\ \A k \in 1..n : r[k] = IF k = n THEN f ELSE s[k]
  BY SetTopFacts
<1> HIDE DEF r, b, t, n
<1>4. Len(r) = Len(t) /\ \A k \in 1..Len(r) : r[k] = t[k]
  BY <1>1, <1>2, <1>3
<1>5. r = t
  BY <1>2, <1>3, <1>4, SeqEqual
<1> QED BY <1>5 DEF r, t, b

(* Outdate and Disown mark activations and change nothing else of them. *)
LEMMA MarkFacts ==
  ASSUME NEW s \in Seq(Frame), NEW i \in Ids, NEW t \in {Outdate(s, i), Disown(s, i)}
  PROVE  /\ t \in Seq(Frame)
         /\ Len(t) = Len(s)
         /\ \A k \in 1..Len(s) : t[k].op = s[k].op /\ t[k].conn = s[k].conn
<1>1. Len(s) \in Nat /\ DOMAIN s = 1..Len(s) /\ \A k \in 1..Len(s) : s[k] \in Frame
  BY LenProperties, ElementOfSeq
<1>2. \A f \in Frame : /\ [f EXCEPT !.current = FALSE] \in Frame
                       /\ [f EXCEPT !.current = FALSE].op = f.op
                       /\ [f EXCEPT !.current = FALSE].conn = f.conn
                       /\ [f EXCEPT !.stale = TRUE] \in Frame
                       /\ [f EXCEPT !.stale = TRUE].op = f.op
                       /\ [f EXCEPT !.stale = TRUE].conn = f.conn
  BY DEF Frame
<1>3. t \in [1..Len(s) -> Frame]
  BY <1>1, <1>2 DEF Outdate, Disown
<1>4. t \in Seq(Frame) /\ Len(t) = Len(s)
  <2>1. t \in Seq(Frame)
    BY <1>1, <1>3, SeqDef
  <2> QED BY <1>1, <1>3, <2>1, LenProperties
<1>5. ASSUME NEW k \in 1..Len(s) PROVE t[k].op = s[k].op /\ t[k].conn = s[k].conn
  <2>1. t[k] \in {s[k], [s[k] EXCEPT !.current = FALSE], [s[k] EXCEPT !.stale = TRUE]}
    BY <1>1 DEF Outdate, Disown
  <2> QED BY <1>1, <1>2, <2>1
<1> QED BY <1>4, <1>5

(* The activations the library starts are well typed. *)
LEMMA ActivationType ==
  ASSUME NEW i \in Ids
  PROVE  /\ \A cb \in Callbacks : Callback(cb, i) \in Frame
         /\ Activation("handle", i, "rest", 0, 0) \in Frame
         /\ \A t \in 0..ShortMax : Closing(i, t) \in Frame
         /\ \A t \in 0..ShortMax : \A pc \in {"first", "arp"} : Activation("connect", i, pc, t, 0) \in Frame
         /\ \A t \in 0..ShortMax : \A n \in 0..MaxParts : Activation("send", i, "first", t, n) \in Frame
         /\ \A t \in 0..ShortMax : Activation("receive", i, "loop", t, 0) \in Frame
  BY SizesAssumption DEF Callback, Closing, Activation, Frame, Callbacks, BlockingOps

-----------------------------------------------------------------------------
(***************************************************************************)
(* Type correctness.                                                       *)
(***************************************************************************)
(* The headers the library writes into the buffer are well typed. *)
LEMMA HeaderType ==
  /\ Header({"ACK"}, 0) \in Content /\ Header({"ACK"}, 1) \in Content
  /\ Header({"SYN"}, 0) \in Content /\ Header({"SYN", "ACK"}, 0) \in Content
  /\ Header({"FIN", "ACK"}, 0) \in Content
  /\ \A p \in Packet : Received(p) \in Content
  BY FlagsAssumption DEF Header, Received, Content, Packet

(* The buffer forgets or keeps, and invents nothing. *)
LEMMA HoldType == ASSUME NEW s, NEW b, b \subseteq Content PROVE Hold(s, b) \subseteq Content
  BY DEF Hold

(* The slots that the handlers write are well typed. *)
LEMMA SlotType ==
  ASSUME NEW c \in [Ids -> Connection], NEW i \in Ids
  PROVE  /\ [c EXCEPT ![i] = Free] \in [Ids -> Connection]
         /\ \A st \in States : [c EXCEPT ![i].state = st] \in [Ids -> Connection]
         /\ \A q \in Peers : [c EXCEPT ![i].mac = q] \in [Ids -> Connection]
         /\ \A st \in States, p \in Packet : [c EXCEPT ![i] = Conversation(st, p)] \in [Ids -> Connection]
<1>1. Free \in Connection /\ \A st \in States, p \in Packet : Conversation(st, p) \in Connection
  BY SizesAssumption DEF Free, Conversation, Connection, States, Packet, Ports, ServerPort
<1>2. /\ \A st \in States : [c[i] EXCEPT !.state = st] \in Connection
      /\ \A q \in Peers : [c[i] EXCEPT !.mac = q] \in Connection
  BY DEF Connection
<1> QED BY <1>1, <1>2

(* What an action must leave for TypeOK to hold again. *)
Typed ==
  /\ connections' \in [Ids -> Connection]
  /\ stack' \in Seq(Frame)
  /\ buffer' \subseteq Content

(* Deliver keeps the types, whatever stack its caller hands it. *)
LEMMA DeliverTypes ==
  ASSUME TypeOK, NEW i \in Ids, NEW c \in Content, NEW expected,
         NEW stk \in Seq(Frame), Deliver(i, c, expected, stk)
  PROVE  Typed
<1>1. CASE /\ connections' = [connections EXCEPT ![i].state = "DYEING"]
           /\ stack' = Push(Push(stk, Closing(i, CloseTimeout)), Callback("onDisconnect", i))
           /\ buffer' = Hold(stack', {Header({"ACK"}, 0)})
  <2>1. Closing(i, CloseTimeout) \in Frame /\ Callback("onDisconnect", i) \in Frame
    BY ActivationType, TimeoutsAssumption DEF Callbacks
  <2>2. stack' \in Seq(Frame)
    BY <1>1, <2>1, PushFacts
  <2>3. connections' \in [Ids -> Connection]
    BY <1>1, SlotType DEF TypeOK, States
  <2> QED BY <1>1, <2>2, <2>3, HeaderType, HoldType DEF Typed
<1>2. CASE /\ stack' \in {stk, Push(stk, Callback("onIncomingData", i))}
           /\ UNCHANGED connections
           /\ buffer' \in {Hold(stack', {Header({"ACK"}, 0)}), Hold(stack', {c})}
  <2>1. Callback("onIncomingData", i) \in Frame
    BY ActivationType DEF Callbacks
  <2>2. stack' \in Seq(Frame)
    BY <1>2, <2>1, PushFacts
  <2> QED BY <1>2, <2>2, HeaderType, HoldType DEF Typed, TypeOK
<1> QED BY <1>1, <1>2 DEF Deliver

(* So does the acceptance or refusal of a new connection. *)
LEMMA NewConnectionTypes ==
  ASSUME TypeOK, NEW i \in Ids, NEW p \in Packet, NEW stk \in Seq(Frame), NewConnection(i, p, stk)
  PROVE  Typed
<1>1. connections' \in [Ids -> Connection]
  <2>1. "SYN_RECEIVED" \in States
    BY DEF States
  <2> QED BY <2>1, SlotType DEF NewConnection, TypeOK
<1>2. buffer' \subseteq Content
  BY HeaderType, HoldType DEF NewConnection
<1> QED BY <1>1, <1>2 DEF Typed, NewConnection

(* And the end of a handshake. *)
LEMMA ConfirmTypes ==
  ASSUME TypeOK, NEW i \in Ids, NEW p \in Packet, NEW stk \in Seq(Frame), Confirm(i, p, stk)
  PROVE  Typed
<1>1. PICK s \in {stk, Outdate(stk, i)} :
        stack' = Push(Push(s, Activation("handle", i, "rest", 0, 0)), Callback("onConnect", i))
  BY DEF Confirm
<1>2. s \in Seq(Frame)
  BY MarkFacts
<1>3. Activation("handle", i, "rest", 0, 0) \in Frame /\ Callback("onConnect", i) \in Frame
  BY ActivationType DEF Callbacks
<1>4. stack' \in Seq(Frame)
  BY <1>1, <1>2, <1>3, PushFacts
<1>5. connections' \in [Ids -> Connection]
  BY SlotType DEF Confirm, TypeOK, States
<1> QED BY <1>4, <1>5, HeaderType, HoldType DEF Confirm, Typed

(* TcpHandleIncomingPacket keeps the types. *)
LEMMA HandleTypes ==
  ASSUME TypeOK, NEW p \in Packet, NEW inOrder, NEW stk \in Seq(Frame),
         TcpHandleIncomingPacket(p, inOrder, stk)
  PROVE  Typed
<1> DEFINE Quiet == stack' = stk /\ UNCHANGED connections
                    /\ \E h \in Content : buffer' = Hold(stack', {h})
<1>1. CASE Quiet
  BY <1>1, HoldType DEF Typed, TypeOK
<1>2. CASE \E i \in Ids : NewConnection(i, p, Disown(stk, i))
  BY <1>2, MarkFacts, NewConnectionTypes
<1>3. CASE \E i \in Ids : NewConnection(i, p, stk)
  BY <1>3, NewConnectionTypes
<1>4. CASE \E i \in Ids : Confirm(i, p, stk)
  BY <1>4, ConfirmTypes
<1>5. CASE \E i \in Ids : Deliver(i, Received(p), i \in inOrder, stk)
  BY <1>5, DeliverTypes, HeaderType
<1>6. Received(p) \in Content /\ Header({"SYN", "ACK"}, 0) \in Content
  BY HeaderType
<1>7. \A S \in SUBSET Ids : First(S) \subseteq Ids
  BY DEF First
<1>8. Matching(p) \subseteq Ids /\ EmptyIds \subseteq Ids
  BY DEF Matching, EmptyIds
<1> QED BY <1>1, <1>2, <1>3, <1>4, <1>5, <1>6, <1>7, <1>8 DEF TcpHandleIncomingPacket

(* A changed activation is still an activation. *)
LEMMA FrameUpdates ==
  ASSUME NEW f \in Frame
  PROVE  /\ \A pc \in {"first", "loop", "wait", "hit", "miss", "expired"} : [f EXCEPT !.pc = pc] \in Frame
         /\ \A w \in 0..ShortMax : [f EXCEPT !.pc = "loop", !.waiting = w] \in Frame
         /\ [f EXCEPT !.pc = "first", !.waiting = 0] \in Frame
         /\ \A b \in BOOLEAN : [f EXCEPT !.pc = "wait", !.current = b] \in Frame
         /\ f.waiting < ArpPolls => [f EXCEPT !.waiting = f.waiting + 1] \in Frame
         /\ ~(f.left <= 1) => [f EXCEPT !.pc = "first", !.left = f.left - 1] \in Frame
         /\ Increment(f.waiting) \in 0..ShortMax
         /\ (f.pc = "first" \/ f.current) \in BOOLEAN
<1>1. ShortMax \in Nat \ {0} /\ MaxParts \in Nat \ {0} /\ ArpPolls \in 0..ShortMax
  BY SizesAssumption
<1>2. Increment(f.waiting) \in 0..ShortMax
  <2>1. f.waiting \in Nat
    BY <1>1 DEF Frame
  <2>2. \A a \in Nat : (a + 1) % (ShortMax + 1) \in 0..ShortMax
    BY <1>1
  <2> QED BY <2>1, <2>2 DEF Increment
<1>3. f.waiting < ArpPolls => f.waiting + 1 \in 0..ShortMax
  BY <1>1 DEF Frame
<1>4. ~(f.left <= 1) => f.left - 1 \in 0..MaxParts
  BY <1>1 DEF Frame
<1>5. 0 \in 0..ShortMax
  BY <1>1
<1> QED BY <1>2, <1>3, <1>4, <1>5 DEF Frame

(* Every action keeps the types. *)
LEMMA TypeStep == TypeOK /\ [Next]_vars => TypeOK'
<1> SUFFICES ASSUME TypeOK, [Next]_vars PROVE TypeOK'
  OBVIOUS
<1> USE DEF Running, Waiting
<1>0. /\ connections \in [Ids -> Connection] /\ stack \in Seq(Frame)
      /\ buffer \subseteq Content /\ connectPortRotaiting \in 0..(PortCount - 1)
  BY DEF TypeOK
<1>P. ASSUME Typed, UNCHANGED connectPortRotaiting PROVE TypeOK'
  BY <1>0, <1>P DEF Typed, TypeOK
<1>T. stack # <<>> => /\ Top(stack) \in Frame /\ Pop(stack) \in Seq(Frame)
                      /\ Top(stack).conn \in Ids
  BY <1>0, PopFacts DEF Frame
<1>C. \A p \in Arriving : p \in Packet
  BY DEF Arriving
<1>H. \A h \in Content : {h} \subseteq Content
  OBVIOUS
<1>1. CASE NetHandleNetwork
  BY <1>0, <1>1, <1>C, <1>P, HandleTypes DEF NetHandleNetwork
<1>2. CASE TcpConnect
  <2>1. PICK q \in Peers, timeout \in Timeouts : CallConnect(q, timeout)
    BY <1>2 DEF TcpConnect
  <2>2. PICK i \in First(EmptyIds), pc \in {"first", "arp"} :
         \E mac \in IF pc = "first" THEN {q} ELSE {q, NoPeer} :
           /\ connections' = [connections EXCEPT ![i] =
                [state |-> "NEW", peer |-> q, port |-> connectPortRotaiting, mac |-> mac]]
           /\ stack' = Push(Disown(stack, i), Activation("connect", i, pc, timeout, 0))
           /\ buffer' = IF pc = "arp" THEN Hold(stack', Content) ELSE buffer
    BY <2>1 DEF CallConnect
  <2>3. i \in Ids
    BY <2>2 DEF First, EmptyIds
  <2>4. stack' \in Seq(Frame)
    <3>1. Disown(stack, i) \in Seq(Frame)
      BY <1>0, <2>3, MarkFacts
    <3>2. timeout \in 0..ShortMax
      BY TimeoutsAssumption
    <3>3. Activation("connect", i, pc, timeout, 0) \in Frame
      BY <2>3, <3>2, ActivationType
    <3> QED BY <2>2, <3>1, <3>3, PushFacts
  <2>5. \A mac \in Peers \cup {NoPeer} :
          [state |-> "NEW", peer |-> q, port |-> connectPortRotaiting, mac |-> mac] \in Connection
    BY <1>0, SizesAssumption DEF Connection, States, Ports
  <2>6. connections' \in [Ids -> Connection]
    BY <1>0, <2>2, <2>3, <2>5
  <2>7. buffer' \subseteq Content
    BY <1>0, <2>2, HoldType
  <2>8. connectPortRotaiting' \in 0..(PortCount - 1)
    <3>1. \A a \in Nat, n \in Nat \ {0} : (a + 1) % n \in 0..(n - 1)
      OBVIOUS
    <3>2. connectPortRotaiting' = NextPort(connectPortRotaiting)
      BY <2>1 DEF CallConnect
    <3>3. connectPortRotaiting \in Nat /\ PortCount \in Nat \ {0}
      BY <1>0, SizesAssumption
    <3> QED BY <3>1, <3>2, <3>3 DEF NextPort
  <2> QED BY <2>4, <2>6, <2>7, <2>8 DEF TypeOK
<1>3. CASE TcpSendData
  <2>1. PICK i \in Ids, timeout \in Timeouts, parts \in 1..MaxParts :
          stack' = Push(stack, Activation("send", i, "first", timeout, parts))
    BY <1>3 DEF TcpSendData
  <2>2. timeout \in 0..ShortMax /\ parts \in 0..MaxParts
    BY TimeoutsAssumption, SizesAssumption
  <2>3. Activation("send", i, "first", timeout, parts) \in Frame
    BY <2>2, ActivationType
  <2>4. stack' \in Seq(Frame)
    BY <1>0, <2>1, <2>3, PushFacts
  <2> QED BY <1>0, <1>3, <2>4 DEF TcpSendData, TypeOK
<1>4. CASE TcpReceiveData
  <2>1. \A t \in Timeouts \cup {0} : t \in 0..ShortMax
    BY TimeoutsAssumption, SizesAssumption
  <2>2. Typed
    BY <1>0, <1>4, <2>1, ActivationType, PushFacts DEF TcpReceiveData, Typed
  <2> QED BY <1>4, <1>P, <2>2 DEF TcpReceiveData
<1>5. CASE TcpDisconnect
  <2>1. PICK i \in Ids, timeout \in Timeouts :
          /\ connections' = [connections EXCEPT ![i].state = "DYEING"]
          /\ stack' = Push(Push(stack, Closing(i, timeout)), Callback("onDisconnect", i))
    BY <1>5 DEF TcpDisconnect
  <2>2. Closing(i, timeout) \in Frame /\ Callback("onDisconnect", i) \in Frame
    BY ActivationType, TimeoutsAssumption DEF Callbacks
  <2>3. stack' \in Seq(Frame)
    BY <1>0, <2>1, <2>2, PushFacts
  <2>4. connections' \in [Ids -> Connection]
    BY <1>0, <2>1, SlotType DEF States
  <2> QED BY <1>0, <1>5, <1>P, <2>3, <2>4 DEF TcpDisconnect, Typed
<1>6. CASE HandleRest
  BY <1>0, <1>6, <1>T, <1>P, DeliverTypes DEF HandleRest
<1>7. CASE CallbackReturn
  BY <1>0, <1>7, <1>T DEF CallbackReturn, TypeOK
<1>8. CASE TcpWaitPacket
  <2>1. PICK p \in Arriving, inOrder \in SUBSET Ids, acked \in BOOLEAN : WaitPacket(p, inOrder, acked)
    BY <1>8 DEF TcpWaitPacket, Matching
  <2>2. p \in Packet /\ Received(p) \in Content
    BY <1>C, HeaderType
  <2>3. /\ SetTop(stack, [Top(stack) EXCEPT !.pc = "hit"]) \in Seq(Frame)
        /\ SetTop(stack, [Top(stack) EXCEPT !.pc = "miss"]) \in Seq(Frame)
    BY <1>0, <1>8, <1>T, FrameUpdates, SetTopFacts DEF TcpWaitPacket
  <2>4. \/ \E s \in SUBSET Ids : TcpHandleIncomingPacket(p, s, SetTop(stack, [Top(stack) EXCEPT !.pc = "hit"]))
        \/ TcpHandleIncomingPacket(p, inOrder, SetTop(stack, [Top(stack) EXCEPT !.pc = "miss"]))
        \/ /\ stack' = SetTop(stack, [Top(stack) EXCEPT !.pc = "hit"])
           /\ buffer' = Hold(stack', {Received(p)})
           /\ UNCHANGED connections
    BY <1>8, <1>T, <2>1 DEF WaitPacket, TcpWaitPacket
  <2>5. Typed
    BY <1>0, <2>2, <2>3, <2>4, HandleTypes, HoldType DEF Typed
  <2> QED BY <1>8, <1>P, <2>5 DEF TcpWaitPacket
<1>9. CASE TcpWaitNothing
  BY <1>0, <1>9, <1>T, FrameUpdates, SetTopFacts, HoldType DEF TcpWaitNothing, TypeOK
<1>10. CASE TcpWaitMissed
  BY <1>0, <1>10, <1>T, FrameUpdates, SetTopFacts DEF TcpWaitMissed, TypeOK
<1>11. CASE HandshakeTry
  <2>1. \A s \in {stack, Outdate(stack, Top(stack).conn)} : s \in Seq(Frame) /\ s # <<>>
    BY <1>0, <1>11, <1>T, MarkFacts, EmptySeq DEF HandshakeTry
  <2>2. \A b \in BOOLEAN : [Top(stack) EXCEPT !.pc = "wait", !.current = b] \in Frame
    BY <1>11, <1>T, FrameUpdates DEF HandshakeTry
  <2>3. stack' \in Seq(Frame)
    BY <1>11, <1>T, <2>1, <2>2, FrameUpdates, SetTopFacts DEF HandshakeTry
  <2>4. buffer' \subseteq Content
    BY <1>0, <1>11, HoldType, HeaderType DEF HandshakeTry
  <2> QED BY <1>0, <1>11, <2>3, <2>4 DEF HandshakeTry, TypeOK
<1>12. CASE TcpCloseEnd \/ TcpConnectExpired
  BY <1>0, <1>12, <1>T, SlotType DEF TcpCloseEnd, TcpConnectExpired, Release, GiveUp, TypeOK
<1>13. CASE ArpReply
  <2>1. [Top(stack) EXCEPT !.pc = "first", !.waiting = 0] \in Frame
    BY <1>13, <1>T, FrameUpdates DEF ArpReply
  <2>2. stack' \in Seq(Frame)
    BY <1>0, <1>13, <2>1, SetTopFacts DEF ArpReply
  <2>3. connections' \in [Ids -> Connection]
    <3>1. PICK q \in Peers : connections' = [connections EXCEPT ![Top(stack).conn].mac = q]
      BY <1>13 DEF ArpReply
    <3>2. Top(stack).conn \in Ids
      BY <1>13, <1>T DEF ArpReply
    <3> QED BY <1>0, <3>1, <3>2, SlotType
  <2> QED BY <1>13, <1>P, <2>2, <2>3, HoldType DEF ArpReply, Typed
<1>14. CASE ArpFail
  BY <1>0, <1>14, <1>T, <1>P, SlotType, HoldType DEF ArpFail, ArpFailed, Typed
<1>15. CASE ArpPacket
  BY <1>0, <1>15, <1>T, <1>C, <1>P, HandleTypes, FrameUpdates, SetTopFacts DEF ArpPacket
<1>16. CASE TcpConnectHit
  <2>1. Callback("onConnect", Top(stack).conn) \in Frame
    BY <1>16, <1>T, ActivationType DEF TcpConnectHit, Callbacks
  <2>2. stack' \in Seq(Frame)
    BY <1>0, <1>16, <2>1, SetTopFacts DEF TcpConnectHit
  <2>3. connections' \in [Ids -> Connection]
    BY <1>0, <1>16, <1>T, SlotType DEF TcpConnectHit, States
  <2>4. buffer' \subseteq Content
    BY <1>16, HoldType, HeaderType DEF TcpConnectHit
  <2> QED BY <1>16, <1>P, <2>2, <2>3, <2>4 DEF TcpConnectHit, Typed
<1>17. CASE TcpSendDataTry
  <2>1. \A s \in {stack, Outdate(stack, Top(stack).conn)} : s \in Seq(Frame) /\ s # <<>>
    BY <1>0, <1>17, <1>T, MarkFacts, EmptySeq DEF TcpSendDataTry
  <2>2. \A b \in BOOLEAN : [Top(stack) EXCEPT !.pc = "wait", !.current = b] \in Frame
    BY <1>17, <1>T, FrameUpdates DEF TcpSendDataTry
  <2>3. stack' \in Seq(Frame)
    <3>1. \A s \in {stack, Outdate(stack, Top(stack).conn)} : Pop(s) \in Seq(Frame)
      BY <2>1, PopFacts
    <3>2. \A s \in {stack, Outdate(stack, Top(stack).conn)}, b \in BOOLEAN :
            SetTop(s, [Top(stack) EXCEPT !.pc = "wait", !.current = b]) \in Seq(Frame)
      BY <2>1, <2>2, SetTopFacts
    <3>3. (Top(stack).pc = "first" \/ Top(stack).current) \in BOOLEAN
      BY <1>17, <1>T, FrameUpdates DEF TcpSendDataTry
    <3> QED BY <1>17, <3>1, <3>2, <3>3 DEF TcpSendDataTry
  <2>4. buffer' \subseteq Content
    BY <1>0, <1>17, HoldType, HeaderType DEF TcpSendDataTry
  <2> QED BY <1>0, <1>17, <2>3, <2>4 DEF TcpSendDataTry, TypeOK
<1>18. CASE TcpSendDataHit
  BY <1>0, <1>18, <1>T, FrameUpdates, SetTopFacts DEF TcpSendDataHit, TypeOK
<1>19. CASE TcpReceiveDataTry
  BY <1>0, <1>19, <1>T, FrameUpdates, SetTopFacts DEF TcpReceiveDataTry, TypeOK
<1>20. CASE TcpReceiveDataHit
  BY <1>0, <1>20, <1>T, HoldType, HeaderType DEF TcpReceiveDataHit, TypeOK
<1>21. CASE TransferExpired
  BY <1>0, <1>21, <1>T DEF TransferExpired, TypeOK
<1>22. CASE UNCHANGED vars
  BY <1>0, <1>22 DEF vars, TypeOK
<1> QED BY <1>1, <1>2, <1>3, <1>4, <1>5, <1>6, <1>7, <1>8, <1>9, <1>10, <1>11, <1>12, <1>13,
           <1>14, <1>15, <1>16, <1>17, <1>18, <1>19, <1>20, <1>21, <1>22
        DEF Next, Application, Library

(* The connection table, the stack and the buffer always hold what their   *)
(* declarations in tcp.h and tcp.c allow.                                  *)
THEOREM TypeCorrect == Spec => []TypeOK
<1>1. Init => TypeOK
  <2>1. Free \in Connection /\ 0 \in 0..(PortCount - 1)
    BY SizesAssumption DEF Free, Connection, States, Ports, ServerPort
  <2>2. <<>> \in Seq(Frame)
    BY EmptySeq
  <2> QED BY <2>1, <2>2 DEF Init, TypeOK
<1> QED BY <1>1, TypeStep, PTL DEF Spec

-----------------------------------------------------------------------------
(***************************************************************************)
(* Who owns a slot.  CloserOwnsSlot is not inductive: TcpConnect frees its *)
(* slot without looking at the state, which is right only because no       *)
(* TcpClose below it on the stack works on that slot.  CloseAboveConnect   *)
(* says so; NewHasConnect is what IdleMeansSettled needs.                  *)
(***************************************************************************)
CloseAboveConnect(s) ==
  \A j, k \in DOMAIN s :
    s[j].op = "close" /\ s[k].op = "connect" /\ s[j].conn = s[k].conn => k < j

NewHasConnect(c, s) ==
  \A i \in Ids : c[i].state = "NEW" => \E k \in DOMAIN s : s[k].op = "connect" /\ s[k].conn = i

Owned(c, s) ==
  /\ CloseOwnsDyeing(c, s)
  /\ OneCloserPerSlot(s)
  /\ DyeingHasCloser(c, s)
  /\ CloseAboveConnect(s)
  /\ NewHasConnect(c, s)

(* Activations speak of slots of the table. *)
LEMMA ConnFacts == ASSUME NEW s \in Seq(Frame) PROVE \A k \in DOMAIN s : s[k].conn \in Ids
<1>1. \A k \in DOMAIN s : s[k] \in Frame
  BY LenProperties, ElementOfSeq
<1>2. \A f \in Frame : f.conn \in Ids
  BY DEF Frame
<1> QED BY <1>1, <1>2

(* Only the operation and the slot of an activation matter to ownership. *)
LEMMA OwnedSimilar ==
  ASSUME NEW c, NEW s \in Seq(Frame), NEW t \in Seq(Frame), Len(t) = Len(s),
         \A k \in 1..Len(s) : t[k].op = s[k].op /\ t[k].conn = s[k].conn,
         Owned(c, s)
  PROVE  Owned(c, t)
<1>1. DOMAIN s = 1..Len(s) /\ DOMAIN t = 1..Len(s) /\ Len(s) \in Nat
  BY LenProperties
<1> QED BY <1>1, SMTT(30) DEF Owned, CloseOwnsDyeing, OneCloserPerSlot, DyeingHasCloser, CloseAboveConnect, NewHasConnect

(* Activations that neither close nor connect come and go freely. *)
LEMMA OwnedPush ==
  ASSUME NEW c, NEW s \in Seq(Frame), NEW f \in Frame, f.op \notin {"close", "connect"}, Owned(c, s)
  PROVE  Owned(c, Push(s, f))
<1> DEFINE t == Push(s, f)
<1>1. /\ DOMAIN s = 1..Len(s) /\ DOMAIN t = 1..(Len(s) + 1) /\ Len(s) \in Nat
      /\ \A k \in 1..Len(s) : t[k] = s[k]
      /\ t[Len(s) + 1] = f
  BY LenProperties, PushFacts
<1> HIDE DEF t
<1>2. \A k \in DOMAIN t : t[k].op \in {"close", "connect"} => k \in DOMAIN s /\ t[k] = s[k]
  BY <1>1
<1>3. \A k \in DOMAIN s : k \in DOMAIN t /\ t[k] = s[k]
  BY <1>1
<1>4. Owned(c, t)
  BY <1>2, <1>3 DEF Owned, CloseOwnsDyeing, OneCloserPerSlot, DyeingHasCloser, CloseAboveConnect, NewHasConnect
<1> QED BY <1>4 DEF t

LEMMA OwnedPop ==
  ASSUME NEW c, NEW s \in Seq(Frame), s # <<>>, Top(s).op \notin {"close", "connect"}, Owned(c, s)
  PROVE  Owned(c, Pop(s))
<1> DEFINE t == Pop(s)
<1>1. /\ DOMAIN s = 1..Len(s) /\ DOMAIN t = 1..(Len(s) - 1) /\ Len(s) \in Nat \ {0}
      /\ \A k \in 1..(Len(s) - 1) : t[k] = s[k]
      /\ s[Len(s)].op \notin {"close", "connect"}
  BY LenProperties, PopFacts DEF Top
<1> HIDE DEF t
<1>2. \A k \in DOMAIN s : s[k].op \in {"close", "connect"} => k \in DOMAIN t /\ t[k] = s[k]
  BY <1>1
<1>3. \A k \in DOMAIN t : k \in DOMAIN s /\ t[k] = s[k]
  BY <1>1
<1>4. Owned(c, t)
  BY <1>2, <1>3 DEF Owned, CloseOwnsDyeing, OneCloserPerSlot, DyeingHasCloser, CloseAboveConnect, NewHasConnect
<1> QED BY <1>4 DEF t

(* A slot that nobody closes may go to any state that needs no owner. *)
LEMMA OwnedSetState ==
  ASSUME NEW c \in [Ids -> Connection], NEW d \in [Ids -> Connection], NEW i \in Ids,
         NEW s \in Seq(Frame), Owned(c, s), c[i].state # "DYEING",
         d[i].state \notin {"NEW", "DYEING"}, \A j \in Ids \ {i} : d[j] = c[j]
  PROVE  Owned(d, s)
<1>1. \A k \in DOMAIN s : s[k].conn \in Ids
  BY ConnFacts
<1> QED BY <1>1 DEF Owned, CloseOwnsDyeing, OneCloserPerSlot, DyeingHasCloser, CloseAboveConnect, NewHasConnect

(* A slot in state ESTABLISHED goes to DYEING as a TcpClose starts on it. *)
LEMMA OwnedPushClose ==
  ASSUME NEW c \in [Ids -> Connection], NEW d \in [Ids -> Connection], NEW i \in Ids,
         NEW s \in Seq(Frame), NEW f \in Frame, f.op = "close", f.conn = i,
         Owned(c, s), c[i].state = "ESTABLISHED",
         d[i].state = "DYEING", \A j \in Ids \ {i} : d[j] = c[j]
  PROVE  Owned(d, Push(s, f))
<1> DEFINE t == Push(s, f)
<1>1. /\ DOMAIN s = 1..Len(s) /\ DOMAIN t = 1..(Len(s) + 1) /\ Len(s) \in Nat
      /\ \A k \in 1..Len(s) : t[k] = s[k]
      /\ t[Len(s) + 1] = f
  BY LenProperties, PushFacts
<1> HIDE DEF t
<1>2. \A k \in DOMAIN s : s[k].conn \in Ids
  BY ConnFacts
<1>3. \A k \in DOMAIN s : s[k].op = "close" => s[k].conn # i
  BY <1>2 DEF Owned, CloseOwnsDyeing
<1>4. CloseOwnsDyeing(d, t)
  BY <1>1, <1>2, <1>3 DEF Owned, CloseOwnsDyeing
<1>5. OneCloserPerSlot(t)
  BY <1>1, <1>3 DEF Owned, OneCloserPerSlot
<1>6. DyeingHasCloser(d, t)
  BY <1>1 DEF Owned, DyeingHasCloser
<1>7. CloseAboveConnect(t)
  BY <1>1 DEF Owned, CloseAboveConnect
<1>8. NewHasConnect(d, t)
  BY <1>1 DEF Owned, NewHasConnect
<1> QED BY <1>4, <1>5, <1>6, <1>7, <1>8 DEF Owned, t

(* A free slot goes to NEW as a TcpConnect starts on it. *)
LEMMA OwnedPushConnect ==
  ASSUME NEW c \in [Ids -> Connection], NEW d \in [Ids -> Connection], NEW i \in Ids,
         NEW s \in Seq(Frame), NEW f \in Frame, f.op = "connect", f.conn = i,
         Owned(c, s), c[i].state = "NO_CONNECTION",
         d[i].state = "NEW", \A j \in Ids \ {i} : d[j] = c[j]
  PROVE  Owned(d, Push(s, f))
<1> DEFINE t == Push(s, f)
<1>1. /\ DOMAIN s = 1..Len(s) /\ DOMAIN t = 1..(Len(s) + 1) /\ Len(s) \in Nat
      /\ \A k \in 1..Len(s) : t[k] = s[k]
      /\ t[Len(s) + 1] = f
  BY LenProperties, PushFacts
<1> HIDE DEF t
<1>2. \A k \in DOMAIN s : s[k].conn \in Ids
  BY ConnFacts
<1>3. \A k \in DOMAIN s : s[k].op = "close" => s[k].conn # i
  BY <1>2 DEF Owned, CloseOwnsDyeing
<1>4. CloseOwnsDyeing(d, t) /\ OneCloserPerSlot(t)
  BY <1>1, <1>2, <1>3 DEF Owned, CloseOwnsDyeing, OneCloserPerSlot
<1>5. DyeingHasCloser(d, t)
  BY <1>1 DEF Owned, DyeingHasCloser
<1>6. CloseAboveConnect(t)
  BY <1>1, <1>3 DEF Owned, CloseAboveConnect
<1>7. NewHasConnect(d, t)
  BY <1>1 DEF Owned, NewHasConnect
<1> QED BY <1>4, <1>5, <1>6, <1>7 DEF Owned, t

(* The TcpClose or TcpConnect on top ends and frees or opens its slot.     *)
LEMMA OwnedPopOwner ==
  ASSUME NEW c \in [Ids -> Connection], NEW d \in [Ids -> Connection],
         NEW s \in Seq(Frame), s # <<>>, Top(s).op \in {"close", "connect"}, Owned(c, s),
         d[Top(s).conn].state \notin {"NEW", "DYEING"},
         \A j \in Ids \ {Top(s).conn} : d[j] = c[j]
  PROVE  Owned(d, Pop(s))
<1> DEFINE t == Pop(s)
           n == Len(s)
           i == s[n].conn
<1>1. /\ DOMAIN s = 1..n /\ DOMAIN t = 1..(n - 1) /\ n \in Nat \ {0}
      /\ \A k \in 1..(n - 1) : t[k] = s[k]
      /\ s[n].op \in {"close", "connect"}
      /\ d[i].state \notin {"NEW", "DYEING"}
      /\ \A j \in Ids \ {i} : d[j] = c[j]
  BY LenProperties, PopFacts DEF Top
<1>2. \A k \in DOMAIN s : s[k].conn \in Ids
  BY ConnFacts
<1> HIDE DEF t, n, i
<1>3. n \in DOMAIN s /\ s[n].conn = i
  BY <1>1 DEF i
<1>4. \A k \in DOMAIN t : s[k].op = "close" => s[k].conn # i
  <2> SUFFICES ASSUME NEW k \in DOMAIN t, s[k].op = "close", s[k].conn = i PROVE FALSE
    OBVIOUS
  <2>1. k \in DOMAIN s /\ k \in Nat /\ k < n
    BY <1>1
  <2>2. CASE s[n].op = "close"
    BY <1>3, <2>1, <2>2 DEF Owned, OneCloserPerSlot
  <2>3. CASE s[n].op = "connect"
    BY <1>1, <1>3, <2>1, <2>3 DEF Owned, CloseAboveConnect
  <2> QED BY <1>1, <2>2, <2>3
<1>5. \A k \in DOMAIN t : k \in DOMAIN s /\ t[k] = s[k]
  BY <1>1
<1>6. \A k \in DOMAIN s : k # n => k \in DOMAIN t
  BY <1>1
<1>7. CloseOwnsDyeing(d, t)
  BY <1>1, <1>2, <1>4, <1>5 DEF Owned, CloseOwnsDyeing
<1>8. OneCloserPerSlot(t) /\ CloseAboveConnect(t)
  BY <1>5 DEF Owned, OneCloserPerSlot, CloseAboveConnect
<1>9. DyeingHasCloser(d, t)
  BY <1>1, <1>3, <1>5, <1>6 DEF Owned, DyeingHasCloser
<1>10. NewHasConnect(d, t)
  BY <1>1, <1>3, <1>5, <1>6 DEF Owned, NewHasConnect
<1> QED BY <1>7, <1>8, <1>9, <1>10 DEF Owned, t

(* What writing a slot does to the states of the table. *)
LEMMA SlotFacts ==
  ASSUME NEW c \in [Ids -> Connection], NEW i \in Ids
  PROVE  /\ [c EXCEPT ![i] = Free][i].state = "NO_CONNECTION"
         /\ \A j \in Ids \ {i} : [c EXCEPT ![i] = Free][j] = c[j]
         /\ \A st, p : /\ [c EXCEPT ![i] = Conversation(st, p)][i].state = st
                       /\ \A j \in Ids \ {i} : [c EXCEPT ![i] = Conversation(st, p)][j] = c[j]
         /\ \A st : /\ [c EXCEPT ![i].state = st][i].state = st
                    /\ \A j \in Ids \ {i} : [c EXCEPT ![i].state = st][j] = c[j]
         /\ \A q : \A j \in Ids : [c EXCEPT ![i].mac = q][j].state = c[j].state
  BY DEF Free, Conversation, Connection

(* Only the states of the slots matter to ownership. *)
LEMMA OwnedSameStates ==
  ASSUME NEW c, NEW d, NEW s, Owned(c, s), \A i \in Ids : d[i].state = c[i].state,
         s \in Seq(Frame)
  PROVE  Owned(d, s)
  BY ConnFacts DEF Owned, CloseOwnsDyeing, OneCloserPerSlot, DyeingHasCloser, CloseAboveConnect, NewHasConnect

(* Marking activations changes no owner. *)
LEMMA OwnedMark ==
  ASSUME NEW c, NEW s \in Seq(Frame), NEW i \in Ids, NEW t \in {Outdate(s, i), Disown(s, i)}, Owned(c, s)
  PROVE  Owned(c, t)
  BY MarkFacts, OwnedSimilar

(* An activation keeps its operation and slot when it moves on. *)
LEMMA SameOwner ==
  ASSUME NEW f \in Frame, NEW pc, NEW w, NEW b, NEW n
  PROVE  /\ [f EXCEPT !.pc = pc].op = f.op
         /\ [f EXCEPT !.pc = pc].conn = f.conn
         /\ [f EXCEPT !.waiting = w].op = f.op
         /\ [f EXCEPT !.waiting = w].conn = f.conn
         /\ [f EXCEPT !.pc = pc, !.waiting = w].op = f.op
         /\ [f EXCEPT !.pc = pc, !.waiting = w].conn = f.conn
         /\ [f EXCEPT !.pc = pc, !.current = b].op = f.op
         /\ [f EXCEPT !.pc = pc, !.current = b].conn = f.conn
         /\ [f EXCEPT !.pc = pc, !.left = n].op = f.op
         /\ [f EXCEPT !.pc = pc, !.left = n].conn = f.conn
  BY DEF Frame

(* Nor does another pc, waiting or left of the running activation. *)
LEMMA OwnedSetTop ==
  ASSUME NEW c, NEW s \in Seq(Frame), s # <<>>, NEW f \in Frame,
         f.op = Top(s).op, f.conn = Top(s).conn, Owned(c, s)
  PROVE  Owned(c, SetTop(s, f))
<1>1. /\ SetTop(s, f) \in Seq(Frame)
      /\ Len(SetTop(s, f)) = Len(s)
      /\ \A k \in 1..Len(s) : SetTop(s, f)[k] = IF k = Len(s) THEN f ELSE s[k]
  BY SetTopFacts
<1>2. \A k \in 1..Len(s) : SetTop(s, f)[k].op = s[k].op /\ SetTop(s, f)[k].conn = s[k].conn
  BY <1>1 DEF Top
<1> QED BY <1>1, <1>2, OwnedSimilar

(* Deliver starts a TcpClose only on an established slot, and owns it. *)
LEMMA DeliverOwned ==
  ASSUME TypeOK, NEW i \in Ids, NEW c \in Content, NEW expected,
         NEW stk \in Seq(Frame), Owned(connections, stk), Deliver(i, c, expected, stk)
  PROVE  Owned(connections', stack')
<1>0. connections \in [Ids -> Connection] /\ connections' \in [Ids -> Connection]
  BY DeliverTypes DEF Typed, TypeOK
<1>1. CASE /\ PassiveClose(connections[i].state)
           /\ connections' = [connections EXCEPT ![i].state = "DYEING"]
           /\ stack' = Push(Push(stk, Closing(i, CloseTimeout)), Callback("onDisconnect", i))
  <2>1. Closing(i, CloseTimeout) \in Frame /\ Callback("onDisconnect", i) \in Frame
    BY ActivationType, TimeoutsAssumption DEF Callbacks
  <2>2. /\ Closing(i, CloseTimeout).op = "close" /\ Closing(i, CloseTimeout).conn = i
        /\ Callback("onDisconnect", i).op = "onDisconnect"
    BY DEF Closing, Callback, Activation
  <2>3. connections'[i].state = "DYEING" /\ \A j \in Ids \ {i} : connections'[j] = connections[j]
    BY <1>0, <1>1, SlotFacts
  <2>4. Owned(connections', Push(stk, Closing(i, CloseTimeout)))
    BY <1>0, <1>1, <2>1, <2>2, <2>3, OwnedPushClose DEF PassiveClose
  <2>5. Push(stk, Closing(i, CloseTimeout)) \in Seq(Frame)
    BY <2>1, PushFacts
  <2> QED BY <1>1, <2>1, <2>2, <2>4, <2>5, OwnedPush
<1>2. CASE stack' = stk /\ UNCHANGED connections
  BY <1>2
<1>3. CASE stack' = Push(stk, Callback("onIncomingData", i)) /\ UNCHANGED connections
  <2>1. Callback("onIncomingData", i) \in Frame /\ Callback("onIncomingData", i).op = "onIncomingData"
    BY ActivationType DEF Callbacks, Callback, Activation
  <2> QED BY <1>3, <2>1, OwnedPush
<1> QED BY <1>1, <1>2, <1>3 DEF Deliver

(* A slot that no one closes is given to a new connection, or freed. *)
LEMMA NewConnectionOwned ==
  ASSUME TypeOK, NEW i \in Ids, connections[i].state # "DYEING", NEW p \in Packet,
         NEW stk \in Seq(Frame), Owned(connections, stk), NewConnection(i, p, stk)
  PROVE  Owned(connections', stack')
<1>0. connections \in [Ids -> Connection] /\ connections' \in [Ids -> Connection]
  BY NewConnectionTypes DEF Typed, TypeOK
<1>1. /\ connections'[i].state \in {"SYN_RECEIVED", "NO_CONNECTION"}
      /\ \A j \in Ids \ {i} : connections'[j] = connections[j]
      /\ stack' = stk
  BY <1>0, SlotFacts DEF NewConnection
<1> QED BY <1>0, <1>1, OwnedSetState

(* The handshake of a slot in state SYN_RECEIVED ends. *)
LEMMA ConfirmOwned ==
  ASSUME TypeOK, NEW i \in Ids, connections[i].state = "SYN_RECEIVED", NEW p \in Packet,
         NEW stk \in Seq(Frame), Owned(connections, stk), Confirm(i, p, stk)
  PROVE  Owned(connections', stack')
<1>0. connections \in [Ids -> Connection] /\ connections' \in [Ids -> Connection]
  BY ConfirmTypes DEF Typed, TypeOK
<1>1. /\ connections'[i].state = "ESTABLISHED"
      /\ \A j \in Ids \ {i} : connections'[j] = connections[j]
  BY <1>0, SlotFacts DEF Confirm
<1>2. PICK s \in {stk, Outdate(stk, i)} :
        stack' = Push(Push(s, Activation("handle", i, "rest", 0, 0)), Callback("onConnect", i))
  BY DEF Confirm
<1>3. s \in Seq(Frame) /\ Owned(connections, s)
  BY MarkFacts, OwnedMark
<1>4. Owned(connections', s)
  BY <1>0, <1>1, <1>3, OwnedSetState
<1>5. /\ Activation("handle", i, "rest", 0, 0) \in Frame
      /\ Callback("onConnect", i) \in Frame
      /\ Activation("handle", i, "rest", 0, 0).op = "handle"
      /\ Callback("onConnect", i).op = "onConnect"
  BY ActivationType DEF Callbacks, Callback, Activation
<1>6. LET r == Push(s, Activation("handle", i, "rest", 0, 0)) IN r \in Seq(Frame) /\ Owned(connections', r)
  BY <1>3, <1>4, <1>5, PushFacts, OwnedPush
<1> QED BY <1>2, <1>5, <1>6, OwnedPush

(* Whatever TcpHandleIncomingPacket does, every closing slot keeps its one owner. *)
LEMMA HandleOwned ==
  ASSUME TypeOK, NEW p \in Packet, NEW inOrder, NEW stk \in Seq(Frame),
         Owned(connections, stk), TcpHandleIncomingPacket(p, inOrder, stk)
  PROVE  Owned(connections', stack')
<1>1. CASE stack' = stk /\ UNCHANGED connections
  BY <1>1
<1>2. CASE \E i \in Ids : connections[i].state = "NO_CONNECTION" /\ NewConnection(i, p, Disown(stk, i))
  BY <1>2, MarkFacts, OwnedMark, NewConnectionOwned
<1>3. CASE \E i \in Ids : connections[i].state = "NEW" /\ NewConnection(i, p, stk)
  BY <1>3, NewConnectionOwned
<1>4. CASE \E i \in Ids : connections[i].state = "SYN_RECEIVED" /\ Confirm(i, p, stk)
  BY <1>4, ConfirmOwned
<1>5. CASE \E i \in Ids : Deliver(i, Received(p), i \in inOrder, stk)
  BY <1>5, DeliverOwned, HeaderType
<1>6. First(Matching(p)) \subseteq Ids
  BY DEF First, Matching
<1>7. \A i \in First(EmptyIds) : i \in Ids /\ connections[i].state = "NO_CONNECTION"
  BY DEF First, EmptyIds, IsEmpty
<1> QED BY <1>1, <1>2, <1>3, <1>4, <1>5, <1>6, <1>7 DEF TcpHandleIncomingPacket

(* Outdate leaves the running activation what it is. *)
LEMMA OutdateFacts ==
  ASSUME NEW c, NEW s \in Seq(Frame), s # <<>>, NEW i \in Ids, Owned(c, s),
         NEW t \in {s, Outdate(s, i)}
  PROVE  /\ t \in Seq(Frame) /\ t # <<>> /\ Owned(c, t)
         /\ Top(t).op = Top(s).op /\ Top(t).conn = Top(s).conn
<1>1. t \in Seq(Frame) /\ Len(t) = Len(s) /\ Owned(c, t)
  BY MarkFacts, OwnedMark
<1>2. \A k \in 1..Len(s) : t[k].op = s[k].op /\ t[k].conn = s[k].conn
  BY MarkFacts
<1>3. Len(s) \in 1..Len(s)
  BY EmptySeq
<1>4. t # <<>>
  BY <1>1, <1>3, EmptySeq
<1> QED BY <1>1, <1>2, <1>3, <1>4 DEF Top

Ownership == Owned(connections, stack)

(* Every action keeps every closing slot with its one owner. *)
LEMMA OwnedStep == TypeOK /\ Ownership /\ [Next]_vars => Ownership'
<1> SUFFICES ASSUME TypeOK, Owned(connections, stack), [Next]_vars PROVE Owned(connections', stack')
  BY DEF Ownership
<1> USE DEF Running, Waiting
<1>0. /\ connections \in [Ids -> Connection] /\ stack \in Seq(Frame)
      /\ connections' \in [Ids -> Connection] /\ stack' \in Seq(Frame)
  BY TypeStep DEF TypeOK
<1>F. stack # <<>> => Top(stack) \in Frame /\ Top(stack).conn \in Ids
  BY <1>0, PopFacts DEF Frame
<1>S. ASSUME stack # <<>>, NEW f \in Frame, f.op = Top(stack).op, f.conn = Top(stack).conn,
             stack' = SetTop(stack, f), UNCHANGED connections
      PROVE  Owned(connections', stack')
  BY <1>0, <1>S, OwnedSetTop
<1>P. ASSUME stack # <<>>, Top(stack).op \notin {"close", "connect"},
             stack' = Pop(stack), UNCHANGED connections
      PROVE  Owned(connections', stack')
  BY <1>0, <1>P, OwnedPop
<1>C. \A p \in Arriving : p \in Packet
  BY DEF Arriving
<1>1. CASE NetHandleNetwork
  BY <1>0, <1>1, <1>C, HandleOwned DEF NetHandleNetwork
<1>2. CASE TcpConnect
  <2>1. PICK q \in Peers, timeout \in Timeouts, i \in First(EmptyIds), pc \in {"first", "arp"} :
         /\ \E mac : connections' = [connections EXCEPT ![i] =
              [state |-> "NEW", peer |-> q, port |-> connectPortRotaiting, mac |-> mac]]
         /\ stack' = Push(Disown(stack, i), Activation("connect", i, pc, timeout, 0))
    BY <1>2 DEF TcpConnect, CallConnect
  <2>2. i \in Ids /\ connections[i].state = "NO_CONNECTION"
    BY DEF First, EmptyIds, IsEmpty
  <2>3. Disown(stack, i) \in Seq(Frame) /\ Owned(connections, Disown(stack, i))
    BY <1>0, <2>2, MarkFacts, OwnedMark
  <2>4. timeout \in 0..ShortMax
    BY TimeoutsAssumption
  <2>5. /\ Activation("connect", i, pc, timeout, 0) \in Frame
        /\ Activation("connect", i, pc, timeout, 0).op = "connect"
        /\ Activation("connect", i, pc, timeout, 0).conn = i
    BY <2>2, <2>4, ActivationType DEF Activation
  <2>6. connections'[i].state = "NEW" /\ \A j \in Ids \ {i} : connections'[j] = connections[j]
    BY <1>0, <2>1, <2>2
  <2>7. Owned(connections', Push(Disown(stack, i), Activation("connect", i, pc, timeout, 0)))
    BY <1>0, <2>2, <2>3, <2>5, <2>6, OwnedPushConnect
  <2> QED BY <2>1, <2>7
<1>3. CASE TcpSendData
  <2>1. PICK i \in Ids, timeout \in Timeouts, parts \in 1..MaxParts :
          stack' = Push(stack, Activation("send", i, "first", timeout, parts))
    BY <1>3 DEF TcpSendData
  <2>2. timeout \in 0..ShortMax /\ parts \in 0..MaxParts
    BY TimeoutsAssumption, SizesAssumption
  <2>3. /\ Activation("send", i, "first", timeout, parts) \in Frame
        /\ Activation("send", i, "first", timeout, parts).op = "send"
    BY <2>2, ActivationType DEF Activation
  <2> QED BY <1>0, <1>3, <2>1, <2>3, OwnedPush DEF TcpSendData
<1>4. CASE TcpReceiveData
  <2>1. PICK i \in Ids, timeout \in Timeouts \cup {0} :
          stack' = Push(stack, Activation("receive", i, "loop", timeout, 0))
    BY <1>4 DEF TcpReceiveData
  <2>2. timeout \in 0..ShortMax
    BY TimeoutsAssumption, SizesAssumption
  <2>3. /\ Activation("receive", i, "loop", timeout, 0) \in Frame
        /\ Activation("receive", i, "loop", timeout, 0).op = "receive"
    BY <2>2, ActivationType DEF Activation
  <2> QED BY <1>0, <1>4, <2>1, <2>3, OwnedPush DEF TcpReceiveData
<1>5. CASE TcpDisconnect
  <2>1. PICK i \in Ids, timeout \in Timeouts :
          /\ connections[i].state = "ESTABLISHED"
          /\ connections' = [connections EXCEPT ![i].state = "DYEING"]
          /\ stack' = Push(Push(stack, Closing(i, timeout)), Callback("onDisconnect", i))
    BY <1>5 DEF TcpDisconnect, MayDisconnect
  <2>2. /\ Closing(i, timeout) \in Frame /\ Callback("onDisconnect", i) \in Frame
        /\ Closing(i, timeout).op = "close" /\ Closing(i, timeout).conn = i
        /\ Callback("onDisconnect", i).op = "onDisconnect"
    BY ActivationType, TimeoutsAssumption DEF Callbacks, Closing, Callback, Activation
  <2>3. connections'[i].state = "DYEING" /\ \A j \in Ids \ {i} : connections'[j] = connections[j]
    BY <1>0, <2>1, SlotFacts
  <2>4. Owned(connections', Push(stack, Closing(i, timeout)))
    BY <1>0, <2>1, <2>2, <2>3, OwnedPushClose
  <2>5. Push(stack, Closing(i, timeout)) \in Seq(Frame)
    BY <1>0, <2>2, PushFacts
  <2> QED BY <2>1, <2>2, <2>4, <2>5, OwnedPush
<1>6. CASE HandleRest
  <2>1. Pop(stack) \in Seq(Frame) /\ Owned(connections, Pop(stack)) /\ Top(stack).conn \in Ids
    BY <1>0, <1>6, <1>F, PopFacts, OwnedPop DEF HandleRest
  <2> QED BY <1>6, <2>1, DeliverOwned DEF HandleRest, TypeOK
<1>7. CASE CallbackReturn
  BY <1>7, <1>P DEF CallbackReturn, Callbacks
<1>8. CASE TcpWaitPacket
  <2> DEFINE hit == SetTop(stack, [Top(stack) EXCEPT !.pc = "hit"])
             miss == SetTop(stack, [Top(stack) EXCEPT !.pc = "miss"])
  <2>1. PICK p \in Arriving, inOrder \in SUBSET Ids, acked \in BOOLEAN : WaitPacket(p, inOrder, acked)
    BY <1>8 DEF TcpWaitPacket, Matching
  <2>2. hit \in Seq(Frame) /\ miss \in Seq(Frame)
    BY <1>0, <1>8, <1>F, FrameUpdates, SetTopFacts DEF TcpWaitPacket
  <2>3. Owned(connections, hit) /\ Owned(connections, miss)
    <3>1. \A pc \in {"hit", "miss"} : [Top(stack) EXCEPT !.pc = pc] \in Frame
      BY <1>8, <1>F, FrameUpdates DEF TcpWaitPacket
    <3>2. \A pc \in {"hit", "miss"} : /\ [Top(stack) EXCEPT !.pc = pc].op = Top(stack).op
                                      /\ [Top(stack) EXCEPT !.pc = pc].conn = Top(stack).conn
      BY <1>8, <1>F, SameOwner DEF TcpWaitPacket
    <3> QED BY <1>0, <1>8, <3>1, <3>2, OwnedSetTop DEF TcpWaitPacket
  <2>4. \/ \E s \in SUBSET Ids : TcpHandleIncomingPacket(p, s, hit)
        \/ TcpHandleIncomingPacket(p, inOrder, miss)
        \/ stack' = hit /\ UNCHANGED connections
    BY <1>8, <1>F, <2>1 DEF WaitPacket, TcpWaitPacket
  <2> HIDE DEF hit, miss
  <2>5. p \in Packet
    BY <1>C
  <2> QED BY <2>2, <2>3, <2>4, <2>5, HandleOwned
<1>9. CASE TcpWaitNothing
  BY <1>9, <1>F, <1>S, SameOwner, FrameUpdates DEF TcpWaitNothing
<1>10. CASE TcpWaitMissed
  <2> DEFINE w == Increment(Top(stack).waiting)
  <2>1. PICK f \in {[Top(stack) EXCEPT !.pc = "loop"], [Top(stack) EXCEPT !.pc = "expired"],
                    [Top(stack) EXCEPT !.pc = "loop", !.waiting = w]} : stack' = SetTop(stack, f)
    BY <1>10 DEF TcpWaitMissed
  <2>2. f \in Frame
    <3>1. Top(stack) \in Frame
      BY <1>10, <1>F DEF TcpWaitMissed
    <3>2. w \in 0..ShortMax
      BY <3>1, FrameUpdates
    <3> HIDE DEF w
    <3> QED BY <2>1, <3>1, <3>2, FrameUpdates
  <2>3. f.op = Top(stack).op /\ f.conn = Top(stack).conn
    BY <1>10, <1>F DEF TcpWaitMissed, Frame
  <2> QED BY <1>10, <1>S, <2>1, <2>2, <2>3 DEF TcpWaitMissed
<1>11. CASE HandshakeTry
  <2>1. \A s \in {stack, Outdate(stack, Top(stack).conn)} :
          /\ s \in Seq(Frame) /\ s # <<>> /\ Owned(connections, s)
          /\ Top(s).op = Top(stack).op /\ Top(s).conn = Top(stack).conn
    BY <1>0, <1>11, <1>F, OutdateFacts DEF HandshakeTry
  <2>2. PICK s \in {stack, Outdate(stack, Top(stack).conn)}, b \in BOOLEAN :
          stack' = SetTop(s, [Top(stack) EXCEPT !.pc = "wait", !.current = b])
    BY <1>11, <1>F, FrameUpdates DEF HandshakeTry
  <2>3. [Top(stack) EXCEPT !.pc = "wait", !.current = b] \in Frame
    BY <1>11, <1>F, FrameUpdates DEF HandshakeTry
  <2>4. /\ [Top(stack) EXCEPT !.pc = "wait", !.current = b].op = Top(s).op
        /\ [Top(stack) EXCEPT !.pc = "wait", !.current = b].conn = Top(s).conn
    BY <1>11, <1>F, SameOwner, <2>1 DEF HandshakeTry
  <2>5. Owned(connections, stack')
    BY <2>1, <2>2, <2>3, <2>4, OwnedSetTop
  <2> QED BY <1>11, <2>5 DEF HandshakeTry
<1>12. CASE TcpCloseEnd \/ TcpConnectExpired
  <2>1. /\ stack # <<>> /\ Top(stack).op \in {"close", "connect"} /\ stack' = Pop(stack)
        /\ connections' = [connections EXCEPT ![Top(stack).conn] = Free]
    BY <1>12 DEF TcpCloseEnd, TcpConnectExpired, Release, GiveUp
  <2> QED BY <1>0, <1>F, <2>1, SlotFacts, OwnedPopOwner
<1>13. CASE ArpReply
  <2>1. Owned(connections, stack')
    <3>1. [Top(stack) EXCEPT !.pc = "first", !.waiting = 0] \in Frame
      BY <1>13, <1>F, FrameUpdates DEF ArpReply
    <3>2. /\ [Top(stack) EXCEPT !.pc = "first", !.waiting = 0].op = Top(stack).op
          /\ [Top(stack) EXCEPT !.pc = "first", !.waiting = 0].conn = Top(stack).conn
      BY <1>13, <1>F, SameOwner DEF ArpReply
    <3>3. Owned(connections, SetTop(stack, [Top(stack) EXCEPT !.pc = "first", !.waiting = 0]))
      BY <1>0, <1>13, <3>1, <3>2, OwnedSetTop DEF ArpReply
    <3> QED BY <1>13, <3>3 DEF ArpReply
  <2>2. \A j \in Ids : connections'[j].state = connections[j].state
    BY <1>0, <1>13, <1>F, SlotFacts DEF ArpReply
  <2> QED BY <1>0, <2>1, <2>2, OwnedSameStates
<1>14. CASE ArpFail
  <2>1. /\ stack # <<>> /\ Top(stack).op = "connect" /\ stack' = Pop(stack)
        /\ connections' = [connections EXCEPT ![Top(stack).conn] = Free]
    BY <1>14 DEF ArpFail, ArpFailed
  <2> QED BY <1>0, <1>F, <2>1, SlotFacts, OwnedPopOwner
<1>15. CASE ArpPacket
  <2> DEFINE polled == SetTop(stack, [Top(stack) EXCEPT !.waiting = Top(stack).waiting + 1])
  <2>1. [Top(stack) EXCEPT !.waiting = Top(stack).waiting + 1] \in Frame
    BY <1>15, <1>F, FrameUpdates DEF ArpPacket
  <2>2. polled \in Seq(Frame) /\ Owned(connections, polled)
    BY <1>0, <1>15, <1>F, SameOwner, <2>1, SetTopFacts, OwnedSetTop DEF ArpPacket
  <2>3. PICK p \in Arriving, inOrder \in SUBSET Ids : TcpHandleIncomingPacket(p, inOrder, polled)
    BY <1>15, <1>F DEF ArpPacket, Matching, Frame
  <2> HIDE DEF polled
  <2> QED BY <1>C, <2>2, <2>3, HandleOwned
<1>16. CASE TcpConnectHit
  <2> DEFINE i == Top(stack).conn
  <2>1. /\ stack # <<>> /\ Top(stack).op = "connect"
        /\ connections' = [connections EXCEPT ![i].state = "ESTABLISHED"]
        /\ stack' = SetTop(stack, Callback("onConnect", i))
    BY <1>16 DEF TcpConnectHit
  <2>2. Owned(connections', Pop(stack))
    <3>1. /\ connections'[i].state = "ESTABLISHED"
          /\ \A j \in Ids \ {i} : connections'[j] = connections[j]
      BY <1>0, <1>F, <2>1, SlotFacts
    <3> QED BY <1>0, <2>1, <3>1, OwnedPopOwner
  <2>3. Callback("onConnect", i) \in Frame /\ Callback("onConnect", i).op = "onConnect"
    BY <1>F, <2>1, ActivationType DEF Callbacks, Callback, Activation
  <2>4. Pop(stack) \in Seq(Frame)
    BY <1>0, <2>1, PopFacts
  <2>5. Owned(connections', Push(Pop(stack), Callback("onConnect", i)))
    BY <2>2, <2>3, <2>4, OwnedPush
  <2>6. stack' = Push(Pop(stack), Callback("onConnect", i))
    BY <1>0, <2>1, <2>3, SetTopIsPush
  <2> QED BY <2>5, <2>6
<1>17. CASE TcpSendDataTry
  <2>1. \A s \in {stack, Outdate(stack, Top(stack).conn)} :
          /\ s \in Seq(Frame) /\ s # <<>> /\ Owned(connections, s)
          /\ Top(s).op = Top(stack).op /\ Top(s).conn = Top(stack).conn
    BY <1>0, <1>17, <1>F, OutdateFacts DEF TcpSendDataTry
  <2>2. PICK s \in {stack, Outdate(stack, Top(stack).conn)}, b \in BOOLEAN :
          stack' \in {Pop(s), SetTop(s, [Top(stack) EXCEPT !.pc = "wait", !.current = b])}
    BY <1>17, <1>F, FrameUpdates DEF TcpSendDataTry
  <2>3. [Top(stack) EXCEPT !.pc = "wait", !.current = b] \in Frame
    BY <1>17, <1>F, FrameUpdates DEF TcpSendDataTry
  <2>4. Top(stack).op = "send" /\ stack # <<>> /\ UNCHANGED connections
    BY <1>17 DEF TcpSendDataTry
  <2>5. Owned(connections, Pop(s))
    BY <2>1, <2>4, OwnedPop
  <2>6. Owned(connections, SetTop(s, [Top(stack) EXCEPT !.pc = "wait", !.current = b]))
    <3>1. /\ [Top(stack) EXCEPT !.pc = "wait", !.current = b].op = Top(s).op
          /\ [Top(stack) EXCEPT !.pc = "wait", !.current = b].conn = Top(s).conn
      BY <1>F, SameOwner, <2>1, <2>4
    <3> QED BY <2>1, <2>3, <3>1, OwnedSetTop
  <2> QED BY <2>2, <2>4, <2>5, <2>6
<1>18. CASE TcpSendDataHit
  <2> DEFINE f == [Top(stack) EXCEPT !.pc = "first", !.left = Top(stack).left - 1]
  <2>1. CASE Top(stack).left <= 1
    BY <1>18, <1>P, <2>1 DEF TcpSendDataHit
  <2>2. CASE ~(Top(stack).left <= 1)
    <3>0. Top(stack) \in Frame
      BY <1>18, <1>F DEF TcpSendDataHit
    <3>1. f \in Frame /\ f.op = Top(stack).op /\ f.conn = Top(stack).conn
      <4>1. f \in Frame
        BY <2>2, <3>0, FrameUpdates
      <4>2. f.op = Top(stack).op /\ f.conn = Top(stack).conn
        BY <3>0 DEF Frame
      <4> QED BY <4>1, <4>2
    <3>2. stack # <<>> /\ stack' = SetTop(stack, f) /\ UNCHANGED connections
      BY <1>18, <1>F, <2>2 DEF TcpSendDataHit, Frame
    <3> QED BY <1>S, <3>1, <3>2
  <2> QED BY <2>1, <2>2
<1>19. CASE TcpReceiveDataTry
  BY <1>19, <1>F, <1>P, <1>S, SameOwner, FrameUpdates DEF TcpReceiveDataTry
<1>20. CASE TcpReceiveDataHit
  BY <1>20, <1>P DEF TcpReceiveDataHit
<1>21. CASE TransferExpired
  BY <1>21, <1>P DEF TransferExpired
<1>22. CASE UNCHANGED vars
  BY <1>22 DEF vars
<1> QED BY <1>1, <1>2, <1>3, <1>4, <1>5, <1>6, <1>7, <1>8, <1>9, <1>10, <1>11, <1>12, <1>13,
           <1>14, <1>15, <1>16, <1>17, <1>18, <1>19, <1>20, <1>21, <1>22
        DEF Next, Application, Library

(* Ownership holds in every reachable state. *)
LEMMA OwnershipCorrect == Spec => []Ownership
<1>1. Init => Ownership
  <2>1. DOMAIN <<>> = {}
    OBVIOUS
  <2> QED BY <2>1 DEF Init, Ownership, Owned, CloseOwnsDyeing, OneCloserPerSlot, DyeingHasCloser,
                      CloseAboveConnect, NewHasConnect, Free
<1> QED BY <1>1, OwnedStep, TypeCorrect, PTL DEF Spec

(* A slot in state DYEING has exactly one TcpClose at work on it, and no   *)
(* TcpClose works on any other slot, whatever packets arrive and whatever  *)
(* the callbacks call: slots are freed once, by their owner.               *)
THEOREM ClosersOwnTheirSlots == Spec => []CloserOwnsSlot
<1>1. Ownership => CloserOwnsSlot
  BY DEF Ownership, Owned, CloserOwnsSlot
<1> QED BY <1>1, OwnershipCorrect, PTL

(* Back in the main loop, no slot is left in NEW or DYEING. *)
THEOREM IdleSettled == Spec => []IdleMeansSettled
<1>1. Ownership => IdleMeansSettled
  <2>1. stack = <<>> => DOMAIN stack = {}
    OBVIOUS
  <2> QED BY <2>1 DEF Ownership, Owned, DyeingHasCloser, NewHasConnect, IdleMeansSettled
<1> QED BY <1>1, OwnershipCorrect, PTL
-----------------------------------------------------------------------------
(***************************************************************************)
(* The shape of a step: what an action does to the states of the slots and *)
(* to the activations, whichever packet or call brought it about.  The     *)
(* invariants below are proved from these shapes, not action by action.    *)
(***************************************************************************)
(* t holds the activations of s; at most their counters, and the pc of     *)
(* operations that wait, have moved on.                                    *)
Alike(s, t) ==
  /\ t \in Seq(Frame)
  /\ Len(t) = Len(s)
  /\ \A k \in 1..Len(s) :
       /\ t[k].op = s[k].op /\ t[k].conn = s[k].conn /\ t[k].stale = s[k].stale
       /\ s[k].op \notin BlockingOps => t[k].pc = s[k].pc

(* Slot i goes to state st, no other slot changes. *)
Goes(i, st) ==
  /\ connections'[i].state = st
  /\ \A j \in Ids \ {i} : connections'[j] = connections[j]

SameStates ==
  \A i \in Ids : /\ connections'[i].state = connections[i].state
                 /\ connections'[i].port = connections[i].port

Quiet(t) == SameStates /\ stack' = t

Disconnects(i, t) ==
  /\ connections[i].state = "ESTABLISHED" /\ Goes(i, "DYEING")
  /\ \E timeout \in 0..ShortMax :
       stack' = Push(Push(t, Closing(i, timeout)), Callback("onDisconnect", i))

Receives(i, t) ==
  /\ connections[i].state = "ESTABLISHED" /\ SameStates
  /\ stack' = Push(t, Callback("onIncomingData", i))

Confirms(i, t) ==
  /\ connections[i].state = "SYN_RECEIVED" /\ Goes(i, "ESTABLISHED")
  /\ stack' = Push(Push(t, Activation("handle", i, "rest", 0, 0)), Callback("onConnect", i))

(* A SYN takes a free slot, or one in state NEW whose port it may name. *)
Takes(i, t) ==
  /\ \E st \in {"SYN_RECEIVED", "NO_CONNECTION"} : Goes(i, st)
  /\ \/ connections[i].state = "NO_CONNECTION" /\ stack' = Disown(t, i)
     \/ /\ connections[i].state = "NEW" /\ stack' = t
        /\ SimultaneousOpen \/ connections[i].port = ServerPort

Handled(t) ==
  \/ Quiet(t)
  \/ \E i \in Ids : Disconnects(i, t) \/ Receives(i, t) \/ Confirms(i, t) \/ Takes(i, t)

Connects(i, t) ==
  /\ connections[i].state = "NO_CONNECTION"
  /\ Goes(i, "NEW") /\ connections'[i].port # ServerPort
  /\ \E timeout \in 0..ShortMax, pc \in {"first", "arp"} :
       stack' = Push(Disown(t, i), Activation("connect", i, pc, timeout, 0))

Transfers(i, t) ==
  /\ SameStates
  /\ \E f \in Frame : /\ f.op \in {"send", "receive"}
                      /\ stack' = Push(t, f)

(* The application calls the library in callbacks. *)
Reentrant == CallbackOps # {}

(* Who may handle a packet: the main loop, or an operation that waits. *)
Handles(s) == s = <<>> \/ Reentrant \/ Top(s).op \in BlockingOps

Shape(t) ==
  \/ Alike(stack, t) /\ Quiet(t)
  \/ Alike(stack, t) /\ Handles(stack) /\ Handled(t)
  \/ /\ Alike(stack, t) /\ (stack = <<>> \/ Reentrant)
     /\ \E i \in Ids : Connects(i, t) \/ Transfers(i, t)
  \/ /\ stack # <<>> /\ Alike(Pop(stack), t)
     /\ \/ Top(stack).op = "handle" /\ Handled(t)
        \/ Top(stack).op \in Callbacks \cup {"send", "receive"} /\ Quiet(t)
        \/ /\ Top(stack).op \in {"close", "connect"}
           /\ Goes(Top(stack).conn, "NO_CONNECTION") /\ stack' = t
        \/ /\ Top(stack).op = "connect"
           /\ Goes(Top(stack).conn, "ESTABLISHED")
           /\ stack' = Push(t, Callback("onConnect", Top(stack).conn))

(* Callbacks and the rest of TcpHandleIncomingPacket do not wait. *)
Transient(s) ==
  \A k \in DOMAIN s : s[k].op \notin BlockingOps => s[k].pc \in {"call", "rest"}

(* A stack is like itself, ... *)
LEMMA AlikeSelf == ASSUME NEW s \in Seq(Frame) PROVE Alike(s, s)
  BY DEF Alike

(* ... and likeness is transitive. *)
LEMMA AlikeTransitive ==
  ASSUME NEW s, NEW t, NEW u, Alike(s, t), Alike(t, u)
  PROVE  Alike(s, u)
  BY DEF Alike

(* Stacks that are alike have the same top, and like stacks below it. *)
LEMMA AlikeTop ==
  ASSUME NEW s \in Seq(Frame), s # <<>>, NEW t, Alike(s, t)
  PROVE  /\ t # <<>> /\ Alike(Pop(s), Pop(t))
         /\ Top(t).op = Top(s).op /\ Top(t).conn = Top(s).conn /\ Top(t).stale = Top(s).stale
<1>1. t \in Seq(Frame) /\ Len(t) = Len(s)
  BY DEF Alike
<1>2. Len(s) \in Nat \ {0} /\ t # <<>>
  BY <1>1, EmptySeq
<1>3. /\ Pop(s) \in Seq(Frame) /\ Len(Pop(s)) = Len(s) - 1
      /\ Pop(t) \in Seq(Frame) /\ Len(Pop(t)) = Len(s) - 1
      /\ \A k \in 1..(Len(s) - 1) : Pop(s)[k] = s[k] /\ Pop(t)[k] = t[k]
  BY <1>1, <1>2, PopFacts
<1>4. Len(s) \in 1..Len(s) /\ \A k \in 1..(Len(s) - 1) : k \in 1..Len(s)
  BY <1>2
<1>5. \A k \in 1..Len(s) : /\ t[k].op = s[k].op /\ t[k].conn = s[k].conn /\ t[k].stale = s[k].stale
                           /\ s[k].op \notin BlockingOps => t[k].pc = s[k].pc
  BY DEF Alike
<1>6. Alike(Pop(s), Pop(t))
  BY <1>3, <1>4, <1>5 DEF Alike
<1> QED BY <1>1, <1>2, <1>4, <1>5, <1>6 DEF Top

(* Outdate marks, and changes no operation, slot or pc. *)
LEMMA AlikeOutdate ==
  ASSUME NEW s \in Seq(Frame), NEW i \in Ids
  PROVE  Alike(s, Outdate(s, i))
<1> DEFINE t == Outdate(s, i)
<1>1. t \in Seq(Frame) /\ Len(t) = Len(s)
  BY MarkFacts
<1>2. DOMAIN s = 1..Len(s) /\ \A k \in 1..Len(s) : s[k] \in Frame
  BY LenProperties, ElementOfSeq
<1>3. \A f \in Frame : LET g == [f EXCEPT !.current = FALSE]
                       IN g.op = f.op /\ g.conn = f.conn /\ g.stale = f.stale /\ g.pc = f.pc
  BY DEF Frame
<1>4. \A k \in 1..Len(s) : t[k] \in {s[k], [s[k] EXCEPT !.current = FALSE]}
  BY <1>2 DEF Outdate
<1>5. \A k \in 1..Len(s) : t[k].op = s[k].op /\ t[k].conn = s[k].conn /\ t[k].stale = s[k].stale /\ t[k].pc = s[k].pc
  BY <1>2, <1>3, <1>4
<1> QED BY <1>1, <1>5 DEF Alike

(* The running operation waits, counts or tries again. *)
LEMMA AlikeSetTop ==
  ASSUME NEW s \in Seq(Frame), s # <<>>, NEW f \in Frame,
         f.op = Top(s).op, f.conn = Top(s).conn, f.stale = Top(s).stale, f.op \in BlockingOps
  PROVE  Alike(s, SetTop(s, f))
  BY SetTopFacts DEF Alike, Top

(* What Disown does: it marks the activations of slot i. *)
LEMMA DisownFacts ==
  ASSUME NEW s \in Seq(Frame), NEW i \in Ids
  PROVE  /\ Disown(s, i) \in Seq(Frame) /\ Len(Disown(s, i)) = Len(s)
         /\ \A k \in 1..Len(s) :
              /\ Disown(s, i)[k].op = s[k].op /\ Disown(s, i)[k].conn = s[k].conn
              /\ Disown(s, i)[k].pc = s[k].pc
              /\ s[k].conn # i => Disown(s, i)[k].stale = s[k].stale
<1> DEFINE t == Disown(s, i)
<1>1. t \in Seq(Frame) /\ Len(t) = Len(s)
  BY MarkFacts
<1>2. DOMAIN s = 1..Len(s) /\ \A k \in 1..Len(s) : s[k] \in Frame
  BY LenProperties, ElementOfSeq
<1>3. \A f \in Frame : LET g == [f EXCEPT !.stale = TRUE]
                       IN g.op = f.op /\ g.conn = f.conn /\ g.pc = f.pc
  BY DEF Frame
<1>4. \A k \in 1..Len(s) : t[k] = IF s[k].conn = i THEN [s[k] EXCEPT !.stale = TRUE] ELSE s[k]
  BY <1>2 DEF Disown
<1> QED BY <1>1, <1>2, <1>3, <1>4

(* What the fields of a slot are after it is written. *)
LEMMA GoesFacts ==
  ASSUME NEW c \in [Ids -> Connection], connections = c, NEW i \in Ids
  PROVE  /\ connections' = [c EXCEPT ![i] = Free] => Goes(i, "NO_CONNECTION")
         /\ \A st, p : connections' = [c EXCEPT ![i] = Conversation(st, p)] => Goes(i, st)
         /\ \A st : connections' = [c EXCEPT ![i].state = st] => Goes(i, st)
         /\ \A q : connections' = [c EXCEPT ![i].mac = q] => SameStates
         /\ connections' = c => SameStates
  BY DEF Goes, SameStates, Free, Conversation, Connection

(* Lines 603-626 disconnect, deliver, or leave everything as it was. *)
LEMMA DeliverShape ==
  ASSUME TypeOK, NEW i \in Ids, NEW c, NEW expected, NEW stk, Deliver(i, c, expected, stk)
  PROVE  Handled(stk)
<1>0. connections \in [Ids -> Connection]
  BY DEF TypeOK
<1>1. CASE /\ PassiveClose(connections[i].state)
           /\ connections' = [connections EXCEPT ![i].state = "DYEING"]
           /\ stack' = Push(Push(stk, Closing(i, CloseTimeout)), Callback("onDisconnect", i))
  <2>1. Goes(i, "DYEING")
    BY <1>0, <1>1, GoesFacts
  <2> QED BY <1>1, <2>1, TimeoutsAssumption DEF Handled, Disconnects, PassiveClose
<1>2. CASE stack' = stk /\ UNCHANGED connections
  BY <1>0, <1>2, GoesFacts DEF Handled, Quiet
<1>3. CASE /\ MayDeliver(connections[i].state) /\ UNCHANGED connections
           /\ stack' = Push(stk, Callback("onIncomingData", i))
  <2>1. SameStates
    BY <1>0, <1>3, GoesFacts
  <2> QED BY <1>3, <2>1 DEF Handled, Receives, MayDeliver
<1> QED BY <1>1, <1>2, <1>3 DEF Deliver

(* OnNewConnection decides where the slot goes. *)
LEMMA NewConnectionGoes ==
  ASSUME TypeOK, NEW i \in Ids, NEW p \in Packet, NEW stk, NewConnection(i, p, stk)
  PROVE  stack' = stk /\ \E st \in {"SYN_RECEIVED", "NO_CONNECTION"} : Goes(i, st)
<1>0. connections \in [Ids -> Connection]
  BY DEF TypeOK
<1> QED BY <1>0, GoesFacts DEF NewConnection

(* TcpHandleIncomingPacket has one of five effects. *)
LEMMA HandleShape ==
  ASSUME TypeOK, NEW p \in Arriving, NEW inOrder, NEW stk \in Seq(Frame),
         TcpHandleIncomingPacket(p, inOrder, stk)
  PROVE  \E t : Alike(stk, t) /\ Handled(t)
<1>0. connections \in [Ids -> Connection] /\ p \in Packet
  BY DEF TypeOK, Arriving
<1>1. CASE stack' = stk /\ UNCHANGED connections
  BY <1>1, AlikeSelf DEF Handled, Quiet, SameStates
<1>2. CASE \E i \in Ids : connections[i].state = "NO_CONNECTION" /\ NewConnection(i, p, Disown(stk, i))
  <2>1. PICK i \in Ids : connections[i].state = "NO_CONNECTION" /\ NewConnection(i, p, Disown(stk, i))
    BY <1>2
  <2>2. Takes(i, stk)
    BY <1>0, <2>1, NewConnectionGoes DEF Takes
  <2> QED BY <2>2, AlikeSelf DEF Handled
<1>3. CASE \E i \in Matching(p) : p.flags = {"SYN"} /\ connections[i].state = "NEW" /\ NewConnection(i, p, stk)
  <2>1. PICK i \in Ids : /\ TcpIsConnection(p, i) /\ p.flags = {"SYN"}
                         /\ connections[i].state = "NEW" /\ NewConnection(i, p, stk)
    BY <1>3 DEF Matching
  <2>2. SimultaneousOpen \/ connections[i].port = ServerPort
    BY <2>1 DEF Arriving, TcpIsConnection
  <2>3. Takes(i, stk)
    BY <1>0, <2>1, <2>2, NewConnectionGoes DEF Takes
  <2> QED BY <2>3, AlikeSelf DEF Handled
<1>4. CASE \E i \in Ids : connections[i].state = "SYN_RECEIVED" /\ Confirm(i, p, stk)
  <2>1. PICK i \in Ids : connections[i].state = "SYN_RECEIVED" /\ Confirm(i, p, stk)
    BY <1>4
  <2>2. PICK t \in {stk, Outdate(stk, i)} :
          stack' = Push(Push(t, Activation("handle", i, "rest", 0, 0)), Callback("onConnect", i))
    BY <2>1 DEF Confirm
  <2>3. Goes(i, "ESTABLISHED")
    BY <1>0, <2>1, GoesFacts DEF Confirm
  <2>4. Alike(stk, t)
    BY AlikeSelf, AlikeOutdate
  <2> QED BY <2>1, <2>2, <2>3, <2>4 DEF Handled, Confirms
<1>5. CASE \E i \in Ids : Deliver(i, Received(p), i \in inOrder, stk)
  BY <1>5, DeliverShape, AlikeSelf
<1>6. First(Matching(p)) \subseteq Matching(p) /\ Matching(p) \subseteq Ids
  BY DEF First, Matching
<1>7. \A i \in First(EmptyIds) : i \in Ids /\ connections[i].state = "NO_CONNECTION"
  BY DEF First, EmptyIds, IsEmpty
<1> QED BY <1>1, <1>2, <1>3, <1>4, <1>5, <1>6, <1>7 DEF TcpHandleIncomingPacket

(* The application calls only from its main loop or from a callback. *)
LEMMA MayCallFacts == ASSUME NEW op, MayCall(op) PROVE stack = <<>> \/ Reentrant
  BY DEF MayCall, Reentrant

(* An operation that waits is a blocking one. *)
LEMMA WaitsFacts ==
  ASSUME TypeOK, Transient(stack), stack # <<>>, Top(stack).pc \notin {"call", "rest"}
  PROVE  Top(stack) \in Frame /\ Top(stack).op \in BlockingOps /\ Top(stack).conn \in Ids
<1>1. Top(stack) \in Frame /\ Len(stack) \in DOMAIN stack
  BY PopFacts, LenProperties DEF TypeOK
<1> QED BY <1>1 DEF Transient, Top, Frame

(* Another pc or counter leaves operation, slot and staleness as they were. *)
LEMMA SameActivation ==
  ASSUME NEW f \in Frame, NEW pc, NEW w, NEW b, NEW n,
         NEW g \in {[f EXCEPT !.pc = pc], [f EXCEPT !.waiting = w], [f EXCEPT !.pc = pc, !.waiting = w],
                    [f EXCEPT !.pc = pc, !.current = b], [f EXCEPT !.pc = pc, !.left = n]}
  PROVE  g.op = f.op /\ g.conn = f.conn /\ g.stale = f.stale
  BY DEF Frame

(* Every step has one of these shapes. *)
LEMMA StepShape == TypeOK /\ Transient(stack) /\ [Next]_vars => \E t : Shape(t)
<1> SUFFICES ASSUME TypeOK, Transient(stack), [Next]_vars PROVE \E t : Shape(t)
  OBVIOUS
<1> USE DEF Running, Waiting
<1>0. connections \in [Ids -> Connection] /\ stack \in Seq(Frame)
  BY DEF TypeOK
<1>F. stack # <<>> => Top(stack) \in Frame /\ Top(stack).conn \in Ids /\ Pop(stack) \in Seq(Frame)
  BY <1>0, PopFacts DEF Frame
<1>Q. ASSUME NEW t, Alike(stack, t), UNCHANGED connections, stack' = t
      PROVE  Shape(t)
  BY <1>Q DEF Shape, Quiet, SameStates
<1>S. ASSUME stack # <<>>, NEW f \in Frame, Top(stack).op \in BlockingOps,
             f.op = Top(stack).op, f.conn = Top(stack).conn, f.stale = Top(stack).stale,
             stack' = SetTop(stack, f), UNCHANGED connections
      PROVE  \E t : Shape(t)
  BY <1>0, <1>S, <1>Q, AlikeSetTop
<1>H. ASSUME NEW s \in Seq(Frame), Alike(stack, s), Handles(stack),
             NEW p \in Arriving, NEW inOrder, TcpHandleIncomingPacket(p, inOrder, s)
      PROVE  \E t : Shape(t)
  <2>1. PICK t : Alike(s, t) /\ Handled(t)
    BY <1>H, HandleShape
  <2> QED BY <1>H, <2>1, AlikeTransitive DEF Shape
<1>P. ASSUME stack # <<>>, Top(stack).op \in Callbacks \cup {"send", "receive"},
             stack' = Pop(stack), UNCHANGED connections
      PROVE  \E t : Shape(t)
  BY <1>0, <1>F, <1>P, AlikeSelf DEF Shape, Quiet, SameStates
<1>E. ASSUME stack # <<>>, Top(stack).op \in {"close", "connect"}, stack' = Pop(stack),
             connections' = [connections EXCEPT ![Top(stack).conn] = Free]
      PROVE  \E t : Shape(t)
  <2>1. Goes(Top(stack).conn, "NO_CONNECTION")
    BY <1>0, <1>F, <1>E, GoesFacts
  <2> QED BY <1>F, <1>E, <2>1, AlikeSelf DEF Shape
<1>1. CASE NetHandleNetwork
  BY <1>0, <1>1, <1>H, AlikeSelf, MayCallFacts DEF NetHandleNetwork, Handles
<1>2. CASE TcpConnect
  <2>1. PICK q \in Peers, timeout \in Timeouts, i \in First(EmptyIds), pc \in {"first", "arp"} :
         /\ MayCall("connect")
         /\ \E mac : connections' = [connections EXCEPT ![i] =
              [state |-> "NEW", peer |-> q, port |-> connectPortRotaiting, mac |-> mac]]
         /\ stack' = Push(Disown(stack, i), Activation("connect", i, pc, timeout, 0))
    BY <1>2 DEF TcpConnect, CallConnect
  <2>2. i \in Ids /\ connections[i].state = "NO_CONNECTION"
    BY DEF First, EmptyIds, IsEmpty
  <2>3. timeout \in 0..ShortMax
    BY TimeoutsAssumption
  <2>4. connectPortRotaiting # ServerPort
    BY SizesAssumption DEF ServerPort, TypeOK
  <2>5. Goes(i, "NEW") /\ connections'[i].port # ServerPort
    BY <1>0, <2>1, <2>2, <2>4 DEF Goes
  <2>6. Connects(i, stack)
    BY <2>1, <2>2, <2>3, <2>5 DEF Connects
  <2> QED BY <1>0, <2>1, <2>2, <2>6, AlikeSelf, MayCallFacts DEF Shape
<1>3. CASE TcpSendData
  <2>1. PICK i \in Ids, timeout \in Timeouts, parts \in 1..MaxParts :
          stack' = Push(stack, Activation("send", i, "first", timeout, parts))
    BY <1>3 DEF TcpSendData
  <2>2. timeout \in 0..ShortMax /\ parts \in 0..MaxParts
    BY TimeoutsAssumption, SizesAssumption
  <2>3. /\ Activation("send", i, "first", timeout, parts) \in Frame
        /\ Activation("send", i, "first", timeout, parts).op = "send"
    BY <2>2, ActivationType DEF Activation
  <2>4. Transfers(i, stack)
    BY <1>3, <2>1, <2>3 DEF TcpSendData, Transfers, SameStates
  <2> QED BY <1>0, <1>3, <2>4, AlikeSelf, MayCallFacts DEF Shape, TcpSendData
<1>4. CASE TcpReceiveData
  <2>1. PICK i \in Ids, timeout \in Timeouts \cup {0} :
          stack' = Push(stack, Activation("receive", i, "loop", timeout, 0))
    BY <1>4 DEF TcpReceiveData
  <2>2. timeout \in 0..ShortMax
    BY TimeoutsAssumption, SizesAssumption
  <2>3. /\ Activation("receive", i, "loop", timeout, 0) \in Frame
        /\ Activation("receive", i, "loop", timeout, 0).op = "receive"
    BY <2>2, ActivationType DEF Activation
  <2>4. Transfers(i, stack)
    BY <1>4, <2>1, <2>3 DEF TcpReceiveData, Transfers, SameStates
  <2> QED BY <1>0, <1>4, <2>4, AlikeSelf, MayCallFacts DEF Shape, TcpReceiveData
<1>5. CASE TcpDisconnect
  <2>1. PICK i \in Ids, timeout \in Timeouts :
          /\ MayDisconnect(connections[i].state)
          /\ connections' = [connections EXCEPT ![i].state = "DYEING"]
          /\ stack' = Push(Push(stack, Closing(i, timeout)), Callback("onDisconnect", i))
    BY <1>5 DEF TcpDisconnect
  <2>2. timeout \in 0..ShortMax
    BY TimeoutsAssumption
  <2>3. Goes(i, "DYEING")
    BY <1>0, <2>1, GoesFacts
  <2>4. Disconnects(i, stack)
    BY <2>1, <2>2, <2>3 DEF MayDisconnect, Disconnects
  <2>5. Handles(stack)
    BY <1>5, MayCallFacts DEF TcpDisconnect, Handles
  <2> QED BY <1>0, <2>4, <2>5, AlikeSelf DEF Shape, Handled
<1>6. CASE HandleRest
  <2>1. PICK c, expected : Deliver(Top(stack).conn, c, expected, Pop(stack))
    BY <1>6 DEF HandleRest
  <2>2. Handled(Pop(stack))
    BY <1>6, <1>F, <2>1, DeliverShape DEF HandleRest
  <2> QED BY <1>6, <1>F, <2>2, AlikeSelf DEF Shape, HandleRest
<1>7. CASE CallbackReturn
  BY <1>7, <1>P DEF CallbackReturn
<1>8. CASE TcpWaitPacket
  <2> DEFINE hit == SetTop(stack, [Top(stack) EXCEPT !.pc = "hit"])
             miss == SetTop(stack, [Top(stack) EXCEPT !.pc = "miss"])
  <2>1. PICK p \in Arriving, inOrder \in SUBSET Ids, acked \in BOOLEAN : WaitPacket(p, inOrder, acked)
    BY <1>8 DEF TcpWaitPacket, Matching
  <2>2. stack # <<>> /\ Top(stack).op \in BlockingOps
    BY <1>8, WaitsFacts DEF TcpWaitPacket
  <2>3. /\ hit \in Seq(Frame) /\ Alike(stack, hit)
        /\ miss \in Seq(Frame) /\ Alike(stack, miss)
    <3>1. \A pc \in {"hit", "miss"} : [Top(stack) EXCEPT !.pc = pc] \in Frame
      BY <2>2, <1>F, FrameUpdates
    <3>2. \A pc \in {"hit", "miss"} : LET g == [Top(stack) EXCEPT !.pc = pc]
            IN g.op = Top(stack).op /\ g.conn = Top(stack).conn /\ g.stale = Top(stack).stale
      BY <2>2, <1>F, SameActivation
    <3> QED BY <1>0, <2>2, <3>1, <3>2, AlikeSetTop, SetTopFacts
  <2>4. \/ \E s \in SUBSET Ids : TcpHandleIncomingPacket(p, s, hit)
        \/ TcpHandleIncomingPacket(p, inOrder, miss)
        \/ stack' = hit /\ UNCHANGED connections
    BY <1>8, <1>F, <2>1 DEF WaitPacket, TcpWaitPacket
  <2> HIDE DEF hit, miss
  <2> QED BY <2>2, <2>3, <2>4, <1>H, <1>Q DEF Handles
<1>9. CASE TcpWaitNothing
  <2>1. stack # <<>> /\ Top(stack).op \in BlockingOps
    BY <1>9, WaitsFacts DEF TcpWaitNothing
  <2> QED BY <1>9, <1>F, <1>S, <2>1, SameActivation, FrameUpdates DEF TcpWaitNothing
<1>10. CASE TcpWaitMissed
  <2> DEFINE w == Increment(Top(stack).waiting)
  <2>1. stack # <<>> /\ Top(stack).op \in BlockingOps
    BY <1>10, WaitsFacts DEF TcpWaitMissed
  <2>2. PICK f \in {[Top(stack) EXCEPT !.pc = "loop"], [Top(stack) EXCEPT !.pc = "expired"],
                    [Top(stack) EXCEPT !.pc = "loop", !.waiting = w]} : stack' = SetTop(stack, f)
    BY <1>10 DEF TcpWaitMissed
  <2>3. f \in Frame
    <3>1. w \in 0..ShortMax
      BY <2>1, <1>F, FrameUpdates
    <3>2. /\ [Top(stack) EXCEPT !.pc = "loop"] \in Frame
          /\ [Top(stack) EXCEPT !.pc = "expired"] \in Frame
          /\ [Top(stack) EXCEPT !.pc = "loop", !.waiting = w] \in Frame
      <4> HIDE DEF w
      <4> QED BY <2>1, <3>1, <1>F, FrameUpdates
    <3> HIDE DEF w
    <3> QED BY <2>2, <3>2
  <2>4. f.op = Top(stack).op /\ f.conn = Top(stack).conn /\ f.stale = Top(stack).stale
    <3>1. Top(stack) \in Frame
      BY <2>1, <1>F
    <3> HIDE DEF w
    <3> QED BY <2>2, <3>1 DEF Frame
  <2> QED BY <1>10, <1>S, <2>1, <2>2, <2>3, <2>4 DEF TcpWaitMissed
<1>T. ASSUME stack # <<>>, Top(stack).op \in BlockingOps, NEW b \in BOOLEAN,
             NEW s \in {stack, Outdate(stack, Top(stack).conn)}
      PROVE  /\ Alike(stack, s)
             /\ Alike(stack, SetTop(s, [Top(stack) EXCEPT !.pc = "wait", !.current = b]))
  <2>1. Alike(stack, s) /\ s \in Seq(Frame)
    BY <1>0, <1>F, <1>T, AlikeSelf, AlikeOutdate, MarkFacts
  <2>2. s # <<>> /\ Top(s).op = Top(stack).op /\ Top(s).conn = Top(stack).conn /\ Top(s).stale = Top(stack).stale
    BY <1>0, <1>T, <2>1, AlikeTop
  <2> DEFINE f == [Top(stack) EXCEPT !.pc = "wait", !.current = b]
  <2>3. f \in Frame
    BY <1>T, <1>F, FrameUpdates
  <2>4. f.op = Top(stack).op /\ f.conn = Top(stack).conn /\ f.stale = Top(stack).stale
    BY <1>T, <1>F, SameActivation
  <2> HIDE DEF f
  <2>5. Alike(s, SetTop(s, f))
    BY <1>T, <2>1, <2>2, <2>3, <2>4, AlikeSetTop
  <2> QED BY <2>1, <2>5, AlikeTransitive DEF f
<1>11. CASE HandshakeTry
  <2>1. PICK s \in {stack, Outdate(stack, Top(stack).conn)}, b \in BOOLEAN :
          stack' = SetTop(s, [Top(stack) EXCEPT !.pc = "wait", !.current = b])
    BY <1>11, <1>F, FrameUpdates DEF HandshakeTry
  <2>2. stack # <<>> /\ Top(stack).op \in BlockingOps
    BY <1>11 DEF HandshakeTry, BlockingOps
  <2> QED BY <1>11, <1>T, <1>Q, <2>1, <2>2 DEF HandshakeTry
<1>12. CASE TcpCloseEnd \/ TcpConnectExpired
  BY <1>12, <1>E DEF TcpCloseEnd, TcpConnectExpired, Release, GiveUp
<1>13. CASE ArpReply
  <2> DEFINE f == [Top(stack) EXCEPT !.pc = "first", !.waiting = 0]
  <2>1. f \in Frame /\ f.op = Top(stack).op /\ f.conn = Top(stack).conn /\ f.stale = Top(stack).stale
    <3>1. Top(stack) \in Frame
      BY <1>13, <1>F DEF ArpReply
    <3>2. f \in Frame
      BY <3>1, FrameUpdates
    <3> QED BY <3>1, <3>2, SameActivation
  <2>2. Alike(stack, SetTop(stack, f))
    BY <1>0, <1>13, <2>1, AlikeSetTop DEF ArpReply, BlockingOps
  <2>3. SameStates
    BY <1>0, <1>13, <1>F, GoesFacts DEF ArpReply
  <2>4. stack' = SetTop(stack, f)
    BY <1>13 DEF ArpReply
  <2> HIDE DEF f
  <2> QED BY <2>2, <2>3, <2>4 DEF Shape, Quiet
<1>14. CASE ArpFail
  BY <1>14, <1>E DEF ArpFail, ArpFailed
<1>15. CASE ArpPacket
  <2> DEFINE f == [Top(stack) EXCEPT !.waiting = Top(stack).waiting + 1]
             polled == SetTop(stack, f)
  <2>1. f \in Frame /\ f.op = Top(stack).op /\ f.conn = Top(stack).conn /\ f.stale = Top(stack).stale
    BY <1>15, <1>F, FrameUpdates, SameActivation DEF ArpPacket
  <2>2. PICK p \in Arriving, inOrder \in SUBSET Ids : TcpHandleIncomingPacket(p, inOrder, polled)
    BY <1>15, <1>F DEF ArpPacket, Matching, Frame
  <2>3. stack # <<>> /\ Top(stack).op \in BlockingOps
    BY <1>15 DEF ArpPacket, BlockingOps
  <2> HIDE DEF f
  <2>4. polled \in Seq(Frame) /\ Alike(stack, polled)
    BY <1>0, <2>1, <2>3, AlikeSetTop, SetTopFacts
  <2> HIDE DEF polled
  <2> QED BY <2>2, <2>3, <2>4, <1>H DEF Handles
<1>16. CASE TcpConnectHit
  <2> DEFINE i == Top(stack).conn
  <2>1. /\ stack # <<>> /\ Top(stack).op = "connect"
        /\ connections' = [connections EXCEPT ![i].state = "ESTABLISHED"]
        /\ stack' = SetTop(stack, Callback("onConnect", i))
    BY <1>16 DEF TcpConnectHit
  <2>2. Callback("onConnect", i) \in Frame
    BY <1>F, <2>1, ActivationType DEF Callbacks
  <2>3. stack' = Push(Pop(stack), Callback("onConnect", i))
    BY <1>0, <2>1, <2>2, SetTopIsPush
  <2>4. Goes(i, "ESTABLISHED")
    BY <1>0, <1>F, <2>1, GoesFacts
  <2> QED BY <1>F, <2>1, <2>3, <2>4, AlikeSelf DEF Shape
<1>17. CASE TcpSendDataTry
  <2>1. PICK s \in {stack, Outdate(stack, Top(stack).conn)}, b \in BOOLEAN :
          stack' \in {Pop(s), SetTop(s, [Top(stack) EXCEPT !.pc = "wait", !.current = b])}
    BY <1>17, <1>F, FrameUpdates DEF TcpSendDataTry
  <2>2. /\ stack # <<>> /\ Top(stack).op = "send" /\ Top(stack).op \in BlockingOps
        /\ UNCHANGED connections
    BY <1>17 DEF TcpSendDataTry, BlockingOps
  <2>3. CASE stack' = Pop(s)
    <3>1. Alike(Pop(stack), Pop(s))
      BY <1>0, <1>T, <2>2, AlikeTop
    <3> QED BY <2>2, <2>3, <3>1 DEF Shape, Quiet, SameStates
  <2>4. CASE stack' = SetTop(s, [Top(stack) EXCEPT !.pc = "wait", !.current = b])
    BY <1>T, <1>Q, <2>2, <2>4
  <2> QED BY <2>1, <2>3, <2>4
<1>18. CASE TcpSendDataHit
  <2>0. /\ stack # <<>> /\ Top(stack).op = "send" /\ Top(stack).op \in BlockingOps
        /\ UNCHANGED connections
    BY <1>18 DEF TcpSendDataHit, BlockingOps
  <2>1. CASE Top(stack).left <= 1
    BY <1>18, <1>P, <2>0, <2>1 DEF TcpSendDataHit
  <2>2. CASE ~(Top(stack).left <= 1)
    <3> DEFINE f == [Top(stack) EXCEPT !.pc = "first", !.left = Top(stack).left - 1]
    <3>1. f \in Frame
      BY <1>F, <2>0, <2>2, FrameUpdates
    <3>2. f.op = Top(stack).op /\ f.conn = Top(stack).conn /\ f.stale = Top(stack).stale
      BY <1>F, <2>0, SameActivation
    <3>3. stack' = SetTop(stack, f)
      BY <1>18, <1>F, <2>2 DEF TcpSendDataHit, Frame
    <3> HIDE DEF f
    <3> QED BY <1>S, <2>0, <3>1, <3>2, <3>3
  <2> QED BY <2>1, <2>2
<1>19. CASE TcpReceiveDataTry
  <2>1. /\ stack # <<>> /\ Top(stack).op = "receive" /\ Top(stack).op \in BlockingOps
        /\ UNCHANGED connections
    BY <1>19 DEF TcpReceiveDataTry, BlockingOps
  <2>2. CASE connections[Top(stack).conn].state # "ESTABLISHED"
    BY <1>19, <1>P, <2>1, <2>2 DEF TcpReceiveDataTry
  <2>3. CASE connections[Top(stack).conn].state = "ESTABLISHED"
    <3> DEFINE f == [Top(stack) EXCEPT !.pc = "wait"]
    <3>1. stack' = SetTop(stack, f)
      BY <1>19, <2>3 DEF TcpReceiveDataTry
    <3>2. f \in Frame /\ f.op = Top(stack).op /\ f.conn = Top(stack).conn /\ f.stale = Top(stack).stale
      BY <1>F, <2>1, SameActivation, FrameUpdates
    <3> HIDE DEF f
    <3> QED BY <1>S, <2>1, <3>1, <3>2
  <2> QED BY <2>2, <2>3
<1>20. CASE TcpReceiveDataHit
  BY <1>20, <1>P DEF TcpReceiveDataHit
<1>21. CASE TransferExpired
  BY <1>21, <1>P DEF TransferExpired
<1>22. CASE UNCHANGED vars
  BY <1>0, <1>22, <1>Q, AlikeSelf DEF vars
<1> QED BY <1>1, <1>2, <1>3, <1>4, <1>5, <1>6, <1>7, <1>8, <1>9, <1>10, <1>11, <1>12, <1>13,
           <1>14, <1>15, <1>16, <1>17, <1>18, <1>19, <1>20, <1>21, <1>22
        DEF Next, Application, Library

(***************************************************************************)
(* What the stack operators do to a property of every activation.          *)
(***************************************************************************)
LEMMA StackIndices ==
  ASSUME NEW s \in Seq(Frame), NEW f \in Frame, NEW g \in Frame
  PROVE  /\ Len(s) \in Nat /\ DOMAIN s = 1..Len(s)
         /\ Push(s, f) \in Seq(Frame) /\ Push(s, f) # <<>> /\ Top(Push(s, f)) = f
         /\ Len(Push(s, f)) = Len(s) + 1
         /\ DOMAIN Push(s, f) = 1..(Len(s) + 1)
         /\ \A k \in 1..Len(s) : Push(s, f)[k] = s[k]
         /\ Push(s, f)[Len(s) + 1] = f
         /\ Push(Push(s, f), g) \in Seq(Frame)
         /\ Len(Push(Push(s, f), g)) = Len(s) + 2
         /\ DOMAIN Push(Push(s, f), g) = 1..(Len(s) + 2)
         /\ \A k \in 1..Len(s) : Push(Push(s, f), g)[k] = s[k]
         /\ Push(Push(s, f), g)[Len(s) + 1] = f
         /\ Push(Push(s, f), g)[Len(s) + 2] = g
<1> DEFINE t == Push(s, f)
           u == Push(t, g)
<1>1. Len(s) \in Nat /\ DOMAIN s = 1..Len(s)
  BY LenProperties
<1>2. /\ t \in Seq(Frame) /\ Len(t) = Len(s) + 1
      /\ \A k \in 1..Len(s) : t[k] = s[k]
      /\ t[Len(s) + 1] = f
  BY PushFacts
<1>3. /\ u \in Seq(Frame) /\ Len(u) = Len(t) + 1
      /\ \A k \in 1..Len(t) : u[k] = t[k]
      /\ u[Len(t) + 1] = g
  BY <1>2, PushFacts
<1> HIDE DEF t, u
<1>4. DOMAIN t = 1..Len(t) /\ DOMAIN u = 1..Len(u) /\ t # <<>>
  BY <1>1, <1>2, <1>3, LenProperties, EmptySeq
<1>5. /\ Len(u) = Len(s) + 2
      /\ \A k \in 1..Len(s) : u[k] = s[k]
      /\ u[Len(s) + 1] = f /\ u[Len(s) + 2] = g
  BY <1>1, <1>2, <1>3
<1>6. Top(t) = f
  BY <1>2 DEF Top
<1> QED BY <1>1, <1>2, <1>3, <1>4, <1>5, <1>6 DEF t, u

(* What the library pushes. *)
LEMMA PushedFacts ==
  ASSUME NEW i \in Ids
  PROVE  /\ \A cb \in Callbacks :
              /\ Callback(cb, i) \in Frame /\ Callback(cb, i).op = cb /\ Callback(cb, i).conn = i
              /\ Callback(cb, i).pc = "call"
         /\ LET h == Activation("handle", i, "rest", 0, 0)
            IN h \in Frame /\ h.op = "handle" /\ h.conn = i /\ h.pc = "rest"
         /\ \A timeout \in 0..ShortMax :
              LET c == Closing(i, timeout)
              IN c \in Frame /\ c.op = "close" /\ c.conn = i /\ ~c.stale
         /\ \A timeout \in 0..ShortMax, pc \in {"first", "arp"} :
              LET c == Activation("connect", i, pc, timeout, 0)
              IN c \in Frame /\ c.op = "connect" /\ c.conn = i /\ ~c.stale
  BY ActivationType DEF Callback, Closing, Activation

(* The operations, callbacks and the rest of TcpHandleIncomingPacket. *)
LEMMA OpFacts ==
  /\ \A op \in Callbacks : op \notin BlockingOps /\ op # "handle"
  /\ {"connect", "send", "receive", "close"} = BlockingOps
  /\ "onConnect" \in Callbacks /\ "onIncomingData" \in Callbacks /\ "onDisconnect" \in Callbacks
  /\ "handle" \notin BlockingOps /\ "handle" \notin Callbacks
  BY DEF Callbacks, BlockingOps

-----------------------------------------------------------------------------
(* Callbacks never wait. *)
LEMMA TransientAlike ==
  ASSUME NEW s \in Seq(Frame), NEW t, Alike(s, t), Transient(s)
  PROVE  Transient(t)
  BY LenProperties DEF Alike, Transient

(* Pushing, popping and marking keep it so, ... *)
LEMMA TransientPush ==
  ASSUME NEW s \in Seq(Frame), Transient(s), NEW f \in Frame,
         f.op \in BlockingOps \/ f.pc \in {"call", "rest"}
  PROVE  Transient(Push(s, f))
<1> DEFINE t == Push(s, f)
<1>1. /\ DOMAIN s = 1..Len(s) /\ DOMAIN t = 1..(Len(s) + 1) /\ Len(s) \in Nat
      /\ \A k \in 1..Len(s) : t[k] = s[k]
      /\ t[Len(s) + 1] = f
  BY StackIndices
<1> HIDE DEF t
<1> QED BY <1>1 DEF Transient, t

LEMMA TransientPop ==
  ASSUME NEW s \in Seq(Frame), s # <<>>, Transient(s)
  PROVE  Transient(Pop(s))
<1> DEFINE t == Pop(s)
<1>1. /\ DOMAIN s = 1..Len(s) /\ DOMAIN t = 1..(Len(s) - 1) /\ Len(s) \in Nat \ {0}
      /\ \A k \in 1..(Len(s) - 1) : t[k] = s[k]
  BY LenProperties, PopFacts
<1> HIDE DEF t
<1> QED BY <1>1 DEF Transient, t

LEMMA TransientDisown ==
  ASSUME NEW s \in Seq(Frame), NEW i \in Ids, Transient(s)
  PROVE  Transient(Disown(s, i))
  BY DisownFacts, LenProperties DEF Transient

(* ... and so does a packet. *)
LEMMA TransientHandled ==
  ASSUME NEW t \in Seq(Frame), Transient(t), Handled(t)
  PROVE  Transient(stack')
<1>1. CASE Quiet(t)
  BY <1>1 DEF Quiet
<1>2. ASSUME NEW i \in Ids, Disconnects(i, t) PROVE Transient(stack')
  <2>1. PICK timeout \in 0..ShortMax :
          stack' = Push(Push(t, Closing(i, timeout)), Callback("onDisconnect", i))
    BY <1>2 DEF Disconnects
  <2> DEFINE f == Closing(i, timeout)
             u == Push(t, f)
  <2>2. f \in Frame /\ f.op \in BlockingOps
    BY PushedFacts, OpFacts
  <2> HIDE DEF f
  <2>3. Transient(u) /\ u \in Seq(Frame)
    BY <2>2, TransientPush, PushFacts
  <2>4. stack' = Push(u, Callback("onDisconnect", i))
    BY <2>1 DEF f
  <2> HIDE DEF u
  <2> QED BY <2>3, <2>4, PushedFacts, OpFacts, TransientPush
<1>3. ASSUME NEW i \in Ids, Receives(i, t) PROVE Transient(stack')
  BY <1>3, PushedFacts, OpFacts, TransientPush DEF Receives
<1>4. ASSUME NEW i \in Ids, Confirms(i, t) PROVE Transient(stack')
  <2> DEFINE u == Push(t, Activation("handle", i, "rest", 0, 0))
  <2>1. Transient(u) /\ u \in Seq(Frame)
    BY PushedFacts, OpFacts, TransientPush, PushFacts
  <2>2. stack' = Push(u, Callback("onConnect", i))
    BY <1>4 DEF Confirms
  <2> HIDE DEF u
  <2> QED BY <2>1, <2>2, PushedFacts, OpFacts, TransientPush
<1>5. ASSUME NEW i \in Ids, Takes(i, t) PROVE Transient(stack')
  BY <1>5, TransientDisown DEF Takes
<1> QED BY <1>1, <1>2, <1>3, <1>4, <1>5 DEF Handled

(* So does every action. *)
LEMMA TransientStep == TypeOK /\ Transient(stack) /\ [Next]_vars => Transient(stack)'
<1> SUFFICES ASSUME TypeOK, Transient(stack), [Next]_vars PROVE Transient(stack')
  OBVIOUS
<1>0. stack \in Seq(Frame)
  BY DEF TypeOK
<1>1. PICK t : Shape(t)
  BY StepShape
<1>2. CASE Alike(stack, t) /\ (Quiet(t) \/ Handled(t))
  <2>1. t \in Seq(Frame) /\ Transient(t)
    BY <1>0, <1>2, TransientAlike DEF Alike
  <2> QED BY <1>2, <2>1, TransientHandled DEF Handled
<1>3. CASE Alike(stack, t) /\ \E i \in Ids : Connects(i, t) \/ Transfers(i, t)
  <2>1. t \in Seq(Frame) /\ Transient(t)
    BY <1>0, <1>3, TransientAlike DEF Alike
  <2>2. ASSUME NEW i \in Ids, Connects(i, t) PROVE Transient(stack')
    <3>1. Disown(t, i) \in Seq(Frame) /\ Transient(Disown(t, i))
      BY <2>1, DisownFacts, TransientDisown
    <3> QED BY <2>2, <3>1, PushedFacts, OpFacts, TransientPush DEF Connects
  <2>3. ASSUME NEW i \in Ids, Transfers(i, t) PROVE Transient(stack')
    BY <2>1, <2>3, OpFacts, TransientPush DEF Transfers
  <2> QED BY <1>3, <2>2, <2>3
<1>4. CASE stack # <<>> /\ Alike(Pop(stack), t)
           /\ (stack' = t \/ Handled(t) \/ \E i \in Ids : stack' = Push(t, Callback("onConnect", i)))
  <2>1. Pop(stack) \in Seq(Frame) /\ Transient(Pop(stack))
    BY <1>0, <1>4, PopFacts, TransientPop
  <2>2. t \in Seq(Frame) /\ Transient(t)
    BY <1>4, <2>1, TransientAlike DEF Alike
  <2> QED BY <1>4, <2>2, TransientHandled, PushedFacts, OpFacts, TransientPush
<1>5. stack # <<>> => Top(stack).conn \in Ids
  BY <1>0, PopFacts DEF Frame
<1> QED BY <1>1, <1>2, <1>3, <1>4, <1>5 DEF Shape, Quiet

(* Callbacks and the rest of TcpHandleIncomingPacket never wait. *)
LEMMA TransientCorrect == Spec => []Transient(stack)
<1>1. Init => Transient(stack)
  <2>1. DOMAIN <<>> = {}
    OBVIOUS
  <2> QED BY <2>1 DEF Init, Transient
<1> QED BY <1>1, TransientStep, TypeCorrect, PTL DEF Spec

-----------------------------------------------------------------------------
(***************************************************************************)
(* Without a simultaneous open TcpConnect keeps the slot it took: its slot *)
(* stays in state NEW, under its own port, until TcpConnect ends.  With    *)
(* CloserOwnsSlot it follows that a slot is never given away under its     *)
(* owner, for Disown only concerns slots that are free.                    *)
(***************************************************************************)
ConnectOwnsNew(c, s) == \A k \in DOMAIN s : s[k].op = "connect" => c[s[k].conn].state = "NEW"

OneConnectPerSlot(s) ==
  \A j, k \in DOMAIN s : s[j].op = "connect" /\ s[k].op = "connect" /\ s[j].conn = s[k].conn => j = k

NewIsClient(c) == \A i \in Ids : c[i].state = "NEW" => c[i].port # ServerPort

FreshOwners(s) == \A k \in DOMAIN s : s[k].op \in {"close", "connect"} => ~s[k].stale

Held(c, s) ==
  /\ CloseOwnsDyeing(c, s) /\ OneCloserPerSlot(s)
  /\ ConnectOwnsNew(c, s) /\ OneConnectPerSlot(s) /\ NewIsClient(c) /\ FreshOwners(s)

(* Only operation, slot and staleness of the activations matter. *)
LEMMA HeldAlike ==
  ASSUME NEW c, NEW s \in Seq(Frame), NEW t, Alike(s, t), Held(c, s)
  PROVE  Held(c, t)
<1>1. /\ t \in Seq(Frame) /\ DOMAIN s = 1..Len(s) /\ DOMAIN t = 1..Len(s)
      /\ \A k \in 1..Len(s) : t[k].op = s[k].op /\ t[k].conn = s[k].conn /\ t[k].stale = s[k].stale
  BY LenProperties DEF Alike
<1> QED BY <1>1 DEF Held, CloseOwnsDyeing, OneCloserPerSlot, ConnectOwnsNew, OneConnectPerSlot, NewIsClient, FreshOwners

(* A free slot is nobody's: giving it away makes no owner stale. *)
LEMMA HeldDisown ==
  ASSUME NEW c, NEW s \in Seq(Frame), NEW i \in Ids, c[i].state = "NO_CONNECTION", Held(c, s)
  PROVE  Held(c, Disown(s, i))
<1> DEFINE t == Disown(s, i)
<1>1. /\ t \in Seq(Frame) /\ DOMAIN s = 1..Len(s) /\ DOMAIN t = 1..Len(s)
      /\ \A k \in 1..Len(s) : t[k].op = s[k].op /\ t[k].conn = s[k].conn
      /\ \A k \in 1..Len(s) : s[k].conn # i => t[k].stale = s[k].stale
  BY DisownFacts, LenProperties
<1> HIDE DEF t
<1>2. \A k \in DOMAIN s : s[k].op \in {"close", "connect"} => s[k].conn # i
  BY DEF Held, CloseOwnsDyeing, ConnectOwnsNew
<1>3. FreshOwners(t)
  BY <1>1, <1>2 DEF Held, FreshOwners
<1>4. Held(c, t)
  BY <1>1, <1>3 DEF Held, CloseOwnsDyeing, OneCloserPerSlot, ConnectOwnsNew, OneConnectPerSlot, NewIsClient
<1> QED BY <1>4 DEF t

(* Activations that own no slot come and go. *)
LEMMA HeldPush ==
  ASSUME NEW c, NEW s \in Seq(Frame), NEW f \in Frame, f.op \notin {"close", "connect"}, Held(c, s)
  PROVE  Held(c, Push(s, f))
<1> DEFINE t == Push(s, f)
<1>1. /\ DOMAIN s = 1..Len(s) /\ DOMAIN t = 1..(Len(s) + 1) /\ Len(s) \in Nat
      /\ \A k \in 1..Len(s) : t[k] = s[k]
      /\ t[Len(s) + 1] = f
  BY StackIndices
<1> HIDE DEF t
<1>2. \A k \in DOMAIN t : t[k].op \in {"close", "connect"} => k \in DOMAIN s /\ t[k] = s[k]
  BY <1>1
<1>3. Held(c, t)
  BY <1>2 DEF Held, CloseOwnsDyeing, OneCloserPerSlot, ConnectOwnsNew, OneConnectPerSlot, NewIsClient, FreshOwners
<1> QED BY <1>3 DEF t

(* The owner on top leaves a slot that no other activation owns. *)
LEMMA HeldPop ==
  ASSUME NEW c, NEW s \in Seq(Frame), s # <<>>, Held(c, s)
  PROVE  /\ Held(c, Pop(s))
         /\ Top(s).op \in {"close", "connect"} =>
              \A k \in DOMAIN Pop(s) : Pop(s)[k].op \in {"close", "connect"} => Pop(s)[k].conn # Top(s).conn
<1> DEFINE t == Pop(s)
           n == Len(s)
<1>1. /\ DOMAIN s = 1..n /\ DOMAIN t = 1..(n - 1) /\ n \in Nat \ {0}
      /\ \A k \in 1..(n - 1) : t[k] = s[k]
  BY LenProperties, PopFacts
<1> HIDE DEF t, n
<1>2. /\ n \in DOMAIN s
      /\ \A k \in DOMAIN t : k \in DOMAIN s /\ t[k] = s[k] /\ k # n
  BY <1>1
<1>3. Held(c, t)
  BY <1>2 DEF Held, CloseOwnsDyeing, OneCloserPerSlot, ConnectOwnsNew, OneConnectPerSlot, NewIsClient, FreshOwners
<1>4. ASSUME s[n].op \in {"close", "connect"}, NEW k \in DOMAIN t,
             t[k].op \in {"close", "connect"}, t[k].conn = s[n].conn
      PROVE  FALSE
  <2>1. CASE t[k].op = s[n].op
    BY <1>2, <1>4, <2>1 DEF Held, OneCloserPerSlot, OneConnectPerSlot
  <2>2. CASE t[k].op # s[n].op
    BY <1>2, <1>4, <2>2 DEF Held, CloseOwnsDyeing, ConnectOwnsNew
  <2> QED BY <2>1, <2>2
<1> QED BY <1>3, <1>4 DEF t, n, Top

(* A slot that nobody owns changes its state. *)
LEMMA HeldGoes ==
  ASSUME TypeOK, NEW s \in Seq(Frame), Held(connections, s), NEW i \in Ids, NEW st, Goes(i, st),
         \A k \in DOMAIN s : s[k].op \in {"close", "connect"} => s[k].conn # i,
         st = "NEW" => connections'[i].port # ServerPort
  PROVE  Held(connections', s)
<1>1. \A k \in DOMAIN s : s[k].conn \in Ids
  BY ConnFacts
<1> QED BY <1>1 DEF Goes, Held, CloseOwnsDyeing, OneCloserPerSlot, ConnectOwnsNew, OneConnectPerSlot, NewIsClient, FreshOwners

(* Nothing is lost while the states stay as they are. *)
LEMMA HeldSameStates ==
  ASSUME NEW s \in Seq(Frame), Held(connections, s), SameStates
  PROVE  Held(connections', s)
<1>1. \A k \in DOMAIN s : s[k].conn \in Ids
  BY ConnFacts
<1> QED BY <1>1 DEF SameStates, Held, CloseOwnsDyeing, OneCloserPerSlot, ConnectOwnsNew, OneConnectPerSlot, NewIsClient, FreshOwners

(* A TcpClose starts on a slot that is DYEING, a TcpConnect on one that is *)
(* NEW, when no other activation owns it.                                  *)
LEMMA HeldPushOwner ==
  ASSUME NEW c, NEW s \in Seq(Frame), NEW f \in Frame, ~f.stale, Held(c, s),
         \/ f.op = "close" /\ c[f.conn].state = "DYEING"
         \/ f.op = "connect" /\ c[f.conn].state = "NEW",
         \A k \in DOMAIN s : s[k].op \in {"close", "connect"} => s[k].conn # f.conn
  PROVE  Held(c, Push(s, f))
<1> DEFINE t == Push(s, f)
<1>1. /\ DOMAIN s = 1..Len(s) /\ DOMAIN t = 1..(Len(s) + 1) /\ Len(s) \in Nat
      /\ \A k \in 1..Len(s) : t[k] = s[k]
      /\ t[Len(s) + 1] = f
  BY StackIndices
<1> HIDE DEF t
<1>2. \A k \in DOMAIN t : \/ k \in DOMAIN s /\ t[k] = s[k]
                          \/ k = Len(s) + 1 /\ t[k] = f
  BY <1>1
<1>3. CloseOwnsDyeing(c, t) /\ ConnectOwnsNew(c, t) /\ NewIsClient(c) /\ FreshOwners(t)
  BY <1>2 DEF Held, CloseOwnsDyeing, ConnectOwnsNew, FreshOwners
<1>4. OneCloserPerSlot(t) /\ OneConnectPerSlot(t)
  BY <1>2 DEF Held, OneCloserPerSlot, OneConnectPerSlot
<1>5. Held(c, t)
  BY <1>3, <1>4 DEF Held
<1> QED BY <1>5 DEF t

(* Nobody owns a slot in any other state. *)
LEMMA Unowned ==
  ASSUME NEW c, NEW s, Held(c, s), NEW i, c[i].state \notin {"NEW", "DYEING"}
  PROVE  \A k \in DOMAIN s : s[k].op \in {"close", "connect"} => s[k].conn # i
  BY DEF Held, CloseOwnsDyeing, ConnectOwnsNew

(* Packets leave every slot with its owner. *)
LEMMA HeldHandled ==
  ASSUME ~SimultaneousOpen, TypeOK, NEW t \in Seq(Frame), Held(connections, t), Handled(t)
  PROVE  Held(connections', stack')
<1>1. CASE Quiet(t)
  BY <1>1, HeldSameStates DEF Quiet
<1>2. ASSUME NEW i \in Ids, Disconnects(i, t) PROVE Held(connections', stack')
  <2>1. PICK timeout \in 0..ShortMax :
          stack' = Push(Push(t, Closing(i, timeout)), Callback("onDisconnect", i))
    BY <1>2 DEF Disconnects
  <2>2. \A k \in DOMAIN t : t[k].op \in {"close", "connect"} => t[k].conn # i
    BY <1>2, Unowned DEF Disconnects
  <2>3. Held(connections', t) /\ connections'[i].state = "DYEING"
    <3>1. Goes(i, "DYEING")
      BY <1>2 DEF Disconnects
    <3>2. Held(connections', t)
      BY <2>2, <3>1, HeldGoes
    <3> QED BY <3>1, <3>2 DEF Goes
  <2> DEFINE f == Closing(i, timeout)
             u == Push(t, f)
  <2>4. f \in Frame /\ f.op = "close" /\ f.conn = i /\ ~f.stale
    BY PushedFacts
  <2>5. stack' = Push(u, Callback("onDisconnect", i))
    BY <2>1
  <2> HIDE DEF f
  <2>6. u \in Seq(Frame) /\ Held(connections', u)
    BY <2>2, <2>3, <2>4, HeldPushOwner, PushFacts
  <2> HIDE DEF u
  <2> QED BY <2>5, <2>6, PushedFacts, OpFacts, HeldPush
<1>3. ASSUME NEW i \in Ids, Receives(i, t) PROVE Held(connections', stack')
  BY <1>3, HeldSameStates, PushedFacts, OpFacts, HeldPush DEF Receives
<1>4. ASSUME NEW i \in Ids, Confirms(i, t) PROVE Held(connections', stack')
  <2>1. \A k \in DOMAIN t : t[k].op \in {"close", "connect"} => t[k].conn # i
    BY <1>4, Unowned DEF Confirms
  <2>2. Held(connections', t)
    BY <1>4, <2>1, HeldGoes DEF Confirms
  <2> DEFINE f == Activation("handle", i, "rest", 0, 0)
             u == Push(t, f)
  <2>3. f \in Frame /\ f.op = "handle"
    BY PushedFacts
  <2>4. stack' = Push(u, Callback("onConnect", i))
    BY <1>4 DEF Confirms
  <2> HIDE DEF f
  <2>5. u \in Seq(Frame) /\ Held(connections', u)
    BY <2>2, <2>3, HeldPush, PushFacts
  <2> HIDE DEF u
  <2> QED BY <2>4, <2>5, PushedFacts, OpFacts, HeldPush
<1>5. ASSUME NEW i \in Ids, Takes(i, t) PROVE Held(connections', stack')
  <2>1. connections[i].state = "NO_CONNECTION" /\ stack' = Disown(t, i)
    BY <1>5 DEF Takes, Held, NewIsClient
  <2>2. stack' \in Seq(Frame) /\ Held(connections, stack')
    BY <2>1, HeldDisown, DisownFacts
  <2>3. \A k \in DOMAIN stack' : stack'[k].op \in {"close", "connect"} => stack'[k].conn # i
    BY <2>1, <2>2, Unowned
  <2> QED BY <1>5, <2>2, <2>3, HeldGoes DEF Takes
<1> QED BY <1>1, <1>2, <1>3, <1>4, <1>5 DEF Handled

Holding == Held(connections, stack)

(* So does every action. *)
LEMMA HoldingStep ==
  ASSUME ~SimultaneousOpen
  PROVE  TypeOK /\ Transient(stack) /\ Holding /\ [Next]_vars => Holding'
<1> SUFFICES ASSUME TypeOK, Transient(stack), Held(connections, stack), [Next]_vars
             PROVE  Held(connections', stack')
  BY DEF Holding
<1>0. stack \in Seq(Frame) /\ (stack # <<>> => Top(stack).conn \in Ids)
  BY PopFacts DEF TypeOK, Frame
<1>1. PICK t : Shape(t)
  BY StepShape
<1>2. CASE Alike(stack, t) /\ (Quiet(t) \/ Handled(t))
  <2>1. t \in Seq(Frame) /\ Held(connections, t)
    BY <1>0, <1>2, HeldAlike DEF Alike
  <2> QED BY <1>2, <2>1, HeldHandled DEF Handled
<1>3. CASE Alike(stack, t) /\ \E i \in Ids : Connects(i, t) \/ Transfers(i, t)
  <2>1. t \in Seq(Frame) /\ Held(connections, t)
    BY <1>0, <1>3, HeldAlike DEF Alike
  <2>2. ASSUME NEW i \in Ids, Connects(i, t) PROVE Held(connections', stack')
    <3> DEFINE u == Disown(t, i)
    <3>1. connections[i].state = "NO_CONNECTION"
      BY <2>2 DEF Connects
    <3>2. u \in Seq(Frame) /\ Held(connections, u)
      BY <2>1, <3>1, HeldDisown, DisownFacts
    <3>3. PICK timeout \in 0..ShortMax, pc \in {"first", "arp"} :
            stack' = Push(u, Activation("connect", i, pc, timeout, 0))
      BY <2>2 DEF Connects
    <3> HIDE DEF u
    <3>4. \A k \in DOMAIN u : u[k].op \in {"close", "connect"} => u[k].conn # i
      BY <3>1, <3>2, Unowned
    <3>5. Held(connections', u) /\ connections'[i].state = "NEW"
      <4>1. Goes(i, "NEW") /\ connections'[i].port # ServerPort
        BY <2>2 DEF Connects
      <4>2. Held(connections', u)
        BY <3>2, <3>4, <4>1, HeldGoes
      <4> QED BY <4>1, <4>2 DEF Goes
    <3> DEFINE f == Activation("connect", i, pc, timeout, 0)
    <3>6. f \in Frame /\ f.op = "connect" /\ f.conn = i /\ ~f.stale
      BY PushedFacts
    <3> HIDE DEF f
    <3>7. Held(connections', Push(u, f))
      BY <3>2, <3>4, <3>5, <3>6, HeldPushOwner
    <3> QED BY <3>3, <3>7 DEF f
  <2>3. ASSUME NEW i \in Ids, Transfers(i, t) PROVE Held(connections', stack')
    BY <2>1, <2>3, HeldSameStates, HeldPush DEF Transfers
  <2> QED BY <1>3, <2>2, <2>3
<1>4. CASE stack # <<>> /\ Alike(Pop(stack), t)
           /\ (Handled(t) \/ Quiet(t))
  <2>1. Pop(stack) \in Seq(Frame) /\ Held(connections, Pop(stack))
    BY <1>0, <1>4, PopFacts, HeldPop
  <2>2. t \in Seq(Frame) /\ Held(connections, t)
    BY <1>4, <2>1, HeldAlike DEF Alike
  <2> QED BY <1>4, <2>2, HeldHandled DEF Handled
<1>5. CASE /\ stack # <<>> /\ Alike(Pop(stack), t) /\ Top(stack).op \in {"close", "connect"}
           /\ \/ Goes(Top(stack).conn, "NO_CONNECTION") /\ stack' = t
              \/ Goes(Top(stack).conn, "ESTABLISHED") /\ stack' = Push(t, Callback("onConnect", Top(stack).conn))
  <2> DEFINE i == Top(stack).conn
             b == Pop(stack)
  <2>1. i \in Ids /\ b \in Seq(Frame) /\ Held(connections, b)
    BY <1>0, <1>5, PopFacts, HeldPop
  <2>2. \A k \in DOMAIN b : b[k].op \in {"close", "connect"} => b[k].conn # i
    BY <1>0, <1>5, HeldPop
  <2>3. Alike(b, t)
    BY <1>5
  <2>4. /\ Goes(i, "NO_CONNECTION") \/ Goes(i, "ESTABLISHED")
        /\ stack' \in {t, Push(t, Callback("onConnect", i))}
    BY <1>5
  <2> HIDE DEF i, b
  <2>5. Held(connections', b)
    BY <2>1, <2>2, <2>4, HeldGoes
  <2>6. Held(connections', t) /\ t \in Seq(Frame)
    BY <2>1, <2>3, <2>5, HeldAlike DEF Alike
  <2> QED BY <2>1, <2>4, <2>6, PushedFacts, OpFacts, HeldPush
<1> QED BY <1>1, <1>2, <1>3, <1>4, <1>5 DEF Shape

(* TcpClose and TcpConnect hold their slots in every reachable state. *)
LEMMA HoldingCorrect == ASSUME ~SimultaneousOpen PROVE Spec => []Holding
<1>1. Init => Holding
  <2>1. DOMAIN <<>> = {}
    OBVIOUS
  <2> QED BY <2>1 DEF Init, Holding, Held, CloseOwnsDyeing, OneCloserPerSlot, ConnectOwnsNew,
                      OneConnectPerSlot, NewIsClient, FreshOwners, Free
<1>2. TypeOK /\ Transient(stack) /\ Holding /\ [Next]_vars => Holding'
  BY HoldingStep
<1> QED BY <1>1, <1>2, TransientCorrect, TypeCorrect, PTL DEF Spec

(* As long as no peer opens towards a port that TcpConnect is using, no    *)
(* TcpClose or TcpConnect ever works on a slot that was meanwhile given to *)
(* another conversation, however calls and packets nest.                   *)
THEOREM OwnersFresh == ASSUME ~SimultaneousOpen PROVE Spec => []OwnersNeverStale
<1>1. Holding => OwnersNeverStale
  BY DEF Holding, Held, FreshOwners, OwnersNeverStale
<1> QED BY <1>1, HoldingCorrect, PTL

-----------------------------------------------------------------------------
(***************************************************************************)
(* The callbacks keep their promise: Tcp implements TcpCallbacks.          *)
(***************************************************************************)
CallsOf(s) == {<<k, s[k].op, s[k].conn>> : k \in {m \in DOMAIN s : s[m].op \in Callbacks}}

(* No callback lies deeper than the stack. *)
LEMMA CallsFacts ==
  ASSUME NEW s \in Seq(Frame)
  PROVE  \A c \in CallsOf(s) : c[1] \in Nat /\ c[1] <= Len(s)
  BY LenProperties DEF CallsOf

(* Operation and slot of the activations are all that matters. *)
LEMMA CallsAlike ==
  ASSUME NEW s \in Seq(Frame), NEW t \in Seq(Frame), Len(t) = Len(s),
         \A k \in 1..Len(s) : t[k].op = s[k].op /\ t[k].conn = s[k].conn
  PROVE  CallsOf(t) = CallsOf(s)
<1>1. DOMAIN s = 1..Len(s) /\ DOMAIN t = 1..Len(s)
  BY LenProperties
<1>2. {m \in DOMAIN t : t[m].op \in Callbacks} = {m \in DOMAIN s : s[m].op \in Callbacks}
  BY <1>1
<1> QED BY <1>1, <1>2 DEF CallsOf

(* Pushing a callback adds it, deeper than all others, ... *)
LEMMA CallsPush ==
  ASSUME NEW s \in Seq(Frame), NEW f \in Frame
  PROVE  CallsOf(Push(s, f)) = IF f.op \in Callbacks THEN CallsOf(s) \cup {<<Len(s) + 1, f.op, f.conn>>}
                                                     ELSE CallsOf(s)
<1> DEFINE t == Push(s, f)
           n == Len(s) + 1
           D == {m \in DOMAIN s : s[m].op \in Callbacks}
           E == {m \in DOMAIN t : t[m].op \in Callbacks}
<1>1. /\ DOMAIN s = 1..Len(s) /\ DOMAIN t = 1..n /\ Len(s) \in Nat
      /\ \A k \in 1..Len(s) : t[k] = s[k]
      /\ t[n] = f
  BY StackIndices
<1> HIDE DEF t
<1>2. \A k \in D : t[k] = s[k]
  BY <1>1
<1>3. E = IF f.op \in Callbacks THEN D \cup {n} ELSE D
  BY <1>1
<1>4. CallsOf(t) = {<<k, t[k].op, t[k].conn>> : k \in E} /\ CallsOf(s) = {<<k, s[k].op, s[k].conn>> : k \in D}
  BY DEF CallsOf
<1>5. t[n] = f
  BY <1>1
<1> HIDE DEF D, E, n
<1>6. CASE f.op \in Callbacks
  BY <1>2, <1>3, <1>4, <1>5, <1>6 DEF t, n
<1>7. CASE f.op \notin Callbacks
  BY <1>2, <1>3, <1>4, <1>7 DEF t
<1> QED BY <1>6, <1>7

(* ... popping one takes the deepest away. *)
LEMMA CallsPop ==
  ASSUME NEW s \in Seq(Frame), s # <<>>
  PROVE  CallsOf(Pop(s)) = IF Top(s).op \in Callbacks THEN CallsOf(s) \ {<<Len(s), Top(s).op, Top(s).conn>>}
                                                      ELSE CallsOf(s)
<1> DEFINE b == Pop(s)
           n == Len(s)
           u == Push(b, Top(s))
<1>1. /\ b \in Seq(Frame) /\ Len(b) = n - 1 /\ n \in Nat \ {0} /\ Top(s) \in Frame
      /\ \A k \in 1..(n - 1) : b[k] = s[k]
  BY PopFacts
<1>2. u \in Seq(Frame) /\ Len(u) = n /\ \A k \in 1..n : u[k] = s[k]
  <2>1. /\ u \in Seq(Frame) /\ Len(u) = Len(b) + 1
        /\ \A k \in 1..Len(b) : u[k] = b[k]
        /\ u[Len(b) + 1] = Top(s)
    BY <1>1, PushFacts
  <2> HIDE DEF b, u
  <2> QED BY <1>1, <2>1 DEF Top
<1>3. CallsOf(u) = CallsOf(s)
  BY <1>2, CallsAlike
<1>4. CallsOf(u) = IF Top(s).op \in Callbacks THEN CallsOf(b) \cup {<<n, Top(s).op, Top(s).conn>>} ELSE CallsOf(b)
  <2>1. Len(b) + 1 = n
    BY <1>1
  <2> QED BY <1>1, <2>1, CallsPush
<1>5. \A c \in CallsOf(b) : c[1] \in Nat /\ c[1] <= n - 1
  BY <1>1, CallsFacts
<1>6. <<n, Top(s).op, Top(s).conn>> \notin CallsOf(b)
  BY <1>1, <1>5
<1> QED BY <1>3, <1>4, <1>6

(* Which slots are open after a step. *)
LEMMA OpenFacts ==
  /\ SameStates => Open' = Open
  /\ \A i \in Ids : \A st : Goes(i, st) => Open' = IF st = "ESTABLISHED" THEN Open \cup {i} ELSE Open \ {i}
  BY DEF SameStates, Goes, Open

(* A callback begins. *)
LEMMA BeginFacts ==
  ASSUME NEW t \in Seq(Frame), CallsOf(t) = Calls, NEW cb \in Callbacks, NEW i \in Ids,
         stack' = Push(t, Callback(cb, i))
  PROVE  Promise!Begin(cb, i)
<1>1. CallsOf(stack') = CallsOf(t) \cup {<<Len(t) + 1, cb, i>>}
  BY PushedFacts, CallsPush
<1>2. Calls' = CallsOf(stack')
  BY DEF Calls, CallsOf
<1>3. \A c \in Calls : c[1] < Len(t) + 1
  BY CallsFacts, LenProperties
<1>4. <<Len(t) + 1, cb, i>> \in Calls' /\ <<Len(t) + 1, cb, i>>[1] = Len(t) + 1
  BY <1>1, <1>2
<1> QED BY <1>1, <1>2, <1>3, <1>4 DEF Promise!Begin

(* What packet handling tells the application. *)
LEMMA HandledPromise ==
  ASSUME NEW t \in Seq(Frame), CallsOf(t) = Calls, Handled(t)
  PROVE  [Promise!Next]_<<Open, Calls>>
<1>0. Calls' = CallsOf(stack')
  BY DEF Calls, CallsOf
<1>1. CASE Quiet(t)
  BY <1>0, <1>1, OpenFacts DEF Quiet
<1>2. ASSUME NEW i \in Ids, Disconnects(i, t) PROVE Promise!OnDisconnect(i)
  <2>1. PICK timeout \in 0..ShortMax :
          stack' = Push(Push(t, Closing(i, timeout)), Callback("onDisconnect", i))
    BY <1>2 DEF Disconnects
  <2> DEFINE f == Closing(i, timeout)
             u == Push(t, f)
  <2>2. f \in Frame /\ f.op \notin Callbacks
    BY PushedFacts, OpFacts
  <2>3. stack' = Push(u, Callback("onDisconnect", i))
    BY <2>1
  <2> HIDE DEF f
  <2>4. u \in Seq(Frame) /\ CallsOf(u) = Calls
    BY <2>2, CallsPush, PushFacts
  <2> HIDE DEF u
  <2>5. Promise!Begin("onDisconnect", i)
    BY <2>3, <2>4, BeginFacts, OpFacts
  <2>6. i \in Open /\ Open' = Open \ {i}
    BY <1>2, OpenFacts DEF Disconnects, Open
  <2> QED BY <2>5, <2>6 DEF Promise!OnDisconnect
<1>3. ASSUME NEW i \in Ids, Receives(i, t) PROVE Promise!OnIncomingData(i)
  <2>1. Promise!Begin("onIncomingData", i)
    BY <1>3, BeginFacts, OpFacts DEF Receives
  <2>2. i \in Open /\ Open' = Open
    BY <1>3, OpenFacts DEF Receives, Open
  <2> QED BY <2>1, <2>2 DEF Promise!OnIncomingData
<1>4. ASSUME NEW i \in Ids, Confirms(i, t) PROVE Promise!OnConnect(i)
  <2> DEFINE f == Activation("handle", i, "rest", 0, 0)
             u == Push(t, f)
  <2>2. f \in Frame /\ f.op \notin Callbacks
    BY PushedFacts, OpFacts
  <2>3. stack' = Push(u, Callback("onConnect", i))
    BY <1>4 DEF Confirms
  <2> HIDE DEF f
  <2>4. u \in Seq(Frame) /\ CallsOf(u) = Calls
    BY <2>2, CallsPush, PushFacts
  <2> HIDE DEF u
  <2>5. Promise!Begin("onConnect", i)
    BY <2>3, <2>4, BeginFacts, OpFacts
  <2>6. i \notin Open /\ Open' = Open \cup {i}
    BY <1>4, OpenFacts DEF Confirms, Open
  <2> QED BY <2>5, <2>6 DEF Promise!OnConnect
<1>5. ASSUME NEW i \in Ids, Takes(i, t) PROVE UNCHANGED <<Open, Calls>>
  <2>1. Open' = Open
    <3>1. i \notin Open
      BY <1>5 DEF Takes, Open
    <3> QED BY <1>5, <3>1, OpenFacts DEF Takes
  <2>2. CallsOf(stack') = CallsOf(t)
    <3>1. CASE stack' = t
      BY <3>1
    <3>2. CASE stack' = Disown(t, i)
      BY <3>2, DisownFacts, CallsAlike
    <3> QED BY <1>5, <3>1, <3>2 DEF Takes
  <2> QED BY <1>0, <2>1, <2>2
<1> QED BY <1>1, <1>2, <1>3, <1>4, <1>5 DEF Handled, Promise!Next

(* Every action is a step that TcpCallbacks allows, or none of its concern. *)
LEMMA PromiseStep ==
  ASSUME ~SimultaneousOpen
  PROVE  TypeOK /\ Transient(stack) /\ Holding /\ [Next]_vars => [Promise!Next]_<<Open, Calls>>
<1> SUFFICES ASSUME TypeOK, Transient(stack), Held(connections, stack), [Next]_vars
             PROVE  [Promise!Next]_<<Open, Calls>>
  BY DEF Holding
<1>0. /\ stack \in Seq(Frame) /\ (stack # <<>> => Top(stack).conn \in Ids)
      /\ Calls = CallsOf(stack) /\ Calls' = CallsOf(stack')
  BY PopFacts DEF TypeOK, Frame, Calls, CallsOf
<1>1. PICK t : Shape(t)
  BY StepShape
<1>2. CASE Alike(stack, t) /\ (Quiet(t) \/ Handled(t))
  <2>1. t \in Seq(Frame) /\ CallsOf(t) = Calls
    BY <1>0, <1>2, CallsAlike DEF Alike
  <2> QED BY <1>2, <2>1, HandledPromise DEF Handled
<1>3. CASE Alike(stack, t) /\ \E i \in Ids : Connects(i, t) \/ Transfers(i, t)
  <2>1. t \in Seq(Frame) /\ CallsOf(t) = Calls
    BY <1>0, <1>3, CallsAlike DEF Alike
  <2>2. ASSUME NEW i \in Ids, Connects(i, t) PROVE UNCHANGED <<Open, Calls>>
    <3>1. PICK timeout \in 0..ShortMax, pc \in {"first", "arp"} :
            stack' = Push(Disown(t, i), Activation("connect", i, pc, timeout, 0))
      BY <2>2 DEF Connects
    <3> DEFINE u == Disown(t, i)
               f == Activation("connect", i, pc, timeout, 0)
    <3>2. u \in Seq(Frame) /\ CallsOf(u) = Calls
      BY <2>1, DisownFacts, CallsAlike
    <3>3. f \in Frame /\ f.op \notin Callbacks
      BY PushedFacts, OpFacts
    <3>4. stack' = Push(u, f)
      BY <3>1
    <3> HIDE DEF u, f
    <3>5. Calls' = Calls
      BY <1>0, <3>2, <3>3, <3>4, CallsPush
    <3>6. i \notin Open /\ Open' = Open \ {i}
      BY <2>2, OpenFacts DEF Connects, Open
    <3> QED BY <3>5, <3>6
  <2>3. ASSUME NEW i \in Ids, Transfers(i, t) PROVE UNCHANGED <<Open, Calls>>
    <3>1. PICK f \in Frame : f.op \in {"send", "receive"} /\ stack' = Push(t, f)
      BY <2>3 DEF Transfers
    <3>2. Calls' = Calls
      BY <1>0, <2>1, <3>1, CallsPush, OpFacts
    <3> QED BY <2>3, <3>2, OpenFacts DEF Transfers
  <2> QED BY <1>3, <2>2, <2>3
<1>4. ASSUME stack # <<>>, Alike(Pop(stack), t)
      PROVE  /\ t \in Seq(Frame)
             /\ CallsOf(t) = IF Top(stack).op \in Callbacks
                             THEN Calls \ {<<Len(stack), Top(stack).op, Top(stack).conn>>} ELSE Calls
  <2>1. Pop(stack) \in Seq(Frame)
    BY <1>0, <1>4, PopFacts
  <2>2. t \in Seq(Frame) /\ CallsOf(t) = CallsOf(Pop(stack))
    BY <1>4, <2>1, CallsAlike DEF Alike
  <2> QED BY <1>0, <1>4, <2>2, CallsPop
<1>5. CASE stack # <<>> /\ Alike(Pop(stack), t) /\ Top(stack).op = "handle" /\ Handled(t)
  BY <1>4, <1>5, HandledPromise, OpFacts
<1>6. CASE stack # <<>> /\ Alike(Pop(stack), t) /\ Top(stack).op \in {"send", "receive"} /\ Quiet(t)
  BY <1>4, <1>6, HandledPromise, OpFacts DEF Handled
<1>7. CASE stack # <<>> /\ Alike(Pop(stack), t) /\ Top(stack).op \in Callbacks /\ Quiet(t)
  <2> DEFINE c == <<Len(stack), Top(stack).op, Top(stack).conn>>
  <2>1. Calls' = Calls \ {c} /\ Open' = Open
    BY <1>0, <1>4, <1>7, OpenFacts DEF Quiet
  <2>2. c \in Calls
    <3>1. Len(stack) \in DOMAIN stack
      BY <1>0, <1>7, PopFacts, LenProperties
    <3> QED BY <1>7, <3>1 DEF Calls, Top
  <2>3. \A e \in Calls : e[1] <= c[1]
    BY <1>0, CallsFacts
  <2> HIDE DEF c
  <2> QED BY <2>1, <2>2, <2>3 DEF Promise!Next, Promise!Return
<1>8. CASE /\ stack # <<>> /\ Alike(Pop(stack), t) /\ Top(stack).op \in {"close", "connect"}
           /\ Goes(Top(stack).conn, "NO_CONNECTION") /\ stack' = t
  <2>1. Calls' = Calls
    BY <1>0, <1>4, <1>8, OpFacts
  <2>2. Top(stack).conn \notin Open
    <3>1. Len(stack) \in DOMAIN stack
      BY <1>0, <1>8, PopFacts, LenProperties
    <3> QED BY <1>8, <3>1 DEF Held, CloseOwnsDyeing, ConnectOwnsNew, Top, Open
  <2>3. Open' = Open \ {Top(stack).conn}
    BY <1>0, <1>8, OpenFacts
  <2> QED BY <2>1, <2>2, <2>3
<1>9. CASE /\ stack # <<>> /\ Alike(Pop(stack), t) /\ Top(stack).op = "connect"
           /\ Goes(Top(stack).conn, "ESTABLISHED")
           /\ stack' = Push(t, Callback("onConnect", Top(stack).conn))
  <2> DEFINE i == Top(stack).conn
  <2>1. t \in Seq(Frame) /\ CallsOf(t) = Calls
    BY <1>4, <1>9, OpFacts
  <2>2. Promise!Begin("onConnect", i)
    BY <1>0, <1>9, <2>1, BeginFacts, OpFacts
  <2>3. i \notin Open
    <3>1. Len(stack) \in DOMAIN stack
      BY <1>0, <1>9, PopFacts, LenProperties
    <3> QED BY <1>9, <3>1 DEF Held, ConnectOwnsNew, Top, Open
  <2>4. Open' = Open \cup {i}
    BY <1>0, <1>9, OpenFacts
  <2>5. i \in Ids
    BY <1>0, <1>9
  <2> HIDE DEF i
  <2> QED BY <2>2, <2>3, <2>4, <2>5 DEF Promise!Next, Promise!OnConnect
<1> QED BY <1>1, <1>2, <1>3, <1>5, <1>6, <1>7, <1>8, <1>9 DEF Shape

(* OnConnect, OnIncomingData and OnDisconnect come in the order README.md  *)
(* promises (Tcp implements TcpCallbacks), whatever the packets, the waits *)
(* and the calls in callbacks, as long as no peer opens towards a port     *)
(* that TcpConnect is using; TcpSimultaneousOpen shows what happens then.  *)
THEOREM CallbacksKeepPromise == ASSUME ~SimultaneousOpen PROVE Spec => CallbacksPaired
<1>1. Init => Promise!Init
  <2>1. DOMAIN <<>> = {}
    OBVIOUS
  <2> QED BY <2>1 DEF Init, Promise!Init, Open, Calls, Free
<1>2. TypeOK /\ Transient(stack) /\ Holding /\ [Next]_vars => [Promise!Next]_<<Open, Calls>>
  BY PromiseStep
<1> QED BY <1>1, <1>2, TypeCorrect, TransientCorrect, HoldingCorrect, PTL
        DEF Spec, CallbacksPaired, Promise!Spec

-----------------------------------------------------------------------------
(***************************************************************************)
(* The depth of the C stack when the callbacks do not call the library.    *)
(* The application's call is at the bottom, a callback can only be on top, *)
(* the rest of TcpHandleIncomingPacket waits for an OnConnect right above  *)
(* it, and everything in between is a TcpClose, each of another slot.      *)
(***************************************************************************)
Nested(c, s) ==
  \A k \in DOMAIN s :
    /\ s[k].op \in {"connect", "send", "receive"} => k = 1
    /\ s[k].op \in Callbacks => k = Len(s)
    /\ s[k].op = "handle" =>
         /\ k = Len(s) \/ (k = Len(s) - 1 /\ s[Len(s)].op \in Callbacks)
         /\ c[s[k].conn].state = "ESTABLISHED"

(* Only operations that wait: a TcpClose, or the application's call. *)
AllWait(s) == \A k \in DOMAIN s : s[k].op = "close" \/ (k = 1 /\ s[k].op \in BlockingOps)

(* A stack of operations that wait nests as it should. *)
LEMMA AllWaitNested == ASSUME NEW c, NEW s, AllWait(s) PROVE Nested(c, s)
  BY OpFacts DEF AllWait, Nested

(* When an operation runs, all activations are operations that wait. *)
LEMMA NestedAllWait ==
  ASSUME NEW c, NEW s \in Seq(Frame), Nested(c, s), s = <<>> \/ Top(s).op \in BlockingOps
  PROVE  AllWait(s)
<1>1. DOMAIN s = 1..Len(s) /\ Len(s) \in Nat /\ (s = <<>> => DOMAIN s = {})
  BY LenProperties
<1>2. \A k \in DOMAIN s : s[k] \in Frame
  BY ElementOfSeq, <1>1
<1>3. \A f \in Frame : f.op \in BlockingOps \cup Callbacks \cup {"handle"}
  BY DEF Frame
<1>4. s # <<>> => s[Len(s)].op \notin Callbacks /\ s[Len(s)].op # "handle"
  BY OpFacts DEF Top
<1>5. \A k \in DOMAIN s : s # <<>> /\ s[k].op \notin Callbacks /\ s[k].op # "handle"
  BY <1>1, <1>4 DEF Nested
<1> QED BY <1>2, <1>3, <1>5, OpFacts DEF Nested, AllWait

(* The same holds of those below anything but a callback. *)
LEMMA AllWaitPop ==
  ASSUME NEW c, NEW s \in Seq(Frame), s # <<>>, Nested(c, s), Top(s).op \notin Callbacks
  PROVE  AllWait(Pop(s))
<1> DEFINE t == Pop(s)
           n == Len(s)
<1>1. /\ DOMAIN s = 1..n /\ DOMAIN t = 1..(n - 1) /\ n \in Nat \ {0}
      /\ \A k \in 1..(n - 1) : t[k] = s[k]
      /\ s[n].op \notin Callbacks
  BY LenProperties, PopFacts DEF Top
<1>2. \A k \in DOMAIN s : s[k] \in Frame
  BY ElementOfSeq, <1>1
<1>3. \A f \in Frame : f.op \in BlockingOps \cup Callbacks \cup {"handle"}
  BY DEF Frame
<1> HIDE DEF t
<1>4. \A k \in DOMAIN t : k \in DOMAIN s /\ k # n /\ t[k] = s[k]
  BY <1>1
<1>5. \A k \in DOMAIN t : t[k].op \notin Callbacks /\ t[k].op # "handle"
  BY <1>1, <1>4 DEF Nested
<1>6. AllWait(t)
  BY <1>2, <1>3, <1>4, <1>5, OpFacts DEF Nested, AllWait
<1> QED BY <1>6 DEF t

(* A callback returns. *)
LEMMA NestedPop ==
  ASSUME NEW c, NEW s \in Seq(Frame), s # <<>>, Nested(c, s), Top(s).op \in Callbacks
  PROVE  Nested(c, Pop(s))
<1> DEFINE t == Pop(s)
           n == Len(s)
<1>1. /\ DOMAIN s = 1..n /\ DOMAIN t = 1..(n - 1) /\ n \in Nat \ {0} /\ Len(t) = n - 1
      /\ \A k \in 1..(n - 1) : t[k] = s[k]
  BY LenProperties, PopFacts
<1> HIDE DEF t
<1>2. \A k \in DOMAIN t : k \in DOMAIN s /\ k # n /\ t[k] = s[k]
  BY <1>1
<1>3. Nested(c, t)
  BY <1>1, <1>2 DEF Nested
<1> QED BY <1>3 DEF t

(* Only operation and slot of the activations matter, ... *)
LEMMA NestedAlike ==
  ASSUME NEW c, NEW s \in Seq(Frame), NEW t \in Seq(Frame), Len(t) = Len(s),
         \A k \in 1..Len(s) : t[k].op = s[k].op /\ t[k].conn = s[k].conn
  PROVE  /\ Nested(c, s) => Nested(c, t)
         /\ AllWait(s) => AllWait(t)
<1>1. /\ DOMAIN s = 1..Len(s) /\ DOMAIN t = 1..Len(s) /\ Len(s) \in Nat
      /\ \A k \in DOMAIN s : Len(s) \in DOMAIN s
  BY LenProperties
<1> QED BY <1>1 DEF Nested, AllWait

(* ... and the states of the slots. *)
LEMMA NestedSameStates ==
  ASSUME NEW s \in Seq(Frame), Nested(connections, s), SameStates
  PROVE  Nested(connections', s)
  BY ConnFacts DEF Nested, SameStates

(* On top of operations that wait there may be a callback, ... *)
LEMMA NestedCallback ==
  ASSUME NEW c, NEW s \in Seq(Frame), AllWait(s), NEW f \in Frame, f.op \in Callbacks
  PROVE  Nested(c, Push(s, f))
<1> DEFINE t == Push(s, f)
           n == Len(s)
<1>1. /\ DOMAIN s = 1..n /\ DOMAIN t = 1..(n + 1) /\ n \in Nat /\ Len(t) = n + 1
      /\ \A k \in 1..n : t[k] = s[k]
      /\ t[n + 1] = f
  BY StackIndices
<1> HIDE DEF t, n
<1>2. \A k \in DOMAIN t : (k \in DOMAIN s /\ t[k] = s[k]) \/ (k = Len(t) /\ t[k] = f)
  BY <1>1
<1>3. Nested(c, t)
  BY <1>2, OpFacts DEF Nested, AllWait
<1> QED BY <1>3 DEF t

(* ... another operation, if it is a TcpClose or the first one, ... *)
LEMMA AllWaitPush ==
  ASSUME NEW s \in Seq(Frame), AllWait(s), NEW f \in Frame,
         f.op = "close" \/ (s = <<>> /\ f.op \in BlockingOps)
  PROVE  AllWait(Push(s, f))
<1> DEFINE t == Push(s, f)
           n == Len(s)
<1>1. /\ DOMAIN s = 1..n /\ DOMAIN t = 1..(n + 1) /\ n \in Nat /\ (s = <<>> => n = 0)
      /\ \A k \in 1..n : t[k] = s[k]
      /\ t[n + 1] = f
  BY StackIndices
<1> HIDE DEF t, n
<1>2. \A k \in DOMAIN t : (k \in DOMAIN s /\ t[k] = s[k]) \/ (k = n + 1 /\ t[k] = f)
  BY <1>1
<1>3. AllWait(t)
  BY <1>1, <1>2 DEF AllWait
<1> QED BY <1>3 DEF t

(* ... or the rest of TcpHandleIncomingPacket below an OnConnect. *)
LEMMA NestedHandle ==
  ASSUME NEW c, NEW s \in Seq(Frame), AllWait(s), NEW h \in Frame, NEW f \in Frame,
         h.op = "handle", c[h.conn].state = "ESTABLISHED", f.op \in Callbacks
  PROVE  Nested(c, Push(Push(s, h), f))
<1> DEFINE t == Push(Push(s, h), f)
           n == Len(s)
<1>1. /\ DOMAIN s = 1..n /\ DOMAIN t = 1..(n + 2) /\ n \in Nat /\ Len(t) = n + 2
      /\ \A k \in 1..n : t[k] = s[k]
      /\ t[n + 1] = h /\ t[n + 2] = f
  BY StackIndices
<1> HIDE DEF t, n
<1>2. \A k \in DOMAIN t : \/ k \in DOMAIN s /\ t[k] = s[k]
                          \/ k = Len(t) - 1 /\ t[k] = h
                          \/ k = Len(t) /\ t[k] = f
  BY <1>1
<1>3. t[Len(t)] = f
  BY <1>1
<1>4. Nested(c, t)
  BY <1>2, <1>3, OpFacts DEF Nested, AllWait
<1> QED BY <1>4 DEF t

(* A packet that an operation handles nests as it should. *)
LEMMA NestedHandled ==
  ASSUME NEW t \in Seq(Frame), AllWait(t), Handled(t)
  PROVE  Nested(connections', stack')
<1>1. CASE Quiet(t)
  BY <1>1, AllWaitNested DEF Quiet
<1>2. ASSUME NEW i \in Ids, Disconnects(i, t) PROVE Nested(connections', stack')
  <2>1. PICK timeout \in 0..ShortMax :
          stack' = Push(Push(t, Closing(i, timeout)), Callback("onDisconnect", i))
    BY <1>2 DEF Disconnects
  <2> DEFINE f == Closing(i, timeout)
             u == Push(t, f)
  <2>2. f \in Frame /\ f.op = "close"
    BY PushedFacts
  <2>3. stack' = Push(u, Callback("onDisconnect", i))
    BY <2>1
  <2> HIDE DEF f
  <2>4. u \in Seq(Frame) /\ AllWait(u)
    BY <2>2, AllWaitPush, PushFacts
  <2> HIDE DEF u
  <2> QED BY <2>3, <2>4, NestedCallback, PushedFacts, OpFacts
<1>3. ASSUME NEW i \in Ids, Receives(i, t) PROVE Nested(connections', stack')
  BY <1>3, NestedCallback, PushedFacts, OpFacts DEF Receives
<1>4. ASSUME NEW i \in Ids, Confirms(i, t) PROVE Nested(connections', stack')
  <2> DEFINE h == Activation("handle", i, "rest", 0, 0)
             f == Callback("onConnect", i)
  <2>1. h \in Frame /\ h.op = "handle" /\ h.conn = i /\ f \in Frame /\ f.op \in Callbacks
    BY PushedFacts, OpFacts
  <2>2. stack' = Push(Push(t, h), f) /\ connections'[i].state = "ESTABLISHED"
    BY <1>4 DEF Confirms, Goes
  <2> HIDE DEF h, f
  <2> QED BY <2>1, <2>2, NestedHandle
<1>5. ASSUME NEW i \in Ids, Takes(i, t) PROVE Nested(connections', stack')
  <2>1. AllWait(Disown(t, i))
    <3>1. /\ Disown(t, i) \in Seq(Frame) /\ Len(Disown(t, i)) = Len(t)
          /\ \A k \in 1..Len(t) : Disown(t, i)[k].op = t[k].op /\ Disown(t, i)[k].conn = t[k].conn
      BY DisownFacts
    <3> QED BY <3>1, NestedAlike
  <2> QED BY <1>5, <2>1, AllWaitNested DEF Takes
<1> QED BY <1>1, <1>2, <1>3, <1>4, <1>5 DEF Handled

Nesting == Nested(connections, stack)

(* So does every action. *)
LEMMA NestingStep ==
  ASSUME CallbackOps = {}
  PROVE  TypeOK /\ Transient(stack) /\ Nesting /\ [Next]_vars => Nesting'
<1> SUFFICES ASSUME TypeOK, Transient(stack), Nested(connections, stack), [Next]_vars
             PROVE  Nested(connections', stack')
  BY DEF Nesting
<1>0. stack \in Seq(Frame) /\ (stack # <<>> => Top(stack).conn \in Ids) /\ ~Reentrant
  BY PopFacts DEF TypeOK, Frame, Reentrant
<1>1. PICK t : Shape(t)
  BY StepShape
<1>2. CASE Alike(stack, t) /\ Quiet(t)
  <2>1. t \in Seq(Frame) /\ Nested(connections, t)
    BY <1>0, <1>2, NestedAlike DEF Alike
  <2> QED BY <1>2, <2>1, NestedSameStates DEF Quiet
<1>3. CASE Alike(stack, t) /\ Handles(stack) /\ Handled(t)
  <2>1. AllWait(stack)
    BY <1>0, <1>3, NestedAllWait DEF Handles
  <2>2. t \in Seq(Frame) /\ AllWait(t)
    BY <1>0, <1>3, <2>1, NestedAlike DEF Alike
  <2> QED BY <1>3, <2>2, NestedHandled
<1>4. CASE Alike(stack, t) /\ stack = <<>> /\ \E i \in Ids : Connects(i, t) \/ Transfers(i, t)
  <2>1. t \in Seq(Frame) /\ Len(t) = 0 /\ t = <<>>
    BY <1>4, EmptySeq DEF Alike
  <2>2. AllWait(t)
    BY <2>1 DEF AllWait
  <2>3. ASSUME NEW i \in Ids, Connects(i, t) PROVE Nested(connections', stack')
    <3> DEFINE u == Disown(t, i)
    <3>1. u \in Seq(Frame) /\ Len(u) = 0
      BY <2>1, DisownFacts
    <3>2. u = <<>> /\ AllWait(u)
      <4>1. u = <<>>
        BY <3>1, EmptySeq
      <4> QED BY <4>1 DEF AllWait
    <3>3. PICK timeout \in 0..ShortMax, pc \in {"first", "arp"} :
            stack' = Push(u, Activation("connect", i, pc, timeout, 0))
      BY <2>3 DEF Connects
    <3> HIDE DEF u
    <3> DEFINE f == Activation("connect", i, pc, timeout, 0)
    <3>4. f \in Frame /\ f.op \in BlockingOps
      BY PushedFacts, OpFacts
    <3> HIDE DEF f
    <3>5. AllWait(Push(u, f))
      BY <3>1, <3>2, <3>4, AllWaitPush
    <3> QED BY <3>3, <3>5, AllWaitNested DEF f
  <2>4. ASSUME NEW i \in Ids, Transfers(i, t) PROVE Nested(connections', stack')
    BY <2>1, <2>2, <2>4, AllWaitPush, AllWaitNested, OpFacts DEF Transfers
  <2> QED BY <1>4, <2>3, <2>4
<1>5. ASSUME stack # <<>>, Alike(Pop(stack), t), Top(stack).op \notin Callbacks
      PROVE  t \in Seq(Frame) /\ AllWait(t)
  <2>1. Pop(stack) \in Seq(Frame) /\ AllWait(Pop(stack))
    BY <1>0, <1>5, PopFacts, AllWaitPop
  <2> QED BY <1>5, <2>1, NestedAlike DEF Alike
<1>6. CASE stack # <<>> /\ Alike(Pop(stack), t) /\ Top(stack).op \in {"handle", "send", "receive"} /\ Handled(t)
  BY <1>5, <1>6, NestedHandled, OpFacts
<1>7. CASE stack # <<>> /\ Alike(Pop(stack), t) /\ Top(stack).op \in Callbacks /\ Quiet(t)
  <2>1. Pop(stack) \in Seq(Frame) /\ Nested(connections, Pop(stack))
    BY <1>0, <1>7, PopFacts, NestedPop
  <2>2. t \in Seq(Frame) /\ Nested(connections, t)
    BY <1>7, <2>1, NestedAlike DEF Alike
  <2> QED BY <1>7, <2>2, NestedSameStates DEF Quiet
<1>8. CASE stack # <<>> /\ Alike(Pop(stack), t) /\ Top(stack).op \in {"close", "connect"} /\ stack' = t
  BY <1>5, <1>8, AllWaitNested, OpFacts
<1>9. CASE /\ stack # <<>> /\ Alike(Pop(stack), t) /\ Top(stack).op = "connect"
           /\ stack' = Push(t, Callback("onConnect", Top(stack).conn))
  BY <1>0, <1>5, <1>9, NestedCallback, PushedFacts, OpFacts
<1> QED BY <1>0, <1>1, <1>2, <1>3, <1>4, <1>6, <1>7, <1>8, <1>9 DEF Shape, Handled

(* There are as many activations as slots between the application's call   *)
(* and what is on top: every TcpClose works on a slot of its own.          *)
LEMMA NestingBounds == TypeOK /\ Ownership /\ Nesting => BoundedNesting
<1> SUFFICES ASSUME TypeOK, Ownership, Nesting PROVE Len(stack) <= TCP_MAX_CONNECTIONS + 2
  BY DEF BoundedNesting
<1> DEFINE n == Len(stack)
           N == TCP_MAX_CONNECTIONS
<1>0. /\ stack \in Seq(Frame) /\ n \in Nat /\ DOMAIN stack = 1..n /\ N \in Nat \ {0}
      /\ \A k \in DOMAIN stack : stack[k] \in Frame /\ stack[k].conn \in Ids
  BY LenProperties, ElementOfSeq, ConnFacts, SizesAssumption DEF TypeOK
<1>1. IsFiniteSet(Ids) /\ Cardinality(Ids) = N
  <2>1. 0 \in Int /\ N - 1 \in Int
    BY <1>0
  <2>2. IsFiniteSet(0..(N - 1)) /\ Cardinality(0..(N - 1)) = IF 0 > N - 1 THEN 0 ELSE (N - 1) - 0 + 1
    BY <2>1, FS_Interval
  <2> QED BY <1>0, <2>2 DEF Ids
<1>2. ASSUME NEW m \in 1..n, NEW T \in SUBSET Ids, \A k \in 2..m : stack[k].op = "close" /\ stack[k].conn \in T
      PROVE  m - 1 <= Cardinality(T) /\ IsFiniteSet(T)
  <2> DEFINE f == [k \in 2..m |-> stack[k].conn]
  <2>1. \A j, k \in 2..m : stack[j].conn = stack[k].conn => j = k
    BY <1>0, <1>2 DEF Ownership, Owned, OneCloserPerSlot
  <2>2. f \in Injection(2..m, T)
    BY <1>2, <2>1 DEF Injection, IsInjective
  <2>3. IsFiniteSet(T)
    BY <1>1, FS_Subset
  <2>4. Cardinality(2..m) <= Cardinality(T)
    <3> HIDE DEF f
    <3> QED BY <2>2, <2>3, FS_Injection
  <2>5. Cardinality(2..m) = m - 1
    <3>1. 2 \in Int /\ m \in Int /\ m >= 1
      BY <1>0
    <3>2. Cardinality(2..m) = IF 2 > m THEN 0 ELSE m - 2 + 1
      BY <3>1, FS_Interval
    <3> QED BY <3>1, <3>2
  <2> QED BY <2>3, <2>4, <2>5
<1> HIDE DEF n
<1>I. \A k \in 2..(n - 1) : k \in DOMAIN stack /\ k # 1 /\ k # n
  BY <1>0
<1>3. ASSUME NEW k \in 2..(n - 1), stack[k].op # "close"
      PROVE  stack[k].op = "handle" /\ k = n - 1 /\ connections[stack[k].conn].state = "ESTABLISHED"
  <2>1. k \in DOMAIN stack /\ k # 1 /\ k # n
    BY <1>I
  <2>2. /\ stack[k].op \notin {"connect", "send", "receive"}
        /\ stack[k].op \notin Callbacks
        /\ stack[k].op = "handle" => k = n - 1 /\ connections[stack[k].conn].state = "ESTABLISHED"
    BY <2>1 DEF Nesting, Nested, n
  <2>3. \A f \in Frame : f.op \in BlockingOps \cup Callbacks \cup {"handle"}
    BY DEF Frame
  <2>4. stack[k].op \in BlockingOps \cup Callbacks \cup {"handle"}
    BY <1>0, <2>1, <2>3
  <2> QED BY <1>3, <2>2, <2>4, OpFacts
<1>5. CASE n <= 2
  BY <1>0, <1>5
<1>6. CASE n > 2 /\ stack[n - 1].op # "handle"
  <2>1. n - 1 \in 1..n /\ \A k \in 2..(n - 1) : stack[k].op = "close" /\ stack[k].conn \in Ids
    BY <1>0, <1>I, <1>3, <1>6
  <2>2. (n - 1) - 1 <= Cardinality(Ids)
    BY <1>2, <2>1
  <2> QED BY <1>0, <1>1, <2>2
<1>7. CASE n > 2 /\ stack[n - 1].op = "handle"
  <2> DEFINE h == stack[n - 1].conn
  <2>1. h \in Ids /\ connections[h].state = "ESTABLISHED"
    <3>1. n - 1 \in 2..(n - 1)
      BY <1>0, <1>7
    <3> QED BY <1>0, <1>I, <1>3, <1>7, <3>1
  <2>2. \A k \in 2..(n - 2) : stack[k].op = "close" /\ stack[k].conn \in Ids \ {h}
    <3>1. \A k \in 2..(n - 2) : stack[k].op = "close" /\ stack[k].conn \in Ids
      <4>1. \A k \in 2..(n - 2) : k \in 2..(n - 1) /\ k # n - 1
        BY <1>0
      <4> QED BY <1>0, <1>I, <1>3, <4>1
    <3>2. \A k \in 2..(n - 2) : connections[stack[k].conn].state = "DYEING"
      <4>1. \A k \in 2..(n - 2) : k \in 2..(n - 1)
        BY <1>0
      <4> QED BY <1>I, <3>1, <4>1 DEF Ownership, Owned, CloseOwnsDyeing
    <3> QED BY <2>1, <3>1, <3>2
  <2> HIDE DEF h
  <2>3. Cardinality(Ids \ {h}) = N - 1
    BY <1>1, <2>1, FS_RemoveElement
  <2>4. (n - 2) - 1 <= Cardinality(Ids \ {h})
    <3>1. n - 2 \in 1..n
      BY <1>0, <1>7
    <3>2. Ids \ {h} \in SUBSET Ids
      OBVIOUS
    <3> QED BY <1>2, <2>2, <3>1, <3>2
  <2> QED BY <1>0, <2>3, <2>4
<1> QED BY <1>0, <1>5, <1>6, <1>7 DEF n

(* With callbacks that do not call the library back the C stack holds at   *)
(* most one activation for each slot, the application's call and the       *)
(* callback on top: recursion through TcpClose is bounded.                 *)
THEOREM NestingBounded == ASSUME CallbackOps = {} PROVE Spec => []BoundedNesting
<1>1. Init => Nesting
  <2>1. DOMAIN <<>> = {}
    OBVIOUS
  <2> QED BY <2>1 DEF Init, Nesting, Nested
<1>2. TypeOK /\ Transient(stack) /\ Nesting /\ [Next]_vars => Nesting'
  BY NestingStep
<1>3. TypeOK /\ Ownership /\ Nesting => BoundedNesting
  BY NestingBounds
<1> QED BY <1>1, <1>2, <1>3, TypeCorrect, TransientCorrect, OwnershipCorrect, PTL DEF Spec
=============================================================================
