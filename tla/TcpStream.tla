----------------------------- MODULE TcpStream -----------------------------
(***************************************************************************)
(* The numbers of one established connection of src/tcp.c, against a       *)
(* correct peer and a network that loses, repeats, delays and reorders.    *)
(*                                                                         *)
(* Both directions are streams of bytes counted from 0.  What the          *)
(* application writes is a sequence of the numbers of its TcpSendData      *)
(* calls, one for each byte; the bytes of the peer are 0, 1, 2, ...        *)
(*                                                                         *)
(* Calls wait within each other (see Tcp): `calls' is the stack of those   *)
(* in progress, the running one last.  While it waits a packet for another *)
(* connection may reach a callback, which may call TcpSendData for this    *)
(* one.  Sequence numbers do not wrap here: a connection carries fewer     *)
(* than 2^32 bytes.                                                        *)
(***************************************************************************)
EXTENDS Naturals, SequencesExt

CONSTANTS
  MaxSegmetSize, \* bytes a segment to the peer carries at most
  PeerBytes,     \* bytes the peer sends before it closes
  FinWithData,   \* may the peer's FIN come with its last bytes?
  MaxWrites,     \* calls of TcpSendData
  MaxLength,     \* bytes of such a call
  MaxDepth,      \* calls within each other
  MaxForeign,    \* bytes of data another packet leaves in the buffer
  MaxReceived    \* bytes that TcpReceiveData returns until it is called no more

ASSUME SizeAssumption ==
  /\ MaxSegmetSize \in Nat \ {0}
  /\ PeerBytes \in Nat
  /\ MaxWrites \in Nat
  /\ MaxLength \in Nat \ {0}
  /\ MaxDepth \in Nat
  /\ MaxForeign \in Nat /\ MaxReceived \in Nat
ASSUME FinAssumption == FinWithData \in BOOLEAN

VARIABLES
  state,            \* of the slot: "ESTABLISHED", "DYEING" or "NO_CONNECTION"
  sendSequence,     \* next number to send
  expectedSequence, \* next number expected from the peer
  calls,            \* blocking calls in progress
  written,          \* one element for each number used: the write it belongs to
  writes,           \* calls of TcpSendData so far
  succeeded,        \* those that returned 1
  buffer,           \* data that TcpGetDataLength finds in the buffer of all packets
  delivered,        \* bytes handed to the application by the callback
  received,         \* bytes that calls of TcpReceiveData returned
  sent,             \* segments sent to the peer, each of which may still arrive
  peerGot,          \* what the peer has received in order
  acks              \* numbers the peer has acknowledged, each of which may still arrive

library == <<state, sendSequence, expectedSequence, calls, written, writes,
             succeeded, buffer, delivered, received, sent>>
vars == <<library, peerGot, acks>>

Fin == 0  \* stands for the number of the library's FIN in written and peerGot

Frame == [op : {"send", "receive", "close"}, pc : {"first", "again", "wait", "hit"},
          write : 0..MaxWrites, left : Nat, ack : Nat, woken : Nat, called : BOOLEAN]

Call(op, write, left) ==
  [op |-> op, pc |-> "first", write |-> write, left |-> left, ack |-> 0,
   woken |-> 0, called |-> FALSE]

Top == calls[Len(calls)]
Returned == SubSeq(calls, 1, Len(calls) - 1)
WithTop(f) == [calls EXCEPT ![Len(calls)] = f]
Running(ops, pcs) == calls # <<>> /\ Top.op \in ops /\ Top.pc \in pcs

(* A step leaves data in the buffer.  That matters only to a call of       *)
(* TcpReceiveData whose wait is over and which has yet to read it.  Data   *)
(* of no part of the peer's stream is written as the number PeerBytes.     *)
Left(data) ==
  buffer' = IF \E k \in DOMAIN calls' : calls'[k].op = "receive" /\ calls'[k].pc = "hit"
            THEN data ELSE <<>>
Foreign(n) == [k \in 1..n |-> PeerBytes]

Init ==
  /\ state = "ESTABLISHED"
  /\ sendSequence = 0 /\ expectedSequence = 0
  /\ calls = <<>>
  /\ written = <<>> /\ writes = 0 /\ succeeded = {}
  /\ buffer = <<>> /\ delivered = <<>> /\ received = <<>>
  /\ sent = {}
  /\ peerGot = <<>> /\ acks = {0}

-----------------------------------------------------------------------------
(* The peer and the network. *)

(* Any segment sent so far may arrive; what is in order is kept. *)
PeerReceives(s) ==
  /\ s.seq <= Len(peerGot) /\ Len(peerGot) < s.seq + s.len
  /\ peerGot' = peerGot \o [k \in 1..(s.seq + s.len - Len(peerGot)) |-> s.data]
  /\ UNCHANGED <<library, acks>>

PeerAcks ==
  /\ acks' = acks \cup {Len(peerGot)}
  /\ UNCHANGED <<library, peerGot>>

(* Segments that may arrive from the peer: any part of its stream, cut     *)
(* anywhere, its FIN, and nothing more after that, with any acknowledgment *)
(* it has ever given.                                                      *)
FromPeer ==
  {p \in [seq : 0..(PeerBytes + 1), len : 0..PeerBytes, fin : BOOLEAN, ack : acks] :
     /\ p.seq + p.len <= IF p.len = 0 /\ ~p.fin THEN PeerBytes + 1 ELSE PeerBytes
     /\ p.fin => p.seq + p.len = PeerBytes /\ (FinWithData \/ p.len = 0)}

-----------------------------------------------------------------------------
(***************************************************************************)
(* TcpSendAck: is the segment the expected one, and what is expected next. *)
(***************************************************************************)
AcceptOld(seq) == seq <= expectedSequence  \* mutant of InOrder
InOrder(seq) == seq = expectedSequence

Bytes(p) == [k \in 1..p.len |-> p.seq + k - 1]

(* TcpHandleIncomingPacket for this connection (lines 603-626); stk is the *)
(* stack its caller leaves.  The acknowledgment it sends overwrites the    *)
(* packet, and has no data.                                                *)
Handle(p, stk) ==
  \/ /\ p.fin /\ InOrder(p.seq)
     /\ expectedSequence' = expectedSequence + 1
     /\ IF state = "ESTABLISHED"
        THEN state' = "DYEING" /\ calls' = Append(stk, Call("close", 0, 1))
        ELSE UNCHANGED state /\ calls' = stk
     /\ Left(<<>>)
     /\ UNCHANGED delivered
  \/ /\ ~p.fin /\ p.len # 0 /\ InOrder(p.seq) /\ state = "ESTABLISHED"
     /\ expectedSequence' = expectedSequence + p.len
     /\ delivered' = delivered \o Bytes(p)
     /\ calls' = stk
     /\ Left(<<>>)
     /\ UNCHANGED state
  \/ /\ ~InOrder(p.seq) /\ (p.fin \/ (p.len # 0 /\ state = "ESTABLISHED"))
     /\ calls' = stk
     /\ Left(<<>>)
     /\ UNCHANGED <<state, expectedSequence, delivered>>
  \/ /\ ~p.fin /\ (p.len = 0 \/ state = "DYEING")
     /\ calls' = stk
     /\ Left(Bytes(p))
     /\ UNCHANGED <<state, expectedSequence, delivered>>

Segment(seq, len, write) == [seq |-> seq, len |-> len, data |-> write]

AckedBefore(p) == InOrder(p.seq) /\ p.ack <= Top.ack  \* mutant of Hit
Hit(p) == InOrder(p.seq) /\ p.ack = Top.ack

(* TcpWaitPacket, for the call that runs.  A segment with data or FIN is   *)
(* handled like any other before it is a hit, callbacks and the TcpClose   *)
(* of a FIN included.                                                      *)
TcpWaitPacket(p) ==
  /\ calls # <<>> /\ Top.pc = "wait" /\ state # "NO_CONNECTION"
  /\ LET handled == (p.len # 0 \/ p.fin) /\ sendSequence = Top.ack
         hit == WithTop([Top EXCEPT !.pc = "hit", !.woken = p.len,
                                    !.called = handled /\ ~p.fin /\ state = "ESTABLISHED"])
     IN \/ Hit(p) /\ handled /\ Handle(p, hit)
        \/ /\ Hit(p) /\ ~handled
           /\ calls' = hit
           /\ Left(Bytes(p))
           /\ UNCHANGED <<state, expectedSequence, delivered>>
        \/ ~Hit(p) /\ Handle(p, WithTop([Top EXCEPT !.pc = "again"]))
  /\ UNCHANGED <<sendSequence, written, writes, succeeded, received, sent, peerGot, acks>>

(* Nothing for this connection arrives within the wait: nothing at all, or *)
(* a packet of another kind, which leaves in the buffer what it may.       *)
TcpWaitNothing ==
  /\ calls # <<>> /\ Top.pc = "wait"
  /\ calls' = WithTop([Top EXCEPT !.pc = "again"])
  /\ UNCHANGED buffer \/ \E n \in 0..MaxForeign : Left(Foreign(n))
  /\ UNCHANGED <<state, sendSequence, expectedSequence, written, writes, succeeded,
                 delivered, received, sent, peerGot, acks>>

-----------------------------------------------------------------------------
(***************************************************************************)
(* The blocking calls, made in the main loop or in a callback.             *)
(***************************************************************************)
(* A callback runs when a wait is over: for a packet of another connection *)
(* ("again"), for data of this one ("hit") or, before a FIN is sent, for   *)
(* the disconnection.                                                      *)
MayCall ==
  /\ Len(calls) < MaxDepth
  /\ \/ calls = <<>>
     \/ Running({"send", "receive", "close"}, {"again"})
     \/ Running({"send", "receive"}, {"hit"}) /\ Top.called
     \/ Running({"close"}, {"first"})

(* A call for another connection, or of another protocol. *)
OtherCall ==
  /\ MayCall
  /\ UNCHANGED calls /\ \E n \in 0..MaxForeign : Left(Foreign(n))
  /\ UNCHANGED <<state, sendSequence, expectedSequence, written, writes, succeeded,
                 delivered, received, sent, peerGot, acks>>

(* Packets of the main loop, and of the waits of other calls in a callback. *)
NetHandleNetwork(p) ==
  /\ calls = <<>> \/ MayCall
  /\ state # "NO_CONNECTION"
  /\ Handle(p, calls)
  /\ UNCHANGED <<sendSequence, written, writes, succeeded, received, sent, peerGot, acks>>

TcpSendData(n) ==
  /\ MayCall /\ writes < MaxWrites
  /\ writes' = writes + 1
  /\ calls' = Append(calls, Call("send", writes + 1, n))
  /\ UNCHANGED <<state, sendSequence, expectedSequence, written, succeeded,
                 buffer, delivered, received, sent, peerGot, acks>>

Part(left) == IF left < MaxSegmetSize THEN left ELSE MaxSegmetSize

ReusedNumbers(seq, n) == seq  \* mutant of Advance
Advance(seq, n) == seq + n

(* The numbers of a part, or of a FIN, are taken before anything is sent. *)
Take(write, n) ==
  /\ sendSequence' = Advance(sendSequence, n)
  /\ written' = written \o [k \in 1..n |-> write]

(* The head of the loop for a new part (lines 480-497). *)
TcpSendDataPart ==
  /\ Running({"send"}, {"first"})
  /\ LET n == Part(Top.left) IN
     /\ Take(Top.write, n)
     /\ \/ /\ state = "ESTABLISHED"
           /\ sent' = sent \cup {Segment(sendSequence, n, Top.write)}
           /\ calls' = WithTop([Top EXCEPT !.pc = "wait", !.ack = sendSequence + n,
                                           !.left = @ - n])
           /\ Left(Foreign(n))
        \/ state # "ESTABLISHED" /\ calls' = Returned /\ UNCHANGED <<sent, buffer>>
  /\ UNCHANGED <<state, expectedSequence, writes, succeeded, delivered, received, peerGot, acks>>

(* The part is acknowledged: the next one, or return 1. *)
TcpSendDataHit ==
  /\ Running({"send"}, {"hit"})
  /\ \/ /\ Top.left # 0
        /\ calls' = WithTop([Top EXCEPT !.pc = "first"])
        /\ UNCHANGED succeeded
     \/ /\ Top.left = 0
        /\ calls' = Returned
        /\ succeeded' = succeeded \cup {Top.write}
  /\ UNCHANGED <<state, sendSequence, expectedSequence, written, writes,
                 buffer, delivered, received, sent, peerGot, acks>>

(* Once more: the copies of a segment are one segment here, and one is     *)
(* sent on every 200th turn.                                               *)
TcpSendDataAgain ==
  /\ Running({"send"}, {"again"})
  /\ calls' = IF state = "ESTABLISHED" THEN WithTop([Top EXCEPT !.pc = "wait"]) ELSE Returned
  /\ \/ UNCHANGED buffer
     \/ /\ state = "ESTABLISHED"
        /\ \E s \in sent : s.seq + s.len = Top.ack /\ Left(Foreign(s.len))
  /\ UNCHANGED <<state, sendSequence, expectedSequence, written, writes, succeeded,
                 delivered, received, sent, peerGot, acks>>

TcpReceiveData ==
  /\ MayCall /\ Len(received) < MaxReceived
  /\ calls' = Append(calls, Call("receive", 0, 0))
  /\ UNCHANGED <<state, sendSequence, expectedSequence, written, writes, succeeded,
                 buffer, delivered, received, sent, peerGot, acks>>

TcpReceiveDataTry ==
  /\ Running({"receive"}, {"first", "again"})
  /\ calls' = IF state = "ESTABLISHED"
              THEN WithTop([Top EXCEPT !.pc = "wait", !.ack = sendSequence]) ELSE Returned
  /\ UNCHANGED <<state, sendSequence, expectedSequence, written, writes, succeeded,
                 buffer, delivered, received, sent, peerGot, acks>>

(* Lines 528-533: what the buffer holds by now is acknowledged, as if it   *)
(* were the next of the stream, and returned.                              *)
TcpReceiveDataHit ==
  /\ Running({"receive"}, {"hit"})
  /\ expectedSequence' = expectedSequence + Len(buffer)
  /\ received' = received \o buffer
  /\ calls' = Returned
  /\ Left(<<>>)
  /\ UNCHANGED <<state, sendSequence, written, writes, succeeded, delivered, sent,
                 peerGot, acks>>

(* A timeout: return 0. *)
TransferExpired ==
  /\ Running({"send", "receive"}, {"again"})
  /\ calls' = Returned
  /\ UNCHANGED <<state, sendSequence, expectedSequence, written, writes, succeeded,
                 buffer, delivered, received, sent, peerGot, acks>>

TcpDisconnect ==
  /\ MayCall /\ state = "ESTABLISHED"
  /\ state' = "DYEING"
  /\ calls' = Append(calls, Call("close", 0, 1))
  /\ UNCHANGED <<sendSequence, expectedSequence, written, writes, succeeded,
                 buffer, delivered, received, sent, peerGot, acks>>

(* TcpClose: send FIN ... *)
TcpClose ==
  /\ Running({"close"}, {"first"})
  /\ Take(Fin, 1)
  /\ sent' = sent \cup {Segment(sendSequence, 1, Fin)}
  /\ calls' = WithTop([Top EXCEPT !.pc = "wait", !.ack = sendSequence + 1])
  /\ Left(<<>>)
  /\ UNCHANGED <<state, expectedSequence, writes, succeeded, delivered, received, peerGot, acks>>

TcpCloseAgain ==
  /\ Running({"close"}, {"again"})
  /\ calls' = WithTop([Top EXCEPT !.pc = "wait"])
  /\ UNCHANGED buffer \/ Left(<<>>)
  /\ UNCHANGED <<state, sendSequence, expectedSequence, written, writes, succeeded,
                 delivered, received, sent, peerGot, acks>>

(* ... and free the slot on its acknowledgment or out of patience. *)
TcpCloseEnd ==
  /\ Running({"close"}, {"hit", "again"})
  /\ state' = "NO_CONNECTION"
  /\ calls' = Returned
  /\ UNCHANGED <<sendSequence, expectedSequence, written, writes, succeeded,
                 buffer, delivered, received, sent, peerGot, acks>>

-----------------------------------------------------------------------------
Arrivals ==
  \/ \E s \in sent : PeerReceives(s)
  \/ PeerAcks
  \/ \E p \in FromPeer : NetHandleNetwork(p) \/ TcpWaitPacket(p)

Calls ==
  \/ \E n \in 1..MaxLength : TcpSendData(n)
  \/ OtherCall
  \/ TcpWaitNothing \/ TcpSendDataPart \/ TcpSendDataHit \/ TcpSendDataAgain
  \/ TcpReceiveData \/ TcpReceiveDataTry \/ TcpReceiveDataHit
  \/ TransferExpired \/ TcpDisconnect \/ TcpClose \/ TcpCloseAgain \/ TcpCloseEnd

Next == Arrivals \/ Calls

Spec == Init /\ [][Next]_vars

-----------------------------------------------------------------------------
(***************************************************************************)
(* Properties                                                              *)
(***************************************************************************)
TypeOK ==
  /\ state \in {"ESTABLISHED", "DYEING", "NO_CONNECTION"}
  /\ sendSequence \in Nat /\ expectedSequence \in Nat
  /\ calls \in Seq(Frame)
  /\ written \in Seq(0..MaxWrites) /\ writes \in 0..MaxWrites
  /\ succeeded \subseteq 0..MaxWrites
  /\ buffer \in Seq(Nat) /\ delivered \in Seq(Nat) /\ received \in Seq(Nat)
  /\ sent \subseteq [seq : Nat, len : Nat, data : 0..MaxWrites]
  /\ peerGot \in Seq(0..MaxWrites)
  /\ acks \subseteq Nat

(* Every byte the peer is told has arrived was handed to the callback,     *)
(* once and in order, whatever calls it and others make meanwhile          *)
(* ("function called always if AVR receive any data from any connection",  *)
(* README.md:164).  The FIN takes the last number.  This is so until a     *)
(* TcpReceiveData returns data: the callback has had what woke it, and     *)
(* what it finds in the buffer instead was left by a packet since.         *)
AckedIsDelivered ==
  received = <<>> =>
    /\ \A k \in DOMAIN delivered : delivered[k] = k - 1
    /\ expectedSequence \in {Len(delivered), Len(delivered) + 1}
    /\ expectedSequence > Len(delivered) =>
         state # "ESTABLISHED" /\ Len(delivered) = PeerBytes

(* What the peer receives is what the application wrote, whatever was lost *)
(* or repeated, and however the writes nest.                               *)
PeerGetsWhatWasWritten ==
  /\ Len(peerGot) <= Len(written)
  /\ \A k \in DOMAIN peerGot : peerGot[k] = written[k]

(* TcpSendData returns 1 only when the peer has every byte of the call.    *)
SuccessMeansReceived ==
  \A k \in DOMAIN written : written[k] \in succeeded => k <= Len(peerGot)

(* TcpReceiveData that is woken by data returns that much: "after receive  *)
(* data are accessible by double pointer **data parameter" (README.md:248) *)
ReceiveReturnsData ==
  [][TcpReceiveDataHit => Len(received') = Len(received) + Top.woken]_vars

(* What it returns is the peer's, and not what another packet left. *)
ReceiveReturnsTheStream == \A k \in DOMAIN received : received[k] < PeerBytes
=============================================================================
