-------------------------- MODULE TcpStreamProofs --------------------------
(***************************************************************************)
(* Proofs about TcpStream, for any sizes of segments and writes and any    *)
(* number of calls within each other, and about TcpOpening: a connection   *)
(* that is opened is one of TcpStream, and its two sides agree on where    *)
(* they begin.                                                             *)
(***************************************************************************)
EXTENDS TcpOpening, SequenceTheorems, TLAPS

-----------------------------------------------------------------------------
(***************************************************************************)
(* The stack of calls.                                                     *)
(***************************************************************************)

(* What a call that is put on the stack leaves as it was. *)
LEMMA PushCall ==
  ASSUME NEW s \in Seq(Frame), NEW f \in Frame
  PROVE  /\ Append(s, f) \in Seq(Frame)
         /\ Len(Append(s, f)) = Len(s) + 1
         /\ Append(s, f)[Len(s) + 1] = f
         /\ \A k \in 1..Len(s) : Append(s, f)[k] = s[k]
  BY AppendProperties

LEMMA TopCall ==
  ASSUME NEW s \in Seq(Frame), s # <<>>
  PROVE  /\ Len(s) \in Nat /\ Len(s) >= 1 /\ DOMAIN s = 1..Len(s)
         /\ \A k \in 1..Len(s) : s[k] \in Frame
<1>1. Len(s) \in Nat /\ Len(s) >= 1 /\ DOMAIN s = 1..Len(s)
  BY EmptySeq, LenProperties
<1> QED
  BY <1>1, ElementOfSeq

LEMMA PopCall ==
  ASSUME NEW s \in Seq(Frame), s # <<>>
  PROVE  /\ SubSeq(s, 1, Len(s) - 1) \in Seq(Frame)
         /\ Len(SubSeq(s, 1, Len(s) - 1)) = Len(s) - 1
         /\ \A k \in 1..(Len(s) - 1) : SubSeq(s, 1, Len(s) - 1)[k] = s[k]
<1> DEFINE n == Len(s)
           t == SubSeq(s, 1, n - 1)
<1>1. n \in Nat /\ n >= 1 /\ \A k \in 1..n : s[k] \in Frame
  BY TopCall
<1>2. 1 \in Int /\ n - 1 \in Int /\ \A k \in 1..(n - 1) : s[k] \in Frame
  BY <1>1
<1>3. /\ t \in Seq(Frame)
      /\ Len(t) = IF 1 <= n - 1 THEN n - 1 - 1 + 1 ELSE 0
      /\ \A k \in 1..(n - 1 - 1 + 1) : t[k] = s[1 + k - 1]
  BY <1>2, SubSeqProperties
<1> HIDE DEF t, n
<1>4. Len(t) = n - 1
  BY <1>1, <1>3
<1>5. ASSUME NEW k \in 1..(n - 1) PROVE t[k] = s[k]
  <2>1. k \in 1..(n - 1 - 1 + 1) /\ 1 + k - 1 = k
    BY <1>1
  <2> QED
    BY <1>3, <2>1
<1> QED
  BY <1>3, <1>4, <1>5 DEF t, n

LEMMA ChangeCall ==
  ASSUME NEW s \in Seq(Frame), s # <<>>, NEW f \in Frame,
         NEW t, t = [s EXCEPT ![Len(s)] = f]
  PROVE  /\ t \in Seq(Frame)
         /\ t # <<>>
         /\ Len(t) = Len(s)
         /\ t[Len(s)] = f
         /\ \A k \in 1..(Len(s) - 1) : t[k] = s[k]
<1> DEFINE n == Len(s)
<1>1. n \in Nat /\ n >= 1 /\ DOMAIN s = 1..n /\ \A k \in 1..n : s[k] \in Frame
  BY TopCall
<1>2. t \in Seq(Frame) /\ Len(t) = n
  BY <1>1, ExceptSeq
<1>3. t # <<>>
  BY <1>1, <1>2, EmptySeq
<1>4. t[n] = f /\ \A k \in 1..(n - 1) : t[k] = s[k]
  <2>1. s \in [1..n -> Frame]
    BY LenProperties
  <2>2. ASSUME NEW m \in Nat, m >= 1, s \in [1..m -> Frame], t = [s EXCEPT ![m] = f]
        PROVE  t[m] = f /\ \A k \in 1..(m - 1) : t[k] = s[k]
    <3>1. m \in 1..m /\ \A k \in 1..(m - 1) : k \in 1..m /\ k # m
      BY <2>2
    <3> QED
      BY <2>2, <3>1, Zenon
  <2> QED
    BY <1>1, <2>1, <2>2
<1> QED
  BY <1>2, <1>3, <1>4

(* Every call has the form of a call. *)
LEMMA CallType ==
  /\ \A n \in Nat : \A w \in 0..MaxWrites : Call("send", w, n) \in Frame
  /\ Call("receive", 0, 0) \in Frame
  /\ Call("close", 0, 1) \in Frame
  BY SizeAssumption DEF Call, Frame

(* How many numbers the next part of a write takes. *)
LEMMA PartBound ==
  ASSUME NEW n \in Nat
  PROVE  Part(n) \in Nat /\ Part(n) <= n
  BY SizeAssumption DEF Part

LEMMA FromPeerType ==
  ASSUME TypeOK, NEW p \in FromPeer
  PROVE  /\ p.seq \in Nat /\ p.len \in Nat
         /\ p.ack \in acks /\ p.ack \in Nat
<1>1. p \in [seq : 0..(PeerBytes + 1), len : 0..PeerBytes, fin : BOOLEAN, ack : acks]
  BY DEF FromPeer
<1>2. p.seq \in 0..(PeerBytes + 1) /\ p.len \in 0..PeerBytes /\ p.ack \in acks
  BY <1>1, Zenon
<1>3. acks \subseteq Nat
  BY DEF TypeOK
<1>4. \A x \in 0..(PeerBytes + 1) : x \in Nat
  OBVIOUS
<1>5. \A x \in 0..PeerBytes : x \in Nat
  OBVIOUS
<1> QED
  BY <1>2, <1>3, <1>4, <1>5, Zenon

-----------------------------------------------------------------------------
(***************************************************************************)
(* Type invariant.                                                         *)
(***************************************************************************)
LEMMA InitType == Init => TypeOK
<1> SUFFICES ASSUME Init PROVE TypeOK
  OBVIOUS
<1>1. <<>> \in Seq(Frame) /\ <<>> \in Seq(0..MaxWrites) /\ <<>> \in Seq(Nat)
  OBVIOUS
<1> QED
  BY <1>1, SizeAssumption DEF Init, TypeOK

LEMMA BytesType ==
  ASSUME NEW n \in Nat, NEW base \in Nat
  PROVE  [k \in 1..n |-> base + k - 1] \in Seq(Nat)
<1>1. \A k \in 1..n : base + k - 1 \in Nat
  OBVIOUS
<1> QED
  BY <1>1, IsASeq

LEMMA LeftType ==
  ASSUME NEW data \in Seq(Nat), Left(data)
  PROVE  buffer' \in Seq(Nat)
<1>1. <<>> \in Seq(Nat)
  OBVIOUS
<1> QED
  BY <1>1 DEF Left

LEMMA ForeignType ==
  ASSUME NEW n \in Nat
  PROVE  Foreign(n) \in Seq(Nat)
<1>1. \A k \in 1..n : PeerBytes \in Nat
  BY SizeAssumption
<1> QED
  BY <1>1, IsASeq DEF Foreign

LEMMA HandleType ==
  ASSUME TypeOK, NEW p \in FromPeer, NEW stk \in Seq(Frame), Handle(p, stk)
  PROVE  /\ state' \in {"ESTABLISHED", "DYEING", "NO_CONNECTION"}
         /\ expectedSequence' \in Nat
         /\ calls' \in Seq(Frame)
         /\ buffer' \in Seq(Nat) /\ delivered' \in Seq(Nat)
<1>1. p.seq \in Nat /\ p.len \in Nat
  BY FromPeerType
<1>2. Append(stk, Call("close", 0, 1)) \in Seq(Frame)
  BY CallType, PushCall
<1>3. Bytes(p) \in Seq(Nat)
  BY <1>1, BytesType DEF Bytes
<1>4. delivered \o Bytes(p) \in Seq(Nat)
  BY <1>3, ConcatProperties DEF TypeOK
<1>5. expectedSequence + 1 \in Nat /\ expectedSequence + p.len \in Nat
  BY <1>1 DEF TypeOK
<1>6. state' \in {"ESTABLISHED", "DYEING", "NO_CONNECTION"}
  BY DEF Handle, TypeOK
<1>7. expectedSequence' \in Nat
  BY <1>5 DEF Handle, TypeOK
<1>8. calls' \in Seq(Frame)
  BY <1>2 DEF Handle
<1>9. delivered' \in Seq(Nat)
  BY <1>4 DEF Handle, TypeOK
<1>10. buffer' \in Seq(Nat)
  <2>1. Left(<<>>) \/ Left(Bytes(p))
    BY DEF Handle
  <2>2. <<>> \in Seq(Nat)
    OBVIOUS
  <2> QED
    BY <1>3, <2>1, <2>2, LeftType
<1> QED
  BY <1>6, <1>7, <1>8, <1>9, <1>10

LEMMA TakeType ==
  ASSUME TypeOK, NEW n \in Nat, NEW w \in 0..MaxWrites, Take(w, n)
  PROVE  sendSequence' \in Nat /\ written' \in Seq(0..MaxWrites)
<1>1. [k \in 1..n |-> w] \in Seq(0..MaxWrites)
  BY IsASeq
<1>2. written \o [k \in 1..n |-> w] \in Seq(0..MaxWrites)
  BY <1>1, ConcatProperties DEF TypeOK
<1> QED
  BY <1>2 DEF Take, Advance, TypeOK

(* The running call, and the stack without it or with it changed. *)
LEMMA TopType ==
  ASSUME TypeOK, calls # <<>>
  PROVE  /\ Top \in Frame
         /\ Top.write \in 0..MaxWrites /\ Top.left \in Nat /\ Top.ack \in Nat
         /\ Top.woken \in Nat
         /\ Returned \in Seq(Frame)
         /\ \A f \in Frame : WithTop(f) \in Seq(Frame)
<1>1. calls \in Seq(Frame)
  BY DEF TypeOK
<1>2. Top \in Frame
  BY <1>1, TopCall DEF Top
<1>3. Returned \in Seq(Frame)
  BY <1>1, PopCall DEF Returned
<1>4. \A f \in Frame : WithTop(f) \in Seq(Frame)
  BY <1>1, ChangeCall DEF WithTop
<1> QED
  BY <1>2, <1>3, <1>4 DEF Frame

LEMMA FrameChange ==
  ASSUME NEW f \in Frame, NEW q \in {"first", "again", "wait", "hit"}
  PROVE  /\ [f EXCEPT !.pc = q] \in Frame
         /\ \A a \in Nat : [f EXCEPT !.pc = q, !.ack = a] \in Frame
         /\ \A a, l \in Nat : [f EXCEPT !.pc = q, !.ack = a, !.left = l] \in Frame
         /\ \A w \in Nat : \A c \in BOOLEAN :
              [f EXCEPT !.pc = q, !.woken = w, !.called = c] \in Frame
  BY DEF Frame

LEMMA SegmentType ==
  \A seq, len \in Nat : \A w \in 0..MaxWrites :
    Segment(seq, len, w) \in [seq : Nat, len : Nat, data : 0..MaxWrites]
  BY DEF Segment

LEMMA StepType == TypeOK /\ [Next]_vars => TypeOK'
<1> SUFFICES ASSUME TypeOK, [Next]_vars PROVE TypeOK'
  OBVIOUS
<1> USE DEF TypeOK
<1>1. ASSUME NEW s \in sent, PeerReceives(s) PROVE TypeOK'
  <2>1. s.data \in 0..MaxWrites
    OBVIOUS
  <2>2. [k \in 1..(s.seq + s.len - Len(peerGot)) |-> s.data] \in Seq(0..MaxWrites)
    <3>1. s.seq \in Nat /\ s.len \in Nat /\ Len(peerGot) \in Nat
      BY LenProperties
    <3>2. s.seq + s.len - Len(peerGot) \in Nat
      BY <1>1, <3>1 DEF PeerReceives
    <3>3. ASSUME NEW n \in Nat PROVE [k \in 1..n |-> s.data] \in Seq(0..MaxWrites)
      BY <2>1, IsASeq
    <3> QED
      BY <3>2, <3>3
  <2>3. peerGot' \in Seq(0..MaxWrites)
    BY <1>1, <2>2, ConcatProperties DEF PeerReceives
  <2> QED
    BY <1>1, <2>3 DEF PeerReceives, library
<1>2. ASSUME PeerAcks PROVE TypeOK'
  <2>1. Len(peerGot) \in Nat
    BY LenProperties
  <2> QED
    BY <1>2, <2>1 DEF PeerAcks, library
<1>3. ASSUME NEW p \in FromPeer, NetHandleNetwork(p) PROVE TypeOK'
  BY <1>3, HandleType DEF NetHandleNetwork
<1>4. ASSUME NEW p \in FromPeer, TcpWaitPacket(p) PROVE TypeOK'
  <2> DEFINE handled == (p.len # 0 \/ p.fin) /\ sendSequence = Top.ack
             called == handled /\ ~p.fin /\ state = "ESTABLISHED"
             hit == WithTop([Top EXCEPT !.pc = "hit", !.woken = p.len, !.called = called])
             again == WithTop([Top EXCEPT !.pc = "again"])
  <2>1. p.seq \in Nat /\ p.len \in Nat /\ called \in BOOLEAN
    BY FromPeerType
  <2>2. calls # <<>>
    BY <1>4 DEF TcpWaitPacket
  <2>3. Top \in Frame /\ \A f \in Frame : WithTop(f) \in Seq(Frame)
    BY <2>2, TopType
  <2>4. \/ Handle(p, hit) \/ Handle(p, again)
        \/ calls' = hit /\ Left(Bytes(p)) /\ UNCHANGED <<state, expectedSequence, delivered>>
    BY <1>4 DEF TcpWaitPacket
  <2> HIDE DEF called
  <2>5. hit \in Seq(Frame) /\ again \in Seq(Frame)
    BY <2>1, <2>3, FrameChange
  <2> HIDE DEF hit, again
  <2>6. Bytes(p) \in Seq(Nat)
    BY <2>1, BytesType DEF Bytes
  <2>7. /\ state' \in {"ESTABLISHED", "DYEING", "NO_CONNECTION"}
        /\ expectedSequence' \in Nat
        /\ calls' \in Seq(Frame)
        /\ buffer' \in Seq(Nat) /\ delivered' \in Seq(Nat)
    BY <2>4, <2>5, <2>6, HandleType, LeftType
  <2> QED
    BY <1>4, <2>7 DEF TcpWaitPacket
<1>5. ASSUME TcpWaitNothing PROVE TypeOK'
  <2>1. calls' \in Seq(Frame)
    BY <1>5, TopType, FrameChange DEF TcpWaitNothing
  <2>2. buffer' \in Seq(Nat)
    <3>1. UNCHANGED buffer \/ \E n \in 0..MaxForeign : Left(Foreign(n))
      BY <1>5 DEF TcpWaitNothing
    <3>2. \A n \in 0..MaxForeign : Foreign(n) \in Seq(Nat)
      BY ForeignType, SizeAssumption
    <3> QED
      BY <3>1, <3>2, LeftType
  <2> QED
    BY <1>5, <2>1, <2>2 DEF TcpWaitNothing
<1>6. ASSUME NEW n \in 1..MaxLength, TcpSendData(n) PROVE TypeOK'
  <2>1. n \in Nat /\ writes' \in 0..MaxWrites /\ writes + 1 \in 0..MaxWrites
    BY <1>6, SizeAssumption DEF TcpSendData
  <2>2. calls' \in Seq(Frame)
    BY <1>6, <2>1, CallType, PushCall DEF TcpSendData
  <2> QED
    BY <1>6, <2>1, <2>2 DEF TcpSendData
<1>7. ASSUME TcpSendDataPart PROVE TypeOK'
  <2> DEFINE n == Part(Top.left)
             f == [Top EXCEPT !.pc = "wait", !.ack = sendSequence + n, !.left = Top.left - n]
             sg == Segment(sendSequence, n, Top.write)
  <2>1. calls # <<>>
    BY <1>7 DEF TcpSendDataPart, Running
  <2>2. /\ Top \in Frame /\ Top.write \in 0..MaxWrites /\ Top.left \in Nat
        /\ Returned \in Seq(Frame) /\ \A g \in Frame : WithTop(g) \in Seq(Frame)
    BY <2>1, TopType
  <2>3. n \in Nat /\ Top.left - n \in Nat /\ sendSequence + n \in Nat
    <3> DEFINE l == Top.left
    <3>1. l \in Nat /\ sendSequence \in Nat
      BY <2>2
    <3> HIDE DEF l
    <3>2. Part(l) \in Nat /\ Part(l) <= l
      BY <3>1, PartBound
    <3>3. Part(l) \in Nat /\ l - Part(l) \in Nat /\ sendSequence + Part(l) \in Nat
      BY <3>1, <3>2
    <3> QED
      BY <3>3 DEF l
  <2>4. Take(Top.write, n) /\ UNCHANGED <<state, expectedSequence, writes, succeeded,
                                          delivered, received, peerGot, acks>>
    BY <1>7 DEF TcpSendDataPart
  <2>5. \/ sent' = sent \cup {sg} /\ calls' = WithTop(f) /\ Left(Foreign(n))
        \/ sent' = sent /\ calls' = Returned /\ buffer' = buffer
    BY <1>7 DEF TcpSendDataPart
  <2> HIDE DEF n
  <2>6. written' \in Seq(0..MaxWrites) /\ sendSequence' \in Nat
    BY <2>2, <2>3, <2>4, TakeType
  <2>7. f \in Frame
    BY <2>2, <2>3, FrameChange
  <2>8. sg \in [seq : Nat, len : Nat, data : 0..MaxWrites]
    BY <2>2, <2>3, SegmentType
  <2> HIDE DEF f, sg
  <2>9. calls' \in Seq(Frame) /\ sent' \subseteq [seq : Nat, len : Nat, data : 0..MaxWrites]
    BY <2>2, <2>5, <2>7, <2>8
  <2>10. buffer' \in Seq(Nat)
    BY <2>3, <2>5, ForeignType, LeftType
  <2> QED
    BY <2>4, <2>6, <2>9, <2>10
<1>8. ASSUME TcpSendDataHit PROVE TypeOK'
  <2>1. calls # <<>> /\ Top.op = "send"
    BY <1>8 DEF TcpSendDataHit, Running
  <2>2. calls' \in Seq(Frame)
    BY <1>8, <2>1, TopType, FrameChange DEF TcpSendDataHit
  <2>3. succeeded' \subseteq 0..MaxWrites
    BY <1>8, <2>1, TopType DEF TcpSendDataHit
  <2> QED
    BY <1>8, <2>2, <2>3 DEF TcpSendDataHit
<1>9. ASSUME TcpSendDataAgain PROVE TypeOK'
  <2>1. calls' \in Seq(Frame)
    BY <1>9, TopType, FrameChange DEF TcpSendDataAgain, Running
  <2>2. buffer' \in Seq(Nat)
    <3>1. UNCHANGED buffer \/ \E s \in sent : Left(Foreign(s.len))
      BY <1>9 DEF TcpSendDataAgain
    <3>2. \A s \in sent : s.len \in Nat
      OBVIOUS
    <3> QED
      BY <3>1, <3>2, ForeignType, LeftType
  <2> QED
    BY <1>9, <2>1, <2>2 DEF TcpSendDataAgain
<1>10. ASSUME TcpReceiveData PROVE TypeOK'
  <2>1. calls' \in Seq(Frame)
    BY <1>10, CallType, PushCall DEF TcpReceiveData
  <2> QED
    BY <1>10, <2>1 DEF TcpReceiveData
<1>11. ASSUME TcpReceiveDataTry PROVE TypeOK'
  <2>1. calls # <<>>
    BY <1>11 DEF TcpReceiveDataTry, Running
  <2>2. \/ calls' = WithTop([Top EXCEPT !.pc = "wait", !.ack = sendSequence])
        \/ calls' = Returned
    BY <1>11 DEF TcpReceiveDataTry
  <2>3. calls' \in Seq(Frame)
    BY <2>1, <2>2, TopType, FrameChange
  <2> QED
    BY <1>11, <2>3 DEF TcpReceiveDataTry
<1>12. ASSUME TcpReceiveDataHit PROVE TypeOK'
  <2>1. calls # <<>>
    BY <1>12 DEF TcpReceiveDataHit, Running
  <2>2. Returned \in Seq(Frame) /\ Len(buffer) \in Nat /\ <<>> \in Seq(Nat)
    BY <2>1, TopType, LenProperties
  <2>3. received' \in Seq(Nat) /\ buffer' \in Seq(Nat)
    BY <1>12, <2>2, ConcatProperties, LeftType DEF TcpReceiveDataHit
  <2>4. expectedSequence' \in Nat
    BY <1>12, <2>2 DEF TcpReceiveDataHit
  <2> QED
    BY <1>12, <2>2, <2>3, <2>4 DEF TcpReceiveDataHit
<1>13. ASSUME TransferExpired PROVE TypeOK'
  <2>1. calls' \in Seq(Frame)
    BY <1>13, TopType DEF TransferExpired, Running
  <2> QED
    BY <1>13, <2>1 DEF TransferExpired
<1>14. ASSUME TcpDisconnect PROVE TypeOK'
  <2>1. calls' \in Seq(Frame)
    BY <1>14, CallType, PushCall DEF TcpDisconnect
  <2> QED
    BY <1>14, <2>1 DEF TcpDisconnect
<1>15. ASSUME TcpClose PROVE TypeOK'
  <2> DEFINE sg == Segment(sendSequence, 1, Fin)
             f == [Top EXCEPT !.pc = "wait", !.ack = sendSequence + 1]
  <2>1. calls # <<>>
    BY <1>15 DEF TcpClose, Running
  <2>2. Fin \in 0..MaxWrites
    BY SizeAssumption DEF Fin
  <2>3. written' \in Seq(0..MaxWrites) /\ sendSequence' \in Nat
    BY <1>15, <2>2, TakeType DEF TcpClose
  <2>4. sg \in [seq : Nat, len : Nat, data : 0..MaxWrites]
    BY <2>2, 1 \in Nat, SegmentType
  <2>5. WithTop(f) \in Seq(Frame)
    <3>1. sendSequence + 1 \in Nat
      OBVIOUS
    <3>2. Top \in Frame /\ \A g \in Frame : WithTop(g) \in Seq(Frame)
      BY <2>1, TopType
    <3> QED
      BY <3>1, <3>2, FrameChange
  <2>6. sent' = sent \cup {sg} /\ calls' = WithTop(f)
    BY <1>15 DEF TcpClose
  <2> HIDE DEF f, sg
  <2>7. calls' \in Seq(Frame) /\ sent' \subseteq [seq : Nat, len : Nat, data : 0..MaxWrites]
    BY <2>4, <2>5, <2>6
  <2>8. buffer' \in Seq(Nat)
    <3>1. Left(<<>>) /\ <<>> \in Seq(Nat)
      BY <1>15 DEF TcpClose
    <3> QED
      BY <3>1, LeftType
  <2> QED
    BY <1>15, <2>3, <2>7, <2>8 DEF TcpClose
<1>16. ASSUME TcpCloseAgain PROVE TypeOK'
  <2>1. calls' \in Seq(Frame)
    BY <1>16, TopType, FrameChange DEF TcpCloseAgain, Running
  <2>2. buffer' \in Seq(Nat)
    <3>1. (UNCHANGED buffer \/ Left(<<>>)) /\ <<>> \in Seq(Nat)
      BY <1>16 DEF TcpCloseAgain
    <3> QED
      BY <3>1, LeftType
  <2> QED
    BY <1>16, <2>1, <2>2 DEF TcpCloseAgain
<1>17. ASSUME TcpCloseEnd PROVE TypeOK'
  <2>1. calls' \in Seq(Frame)
    BY <1>17, TopType DEF TcpCloseEnd, Running
  <2> QED
    BY <1>17, <2>1 DEF TcpCloseEnd
<1>18. ASSUME UNCHANGED vars PROVE TypeOK'
  BY <1>18 DEF vars, library
<1>19. ASSUME OtherCall PROVE TypeOK'
  <2>1. \A n \in 0..MaxForeign : Foreign(n) \in Seq(Nat)
    BY ForeignType, SizeAssumption
  <2>2. buffer' \in Seq(Nat)
    BY <1>19, <2>1, LeftType DEF OtherCall
  <2> QED
    BY <1>19, <2>2 DEF OtherCall
<1> QED
  BY <1>1, <1>2, <1>3, <1>4, <1>5, <1>6, <1>7, <1>8, <1>9, <1>10, <1>11, <1>12,
     <1>13, <1>14, <1>15, <1>16, <1>17, <1>18, <1>19 DEF Next, Arrivals, Calls

(* Nothing of a connection ever leaves its type. *)
THEOREM TypeCorrect == Spec => []TypeOK
<1>1. Init => TypeOK
  BY InitType
<1>2. TypeOK /\ [Next]_vars => TypeOK'
  BY StepType
<1> QED
  BY <1>1, <1>2, PTL DEF Spec

-----------------------------------------------------------------------------
(***************************************************************************)
(* What is acknowledged is delivered.                                      *)
(*                                                                         *)
(* The argument: data is acknowledged by TcpHandleIncomingPacket, which    *)
(* delivers it, and by TcpReceiveData, which acknowledges what it returns. *)
(***************************************************************************)
AckedInv == TypeOK /\ AckedIsDelivered

(* A segment from the peer that is handled is delivered if it is           *)
(* acknowledged.                                                           *)
LEMMA HandleAcked ==
  ASSUME ~FinWithData, TypeOK, AckedIsDelivered, NEW p \in FromPeer, NEW stk, Handle(p, stk),
         UNCHANGED received
  PROVE  AckedIsDelivered'
<1> SUFFICES ASSUME received = <<>> PROVE AckedIsDelivered'
  BY DEF AckedIsDelivered
<1>1. /\ p.seq \in Nat /\ p.len \in Nat
      /\ p.fin => p.seq = PeerBytes
  <2>1. p.seq \in Nat /\ p.len \in Nat
    BY FromPeerType
  <2>2. p.fin => p.seq + p.len = PeerBytes /\ p.len = 0
    BY Zenon DEF FromPeer
  <2> QED
    BY <2>1, <2>2
<1>2. expectedSequence \in Nat /\ Len(delivered) \in Nat /\ PeerBytes \in Nat
  BY LenProperties, SizeAssumption DEF TypeOK
<1>3. CASE /\ p.fin /\ InOrder(p.seq)
           /\ expectedSequence' = expectedSequence + 1
           /\ state' # "ESTABLISHED"
           /\ UNCHANGED delivered
  <2>1. expectedSequence = Len(delivered) /\ Len(delivered) = PeerBytes
    BY <1>1, <1>2, <1>3 DEF AckedIsDelivered, InOrder
  <2> QED
    BY <1>2, <1>3, <2>1 DEF AckedIsDelivered
<1>4. CASE /\ p.len # 0 /\ InOrder(p.seq) /\ state = "ESTABLISHED"
           /\ expectedSequence' = expectedSequence + p.len
           /\ delivered' = delivered \o Bytes(p)
           /\ UNCHANGED state
  <2> DEFINE b == Bytes(p)
             d == delivered \o b
  <2>1. expectedSequence = Len(delivered) /\ p.seq = Len(delivered)
    BY <1>2, <1>4 DEF AckedIsDelivered, InOrder
  <2>2. b \in Seq(Nat) /\ Len(b) = p.len /\ \A k \in 1..p.len : b[k] = p.seq + k - 1
    <3>1. b \in Seq(Nat)
      BY <1>1, BytesType DEF Bytes
    <3>2. DOMAIN b = 1..p.len /\ \A k \in 1..p.len : b[k] = p.seq + k - 1
      BY DEF Bytes
    <3>3. Len(b) \in Nat /\ DOMAIN b = 1..Len(b)
      BY <3>1, LenProperties
    <3>4. Len(b) = p.len
      BY <1>1, <3>2, <3>3
    <3> QED
      BY <3>1, <3>2, <3>4
  <2>3. /\ d \in Seq(Nat)
        /\ Len(d) = Len(delivered) + Len(b)
        /\ \A k \in 1..(Len(delivered) + Len(b)) :
             d[k] = IF k <= Len(delivered) THEN delivered[k] ELSE b[k - Len(delivered)]
    <3>1. delivered \in Seq(Nat) /\ b \in Seq(Nat)
      BY <2>2 DEF TypeOK
    <3> HIDE DEF b
    <3> QED
      BY <3>1, ConcatProperties
  <2>4. DOMAIN delivered = 1..Len(delivered) /\ DOMAIN d = 1..Len(d)
    BY <2>3, LenProperties DEF TypeOK
  <2> HIDE DEF b, d
  <2>5. ASSUME NEW k \in DOMAIN d PROVE d[k] = k - 1
    <3>1. k \in Nat /\ k \in 1..(Len(delivered) + p.len)
      BY <2>2, <2>3, <2>4
    <3>2. CASE k <= Len(delivered)
      <4>1. k \in DOMAIN delivered
        BY <2>4, <3>1, <3>2, <1>2
      <4> QED
        BY <2>2, <2>3, <3>1, <3>2, <4>1 DEF AckedIsDelivered
    <3>3. CASE ~(k <= Len(delivered))
      <4>1. k - Len(delivered) \in 1..p.len
        BY <1>1, <1>2, <3>1, <3>3
      <4>2. b[k - Len(delivered)] = p.seq + (k - Len(delivered)) - 1
        BY <2>2, <4>1
      <4>3. d[k] = b[k - Len(delivered)]
        BY <2>2, <2>3, <3>1, <3>3
      <4> QED
        BY <1>2, <2>1, <3>1, <4>2, <4>3
    <3> QED
      BY <3>2, <3>3
  <2>6. delivered' = d /\ expectedSequence' = Len(d)
    BY <1>4, <2>1, <2>2, <2>3 DEF b, d
  <2>7. Len(d) \in Nat
    BY <1>1, <1>2, <2>2, <2>3
  <2> QED
    BY <2>5, <2>6, <2>7 DEF AckedIsDelivered
<1>5. CASE UNCHANGED <<state, expectedSequence, delivered>>
  BY <1>5 DEF AckedIsDelivered
<1> QED
  BY <1>3, <1>4, <1>5 DEF Handle

(* Calls of TcpReceiveData that have returned no data before a step in     *)
(* which they still have not, and what that step acknowledged.             *)
LEMMA ReceivedGrows ==
  ASSUME TypeOK, TcpReceiveDataHit, received' = <<>>
  PROVE  received = <<>> /\ UNCHANGED <<state, expectedSequence, delivered>>
<1>1. /\ received \in Seq(Nat) /\ buffer \in Seq(Nat) /\ expectedSequence \in Nat
      /\ received' = received \o buffer
      /\ expectedSequence' = expectedSequence + Len(buffer)
      /\ UNCHANGED <<state, delivered>>
  BY DEF TypeOK, TcpReceiveDataHit
<1>2. Len(received') = Len(received) + Len(buffer) /\ Len(received') = 0
  BY <1>1, ConcatProperties, EmptySeq
<1>3. Len(received) \in Nat /\ Len(buffer) \in Nat
  BY <1>1, LenProperties
<1>4. Len(received) = 0 /\ Len(buffer) = 0
  BY <1>2, <1>3
<1> QED
  BY <1>1, <1>4, EmptySeq

LEMMA AckedStep ==
  ~FinWithData /\ AckedInv /\ [Next]_vars => AckedIsDelivered'
<1> SUFFICES ASSUME ~FinWithData, AckedInv, [Next]_vars PROVE AckedIsDelivered'
  OBVIOUS
<1> USE DEF AckedInv
<1>1. CASE UNCHANGED <<state, expectedSequence, delivered, received>>
  BY <1>1 DEF AckedIsDelivered
<1>2. CASE /\ state' # "ESTABLISHED" /\ UNCHANGED <<expectedSequence, delivered, received>>
  BY <1>2 DEF AckedIsDelivered
<1>3. ASSUME NEW p \in FromPeer, NetHandleNetwork(p) PROVE AckedIsDelivered'
  BY <1>3, HandleAcked DEF NetHandleNetwork
<1>4. ASSUME NEW p \in FromPeer, TcpWaitPacket(p) PROVE AckedIsDelivered'
  <2>0. UNCHANGED received
    BY <1>4 DEF TcpWaitPacket
  <2>1. CASE \E stk : Handle(p, stk)
    BY <2>0, <2>1, HandleAcked
  <2>2. CASE UNCHANGED <<state, expectedSequence, delivered>>
    BY <2>0, <2>2, <1>1
  <2> QED
    BY <1>4, <2>1, <2>2 DEF TcpWaitPacket
<1>5. CASE TcpReceiveDataHit
  BY <1>5, ReceivedGrows DEF AckedIsDelivered
<1>6. ASSUME NEW s \in sent, PeerReceives(s) PROVE AckedIsDelivered'
  BY <1>1, <1>6 DEF PeerReceives, library
<1>7. CASE PeerAcks
  BY <1>1, <1>7 DEF PeerAcks, library
<1>8. ASSUME NEW n \in 1..MaxLength, TcpSendData(n) PROVE AckedIsDelivered'
  BY <1>1, <1>8 DEF TcpSendData
<1>9. CASE \/ TcpWaitNothing \/ TcpSendDataPart \/ TcpSendDataHit \/ TcpSendDataAgain
           \/ TcpReceiveData \/ TcpReceiveDataTry \/ TransferExpired
           \/ TcpClose \/ TcpCloseAgain \/ OtherCall
  BY <1>1, <1>9 DEF OtherCall, TcpWaitNothing, TcpSendDataPart, TcpSendDataHit, TcpSendDataAgain,
     TcpReceiveData, TcpReceiveDataTry, TransferExpired, TcpClose, TcpCloseAgain
<1>10. CASE TcpDisconnect \/ TcpCloseEnd
  BY <1>2, <1>10 DEF TcpDisconnect, TcpCloseEnd
<1>11. CASE UNCHANGED vars
  BY <1>1, <1>11 DEF vars, library
<1> QED
  BY <1>3, <1>4, <1>5, <1>6, <1>7, <1>8, <1>9, <1>10, <1>11 DEF Next, Arrivals, Calls

(* From a peer that sends its FIN by itself, every byte that is            *)
(* acknowledged has been handed to the callback, once and in order, unless *)
(* a TcpReceiveData has acknowledged what it found in the buffer.          *)
THEOREM AckedDelivered == ASSUME ~FinWithData PROVE Spec => []AckedIsDelivered
<1>1. Init => AckedInv
  BY InitType, SizeAssumption DEF Init, AckedInv, AckedIsDelivered
<1>2. AckedInv /\ [Next]_vars => AckedInv'
  BY StepType, AckedStep DEF AckedInv
<1>3. AckedInv => AckedIsDelivered
  BY DEF AckedInv
<1> QED
  BY <1>1, <1>2, <1>3, PTL DEF Spec

-----------------------------------------------------------------------------
(***************************************************************************)
(* What is written arrives.                                                *)
(*                                                                         *)
(* The argument: a number is used once.  Every segment that was ever sent  *)
(* therefore agrees with the record of what was written, and a peer that   *)
(* keeps what is in order has a beginning of that record.                  *)
(***************************************************************************)
SentAgrees ==
  \A s \in sent : /\ s.seq + s.len <= Len(written)
                  /\ \A k \in (s.seq + 1)..(s.seq + s.len) : written[k] = s.data

StreamInv ==
  /\ TypeOK
  /\ Len(written) = sendSequence
  /\ SentAgrees
  /\ \A a \in acks : a <= Len(peerGot)
  /\ PeerGetsWhatWasWritten

(* What numbers that are taken leave as it was. *)
LEMMA TakeGrows ==
  ASSUME TypeOK, Len(written) = sendSequence,
         NEW n \in Nat, NEW w \in 0..MaxWrites, Take(w, n)
  PROVE  /\ written' \in Seq(0..MaxWrites) /\ Len(written) \in Nat
         /\ Len(written') = Len(written) + n /\ Len(written') = sendSequence'
         /\ \A k \in 1..Len(written) : written'[k] = written[k]
         /\ \A k \in (Len(written) + 1)..(Len(written) + n) : written'[k] = w
<1> DEFINE e == [k \in 1..n |-> w]
           l == Len(written)
<1>1. l \in Nat /\ written \in Seq(0..MaxWrites)
  BY LenProperties DEF TypeOK
<1>2. e \in Seq(0..MaxWrites)
  BY IsASeq
<1>3. DOMAIN e = 1..n /\ \A k \in 1..n : e[k] = w
  OBVIOUS
<1>4. Len(e) = n
  <2>1. Len(e) \in Nat /\ DOMAIN e = 1..Len(e)
    BY <1>2, LenProperties
  <2> QED
    BY <1>3, <2>1
<1>5. /\ written \o e \in Seq(0..MaxWrites)
      /\ Len(written \o e) = l + Len(e)
      /\ \A k \in 1..(l + Len(e)) :
           (written \o e)[k] = IF k <= l THEN written[k] ELSE e[k - l]
  BY <1>1, <1>2, ConcatProperties
<1>6. written' = written \o e /\ sendSequence' = sendSequence + n
  BY DEF Take, Advance
<1> HIDE DEF e, l
<1>7. ASSUME NEW k \in 1..l PROVE written'[k] = written[k]
  BY <1>1, <1>4, <1>5, <1>6
<1>8. ASSUME NEW k \in (l + 1)..(l + n) PROVE written'[k] = w
  <2>1. k - l \in 1..n /\ k \in 1..(l + Len(e)) /\ ~(k <= l)
    BY <1>1, <1>4
  <2> QED
    BY <1>3, <1>5, <1>6, <2>1
<1>9. Len(written') = l + n /\ Len(written') = sendSequence'
  BY <1>4, <1>5, <1>6 DEF l
<1> QED
  BY <1>1, <1>5, <1>6, <1>7, <1>8, <1>9 DEF l

(* Taking numbers, with or without sending them, keeps the record true. *)
LEMMA TakeStream ==
  ASSUME StreamInv, NEW n \in Nat, NEW w \in 0..MaxWrites, Take(w, n),
         sent' \subseteq sent \cup {Segment(sendSequence, n, w)},
         UNCHANGED <<peerGot, acks>>
  PROVE  /\ Len(written') = sendSequence'
         /\ SentAgrees'
         /\ \A a \in acks' : a <= Len(peerGot')
         /\ PeerGetsWhatWasWritten'
<1> DEFINE l == Len(written)
<1>1. /\ l \in Nat /\ l = sendSequence
      /\ Len(written') = l + n /\ Len(written') = sendSequence'
      /\ \A k \in 1..l : written'[k] = written[k]
      /\ \A k \in (l + 1)..(l + n) : written'[k] = w
  BY TakeGrows DEF StreamInv
<1>2. SentAgrees'
  <2>1. ASSUME NEW s \in sent'
        PROVE  /\ s.seq + s.len <= Len(written')
               /\ \A k \in (s.seq + 1)..(s.seq + s.len) : written'[k] = s.data
    <3>1. CASE s \in sent
      <4>1. s.seq \in Nat /\ s.len \in Nat
        BY <3>1 DEF StreamInv, TypeOK
      <4>2. /\ s.seq + s.len <= l
            /\ \A k \in (s.seq + 1)..(s.seq + s.len) : written[k] = s.data
        BY <3>1 DEF StreamInv, SentAgrees
      <4> HIDE DEF l
      <4>3. \A k \in (s.seq + 1)..(s.seq + s.len) : k \in 1..l
        BY <1>1, <4>1, <4>2
      <4> QED
        BY <1>1, <4>1, <4>2, <4>3
    <3>2. CASE s = Segment(sendSequence, n, w)
      <4>1. s.seq = l /\ s.len = n /\ s.data = w
        BY <1>1, <3>2 DEF Segment
      <4> HIDE DEF l
      <4> QED
        BY <1>1, <4>1
    <3> QED
      BY <3>1, <3>2
  <2> QED
    BY <2>1 DEF SentAgrees
<1>3. PeerGetsWhatWasWritten'
  <2>1. peerGot' = peerGot /\ Len(peerGot) \in Nat /\ DOMAIN peerGot = 1..Len(peerGot)
    BY LenProperties DEF StreamInv, TypeOK
  <2>2. Len(peerGot) <= l /\ \A k \in DOMAIN peerGot : peerGot[k] = written[k]
    BY DEF StreamInv, PeerGetsWhatWasWritten
  <2> HIDE DEF l
  <2>3. \A k \in DOMAIN peerGot : k \in 1..l
    BY <1>1, <2>1, <2>2
  <2>4. Len(peerGot) <= Len(written') /\ \A k \in DOMAIN peerGot : peerGot[k] = written'[k]
    BY <1>1, <2>1, <2>2, <2>3
  <2> QED
    BY <2>1, <2>4 DEF PeerGetsWhatWasWritten
<1> QED
  BY <1>1, <1>2, <1>3 DEF StreamInv

(* The peer grows its beginning of the record from a segment. *)
LEMMA PeerStream ==
  ASSUME StreamInv, NEW s \in sent, PeerReceives(s)
  PROVE  /\ Len(peerGot) \in Nat /\ Len(peerGot') \in Nat
         /\ Len(peerGot) <= Len(peerGot')
         /\ PeerGetsWhatWasWritten'
<1> DEFINE g == Len(peerGot)
           n == s.seq + s.len - g
           e == [k \in 1..n |-> s.data]
<1>1. s.seq \in Nat /\ s.len \in Nat /\ s.data \in 0..MaxWrites
  BY DEF StreamInv, TypeOK
<1>2. g \in Nat /\ peerGot \in Seq(0..MaxWrites) /\ DOMAIN peerGot = 1..g
  BY LenProperties DEF StreamInv, TypeOK
<1>3. s.seq <= g /\ g < s.seq + s.len /\ peerGot' = peerGot \o e /\ written' = written
  BY DEF PeerReceives, library
<1>4. n \in Nat
  BY <1>1, <1>2, <1>3
<1>5. e \in Seq(0..MaxWrites) /\ DOMAIN e = 1..n /\ \A k \in 1..n : e[k] = s.data
  <2> HIDE DEF n
  <2> QED
    BY <1>1, <1>4, IsASeq
<1>6. Len(e) = n
  <2>1. Len(e) \in Nat /\ DOMAIN e = 1..Len(e)
    BY <1>5, LenProperties
  <2> HIDE DEF n, e
  <2> QED
    BY <1>4, <1>5, <2>1
<1>7. /\ peerGot \o e \in Seq(0..MaxWrites)
      /\ Len(peerGot \o e) = g + Len(e)
      /\ \A k \in 1..(g + Len(e)) :
           (peerGot \o e)[k] = IF k <= g THEN peerGot[k] ELSE e[k - g]
  <2>1. g = Len(peerGot) /\ e \in Seq(0..MaxWrites)
    BY <1>5
  <2> HIDE DEF n, e, g
  <2> QED
    BY <1>2, <2>1, ConcatProperties
<1>8. DOMAIN peerGot' = 1..(g + n) /\ Len(peerGot') = g + n
  BY <1>3, <1>6, <1>7, LenProperties
<1>9. /\ s.seq + s.len <= Len(written)
      /\ \A k \in (s.seq + 1)..(s.seq + s.len) : written[k] = s.data
  BY DEF StreamInv, SentAgrees
<1>10. \A k \in 1..g : peerGot[k] = written[k]
  BY <1>2 DEF StreamInv, PeerGetsWhatWasWritten
<1>11. g + n = s.seq + s.len
  BY <1>1, <1>2
<1> HIDE DEF g, n, e
<1>12. ASSUME NEW k \in 1..(g + n) PROVE peerGot'[k] = written[k]
  <2>1. CASE k <= g
    <3>1. k \in 1..g
      BY <1>2, <1>4, <2>1
    <3> QED
      BY <1>3, <1>6, <1>7, <1>10, <2>1, <3>1
  <2>2. CASE ~(k <= g)
    <3>1. k - g \in 1..n /\ k \in (s.seq + 1)..(s.seq + s.len)
      BY <1>1, <1>2, <1>3, <1>4, <1>11, <2>2
    <3> QED
      BY <1>3, <1>5, <1>6, <1>7, <1>9, <2>2, <3>1
  <2> QED
    BY <2>1, <2>2
<1>13. PeerGetsWhatWasWritten'
  BY <1>3, <1>8, <1>9, <1>11, <1>12 DEF PeerGetsWhatWasWritten
<1> QED
  BY <1>2, <1>4, <1>8, <1>13 DEF g

LEMMA StreamStep == StreamInv /\ [Next]_vars => StreamInv'
<1> SUFFICES ASSUME StreamInv, [Next]_vars PROVE StreamInv'
  OBVIOUS
<1>0. TypeOK /\ TypeOK'
  BY StepType DEF StreamInv
<1>1. CASE UNCHANGED <<written, sendSequence, sent, acks, peerGot>>
  BY <1>0, <1>1 DEF StreamInv, SentAgrees, PeerGetsWhatWasWritten
<1>2. ASSUME NEW s \in sent, PeerReceives(s) PROVE StreamInv'
  <2>1. Len(peerGot) \in Nat /\ Len(peerGot') \in Nat /\ Len(peerGot) <= Len(peerGot')
    BY <1>2, PeerStream
  <2>2. acks \subseteq Nat /\ \A a \in acks : a <= Len(peerGot)
    BY <1>0 DEF StreamInv, TypeOK
  <2>3. \A a \in acks : a <= Len(peerGot')
    BY <2>1, <2>2
  <2>4. PeerGetsWhatWasWritten'
    BY <1>2, PeerStream
  <2> QED
    BY <1>0, <1>2, <2>3, <2>4 DEF PeerReceives, library, StreamInv, SentAgrees
<1>3. CASE PeerAcks
  <2>1. Len(peerGot) \in Nat
    BY <1>0, LenProperties DEF TypeOK
  <2>2. \A a \in acks' : a <= Len(peerGot)
    BY <1>3, <2>1 DEF PeerAcks, StreamInv
  <2> QED
    BY <1>0, <1>3, <2>2 DEF PeerAcks, library, StreamInv, SentAgrees, PeerGetsWhatWasWritten
<1>4. CASE TcpSendDataPart
  <2> DEFINE n == Part(Top.left)
             w == Top.write
  <2>1. calls # <<>> /\ Take(w, n) /\ UNCHANGED <<peerGot, acks>>
        /\ sent' \subseteq sent \cup {Segment(sendSequence, n, w)}
    BY <1>4 DEF TcpSendDataPart, Running
  <2>2. w \in 0..MaxWrites /\ Top.left \in Nat
    BY <1>0, <2>1, TopType
  <2>3. n \in Nat
    BY <2>2, PartBound
  <2> HIDE DEF n, w
  <2> QED
    BY <1>0, <2>1, <2>2, <2>3, TakeStream DEF StreamInv
<1>5. CASE TcpClose
  <2>1. Take(Fin, 1) /\ UNCHANGED <<peerGot, acks>>
        /\ sent' \subseteq sent \cup {Segment(sendSequence, 1, Fin)}
    BY <1>5 DEF TcpClose
  <2>2. Fin \in 0..MaxWrites /\ 1 \in Nat
    BY SizeAssumption DEF Fin
  <2> QED
    BY <1>0, <2>1, <2>2, TakeStream DEF StreamInv
<1>6. ASSUME NEW p \in FromPeer, NetHandleNetwork(p) \/ TcpWaitPacket(p) PROVE StreamInv'
  BY <1>1, <1>6 DEF NetHandleNetwork, TcpWaitPacket
<1>7. ASSUME NEW n \in 1..MaxLength, TcpSendData(n) PROVE StreamInv'
  BY <1>1, <1>7 DEF TcpSendData
<1>8. CASE \/ TcpWaitNothing \/ TcpSendDataHit \/ TcpSendDataAgain
           \/ TcpReceiveData \/ TcpReceiveDataTry \/ TcpReceiveDataHit
           \/ TransferExpired \/ TcpDisconnect \/ TcpCloseAgain \/ TcpCloseEnd \/ OtherCall
  BY <1>1, <1>8 DEF OtherCall, TcpWaitNothing, TcpSendDataHit, TcpSendDataAgain, TcpReceiveData,
     TcpReceiveDataTry, TcpReceiveDataHit, TransferExpired, TcpDisconnect,
     TcpCloseAgain, TcpCloseEnd
<1>9. CASE UNCHANGED vars
  BY <1>1, <1>9 DEF vars, library
<1> QED
  BY <1>2, <1>3, <1>4, <1>5, <1>6, <1>7, <1>8, <1>9 DEF Next, Arrivals, Calls

LEMMA StreamInit == Init => StreamInv
<1> SUFFICES ASSUME Init PROVE StreamInv
  OBVIOUS
<1>1. Len(<<>>) = 0 /\ DOMAIN <<>> = {}
  BY EmptySeq
<1> QED
  BY <1>1, InitType DEF Init, StreamInv, SentAgrees, PeerGetsWhatWasWritten

(* Whatever is lost, repeated or reordered, and however writes nest, the   *)
(* peer receives a beginning of what was written.                          *)
THEOREM PeerGetsTheWrites == Spec => []PeerGetsWhatWasWritten
<1>1. Init => StreamInv
  BY StreamInit
<1>2. StreamInv /\ [Next]_vars => StreamInv'
  BY StreamStep
<1>3. StreamInv => PeerGetsWhatWasWritten
  BY DEF StreamInv
<1> QED
  BY <1>1, <1>2, <1>3, PTL DEF Spec

-----------------------------------------------------------------------------
(***************************************************************************)
(* Success means received.                                                 *)
(*                                                                         *)
(* The argument: every call of TcpSendData in progress has a write of its  *)
(* own, whose numbers all lie below the number it waits for, or below what *)
(* the peer has when it does not wait.  A segment that acknowledges just   *)
(* the number waited for says that the peer has all of them.               *)
(***************************************************************************)
Reach(f, got) == IF f.pc \in {"first", "hit"} THEN got ELSE f.ack

SendsOK(c, w, got, m, done) ==
  \A i \in 1..Len(c) : c[i].op = "send" =>
    /\ c[i].write \in 1..m /\ c[i].write \notin done
    /\ \A j \in 1..Len(c) : c[j].op = "send" /\ c[j].write = c[i].write => j = i
    /\ \A k \in 1..Len(w) : w[k] = c[i].write => k <= Reach(c[i], got)

SuccessInv ==
  /\ StreamInv
  /\ SendsOK(calls, written, Len(peerGot), writes, succeeded)
  /\ \A k \in 1..Len(written) : written[k] <= writes
  /\ succeeded \subseteq 1..writes
  /\ SuccessMeansReceived

(* w2 is w with some v's after it. *)
Extends(w, w2, v) ==
  /\ Len(w) \in Nat /\ Len(w2) \in Nat /\ Len(w) <= Len(w2)
  /\ \A k \in 1..Len(w2) : w2[k] = v \/ (k \in 1..Len(w) /\ w2[k] = w[k])

LEMMA ExtendsItself ==
  ASSUME TypeOK, NEW v
  PROVE  Extends(written, written, v)
<1>1. Len(written) \in Nat
  BY LenProperties DEF TypeOK
<1> QED
  BY <1>1 DEF Extends

LEMMA TakeExtends ==
  ASSUME StreamInv, NEW n \in Nat, NEW v \in 0..MaxWrites, Take(v, n)
  PROVE  Extends(written, written', v)
<1> DEFINE l == Len(written)
<1>1. /\ l \in Nat /\ Len(written') = l + n
      /\ \A k \in 1..l : written'[k] = written[k]
      /\ \A k \in (l + 1)..(l + n) : written'[k] = v
  BY TakeGrows DEF StreamInv
<1>2. \A k \in 1..(l + n) : k \in 1..l \/ k \in (l + 1)..(l + n)
  BY <1>1
<1>3. l + n \in Nat /\ l <= l + n
  BY <1>1
<1> HIDE DEF l
<1>4. /\ Len(written') \in Nat /\ l <= Len(written')
      /\ \A k \in 1..Len(written') : written'[k] = v \/ (k \in 1..l /\ written'[k] = written[k])
  BY <1>1, <1>2, <1>3
<1> QED
  BY <1>1, <1>4 DEF Extends, l

(* What the peer has may grow. *)
LEMMA GotOK ==
  ASSUME NEW c \in Seq(Frame), NEW w, NEW got \in Nat, NEW got2 \in Nat, got <= got2,
         NEW m, NEW done, SendsOK(c, w, got, m, done)
  PROVE  SendsOK(c, w, got2, m, done)
<1>1. Len(c) \in Nat /\ \A i \in 1..Len(c) : c[i] \in Frame
  BY ElementOfSeq, LenProperties
<1>2. ASSUME NEW f \in Frame, NEW k \in 1..Len(w), k <= Reach(f, got) PROVE k <= Reach(f, got2)
  BY <1>2 DEF Reach, Frame
<1> QED
  BY <1>1, <1>2 DEF SendsOK

(* A call that is put on the stack has a write of its own, or none. *)
LEMMA PushSends ==
  ASSUME NEW s \in Seq(Frame), NEW f \in Frame, NEW w, NEW got, NEW m \in Nat, NEW m2 \in Nat,
         NEW done, SendsOK(s, w, got, m, done), m <= m2,
         f.op = "send" => /\ f.write = m + 1 /\ m2 = m + 1 /\ f.write \notin done
                          /\ \A k \in 1..Len(w) : w[k] # f.write
  PROVE  SendsOK(Append(s, f), w, got, m2, done)
<1> DEFINE t == Append(s, f)
           l == Len(s)
<1>1. l \in Nat
  BY LenProperties
<1>2. Len(t) = l + 1 /\ t[l + 1] = f /\ \A k \in 1..l : t[k] = s[k]
  BY PushCall
<1>3. \A i \in 1..l : s[i].op = "send" =>
        /\ s[i].write \in 1..m /\ s[i].write \notin done
        /\ \A j \in 1..l : s[j].op = "send" /\ s[j].write = s[i].write => j = i
        /\ \A k \in 1..Len(w) : w[k] = s[i].write => k <= Reach(s[i], got)
  BY DEF SendsOK
<1> HIDE DEF t, l
<1>4. ASSUME NEW i \in 1..Len(t), t[i].op = "send"
      PROVE  /\ t[i].write \in 1..m2 /\ t[i].write \notin done
             /\ \A j \in 1..Len(t) : t[j].op = "send" /\ t[j].write = t[i].write => j = i
             /\ \A k \in 1..Len(w) : w[k] = t[i].write => k <= Reach(t[i], got)
  <2>1. CASE i \in 1..l
    <3>1. t[i] = s[i] /\ t[i].write \in 1..m
      BY <1>2, <1>3, <1>4, <2>1
    <3>2. ASSUME NEW j \in 1..Len(t), t[j].op = "send", t[j].write = t[i].write PROVE j = i
      <4>1. CASE j \in 1..l
        BY <1>2, <1>3, <1>4, <2>1, <3>2, <4>1
      <4>2. CASE j = l + 1
        <5>1. t[j].write = m + 1
          BY <1>2, <3>2, <4>2
        <5> QED
          BY <3>1, <3>2, <5>1
      <4> QED
        BY <1>1, <1>2, <4>1, <4>2
    <3>3. t[i].write \in 1..m2
      BY <3>1
    <3> QED
      BY <1>3, <1>4, <2>1, <3>1, <3>2, <3>3
  <2>2. CASE i = l + 1
    <3>1. t[i] = f
      BY <1>2, <2>2
    <3>2. f.op = "send" /\ f.write = m + 1 /\ m2 = m + 1 /\ f.write \notin done
      BY <1>4, <3>1
    <3>3. ASSUME NEW j \in 1..l, t[j].op = "send" PROVE t[j].write # f.write
      <4>1. t[j].write \in 1..m
        BY <1>2, <1>3, <3>3
      <4> QED
        BY <3>2, <4>1
    <3>4. \A j \in 1..Len(t) : t[j].op = "send" /\ t[j].write = f.write => j = i
      BY <1>1, <1>2, <2>2, <3>3
    <3>5. f.write \in 1..m2 /\ \A k \in 1..Len(w) : w[k] # f.write
      BY <3>2
    <3> QED
      BY <3>1, <3>2, <3>4, <3>5
  <2> QED
    BY <1>1, <1>2, <1>4, <2>1, <2>2
<1>5. SendsOK(t, w, got, m2, done)
  BY <1>4 DEF SendsOK
<1> QED
  BY <1>5 DEF t

(* The running call goes on, and may have taken numbers. *)
LEMMA ChangeSends ==
  ASSUME NEW s \in Seq(Frame), s # <<>>, NEW f \in Frame, NEW w, NEW w2, NEW v, NEW got,
         NEW m \in Nat, NEW done, SendsOK(s, w, got, m, done),
         f.op = s[Len(s)].op, f.write = s[Len(s)].write, Extends(w, w2, v),
         v = 0 \/ (f.op = "send" /\ v = f.write),
         f.op = "send" => \A k \in 1..Len(w2) : w2[k] = f.write => k <= Reach(f, got),
         NEW t, t = [s EXCEPT ![Len(s)] = f]
  PROVE  SendsOK(t, w2, got, m, done)
<1> DEFINE l == Len(s)
<1>1. l \in Nat /\ l >= 1
  BY TopCall
<1>2. Len(t) = l /\ t[l] = f /\ \A k \in 1..(l - 1) : t[k] = s[k]
  BY ChangeCall
<1>3. \A i \in 1..l : s[i].op = "send" =>
        /\ s[i].write \in 1..m /\ s[i].write \notin done
        /\ \A j \in 1..l : s[j].op = "send" /\ s[j].write = s[i].write => j = i
        /\ \A k \in 1..Len(w) : w[k] = s[i].write => k <= Reach(s[i], got)
  BY DEF SendsOK
<1>4. f.op = s[l].op /\ f.write = s[l].write
  OBVIOUS
<1> HIDE DEF l
<1>5. \A i \in 1..l : t[i].op = s[i].op /\ t[i].write = s[i].write /\ (i # l => t[i] = s[i])
  <2>1. \A i \in 1..l : i = l \/ i \in 1..(l - 1)
    BY <1>1
  <2> QED
    BY <1>2, <1>4, <2>1
<1>6. ASSUME NEW i \in 1..l, t[i].op = "send", NEW k \in 1..Len(w2), w2[k] = t[i].write
      PROVE  k <= Reach(t[i], got)
  <2>1. CASE i = l
    BY <1>2, <1>6, <2>1
  <2>2. CASE i # l
    <3>1. s[i].op = "send" /\ w2[k] = s[i].write /\ t[i] = s[i] /\ l \in 1..l
      BY <1>1, <1>5, <1>6, <2>2
    <3>2. s[i].write # v
      <4>1. s[i].write \in 1..m
        BY <1>3, <3>1
      <4>2. CASE v = 0
        BY <4>1, <4>2
      <4>3. CASE f.op = "send" /\ v = f.write
        BY <1>3, <1>4, <2>2, <3>1, <4>3
      <4> QED
        BY <4>2, <4>3
    <3>3. k \in 1..Len(w) /\ w[k] = s[i].write
      BY <3>1, <3>2 DEF Extends
    <3> QED
      BY <1>3, <3>1, <3>3
  <2> QED
    BY <2>1, <2>2
<1>7. ASSUME NEW i \in 1..l, t[i].op = "send"
      PROVE  /\ t[i].write \in 1..m /\ t[i].write \notin done
             /\ \A j \in 1..l : t[j].op = "send" /\ t[j].write = t[i].write => j = i
  BY <1>3, <1>5, <1>7
<1> QED
  BY <1>2, <1>6, <1>7 DEF SendsOK

(* The running call returns, its write perhaps among those that are done. *)
LEMMA PopSends ==
  ASSUME NEW s \in Seq(Frame), s # <<>>, NEW w, NEW w2, NEW v, NEW got, NEW m \in Nat,
         NEW done, NEW done2, SendsOK(s, w, got, m, done), Extends(w, w2, v),
         v = 0 \/ (s[Len(s)].op = "send" /\ v = s[Len(s)].write),
         done2 = done \/ (s[Len(s)].op = "send" /\ done2 = done \cup {s[Len(s)].write})
  PROVE  SendsOK(SubSeq(s, 1, Len(s) - 1), w2, got, m, done2)
<1> DEFINE l == Len(s)
           t == SubSeq(s, 1, l - 1)
<1>1. l \in Nat /\ l >= 1
  BY TopCall
<1>2. Len(t) = l - 1 /\ \A k \in 1..(l - 1) : t[k] = s[k]
  BY PopCall
<1>3. \A i \in 1..l : s[i].op = "send" =>
        /\ s[i].write \in 1..m /\ s[i].write \notin done
        /\ \A j \in 1..l : s[j].op = "send" /\ s[j].write = s[i].write => j = i
        /\ \A k \in 1..Len(w) : w[k] = s[i].write => k <= Reach(s[i], got)
  BY DEF SendsOK
<1>4. /\ v = 0 \/ (s[l].op = "send" /\ v = s[l].write)
      /\ done2 = done \/ (s[l].op = "send" /\ done2 = done \cup {s[l].write})
  OBVIOUS
<1> HIDE DEF l, t
<1>5. ASSUME NEW i \in 1..(l - 1), s[i].op = "send"
      PROVE  /\ i \in 1..l /\ s[i].write \in 1..m /\ s[i].write \notin done2
             /\ s[i].write # v
  <2>1. i \in 1..l /\ l \in 1..l /\ i # l
    BY <1>1
  <2>2. s[i].write \in 1..m /\ s[i].write \notin done
    BY <1>3, <1>5, <2>1
  <2>3. s[l].op = "send" => s[i].write # s[l].write
    BY <1>3, <1>5, <2>1
  <2>4. s[i].write # 0
    BY <2>2
  <2> QED
    BY <1>4, <2>1, <2>2, <2>3, <2>4
<1>6. ASSUME NEW i \in 1..(l - 1), s[i].op = "send", NEW k \in 1..Len(w2), w2[k] = s[i].write
      PROVE  k <= Reach(s[i], got)
  <2>1. k \in 1..Len(w) /\ w[k] = s[i].write
    BY <1>5, <1>6 DEF Extends
  <2> QED
    BY <1>3, <1>5, <1>6, <2>1
<1>7. ASSUME NEW i \in 1..(l - 1), s[i].op = "send",
             NEW j \in 1..(l - 1), s[j].op = "send", s[j].write = s[i].write
      PROVE  j = i
  BY <1>3, <1>5, <1>7
<1>8. SendsOK(t, w2, got, m, done2)
  BY <1>2, <1>5, <1>6, <1>7 DEF SendsOK
<1> QED
  BY <1>8 DEF l, t

(* The rest of the invariant, when no write is done. *)
LEMMA RecordStep ==
  ASSUME SuccessInv, TypeOK', NEW v, Extends(written, written', v),
         Len(peerGot) \in Nat, Len(peerGot') \in Nat, Len(peerGot) <= Len(peerGot'),
         succeeded' = succeeded, writes <= writes', v \in 0..writes, v \notin succeeded
  PROVE  /\ \A k \in 1..Len(written') : written'[k] <= writes'
         /\ succeeded' \subseteq 1..writes'
         /\ SuccessMeansReceived'
<1>0. writes \in Nat /\ writes' \in Nat
  BY SizeAssumption DEF SuccessInv, StreamInv, TypeOK
<1>1. /\ written \in Seq(0..MaxWrites) /\ DOMAIN written = 1..Len(written)
      /\ DOMAIN written' = 1..Len(written')
  BY LenProperties DEF SuccessInv, StreamInv, TypeOK
<1>2. ASSUME NEW k \in 1..Len(written') PROVE written'[k] <= writes'
  <2>1. CASE written'[k] = v
    BY <1>0, <2>1
  <2>2. CASE k \in 1..Len(written) /\ written'[k] = written[k]
    <3>1. written[k] <= writes
      BY <2>2 DEF SuccessInv
    <3>2. written[k] \in 0..MaxWrites
      BY <1>1, <2>2, ElementOfSeq
    <3> QED
      BY <1>0, <2>2, <3>1, <3>2, SizeAssumption
  <2> QED
    BY <2>1, <2>2 DEF Extends
<1>3. succeeded' \subseteq 1..writes'
  <2>1. succeeded \subseteq 1..writes
    BY DEF SuccessInv
  <2> QED
    BY <1>0, <2>1
<1>4. ASSUME NEW k \in 1..Len(written'), written'[k] \in succeeded PROVE k <= Len(peerGot')
  <2>1. k \in 1..Len(written) /\ written[k] \in succeeded
    BY <1>4 DEF Extends
  <2>2. k <= Len(peerGot)
    BY <1>1, <2>1 DEF SuccessInv, SuccessMeansReceived
  <2> QED
    BY <2>2
<1> QED
  BY <1>1, <1>2, <1>3, <1>4 DEF SuccessMeansReceived

(* What is known of a write in progress. *)
LEMMA TopSends ==
  ASSUME SuccessInv, calls # <<>>, Top.op = "send"
  PROVE  /\ Top.write \in 1..writes /\ Top.write \notin succeeded
         /\ \A k \in 1..Len(written) : written[k] = Top.write => k <= Reach(Top, Len(peerGot))
<1>1. Len(calls) \in 1..Len(calls)
  BY TopCall DEF SuccessInv, StreamInv, TypeOK
<1> QED
  BY <1>1 DEF SuccessInv, SendsOK, Top

LEMMA HandleSends ==
  ASSUME NEW p, NEW stk \in Seq(Frame), Handle(p, stk), NEW w, NEW got, NEW m \in Nat,
         NEW done, SendsOK(stk, w, got, m, done)
  PROVE  SendsOK(calls', w, got, m, done)
<1> DEFINE f == Call("close", 0, 1)
<1>1. f \in Frame /\ f.op # "send" /\ m <= m
  BY CallType DEF Call
<1>2. calls' = stk \/ calls' = Append(stk, f)
  BY DEF Handle
<1> HIDE DEF f
<1>3. SendsOK(Append(stk, f), w, got, m, done)
  BY <1>1, PushSends
<1> QED
  BY <1>2, <1>3

LEMMA SuccessStep == SuccessInv /\ [Next]_vars => SuccessInv'
<1> SUFFICES ASSUME SuccessInv, [Next]_vars PROVE SuccessInv'
  OBVIOUS
<1> DEFINE got == Len(peerGot)
           Ok(c, w, m, done) == SendsOK(c, w, got, m, done)
<1>0. /\ StreamInv /\ TypeOK /\ StreamInv' /\ TypeOK' /\ calls \in Seq(Frame)
      /\ got \in Nat /\ Len(peerGot') \in Nat /\ writes \in Nat /\ 0 \in 0..writes
  <2>1. StreamInv /\ StreamInv'
    BY StreamStep DEF SuccessInv
  <2>2. TypeOK /\ TypeOK'
    BY <2>1 DEF StreamInv
  <2>3. peerGot \in Seq(0..MaxWrites) /\ peerGot' \in Seq(0..MaxWrites)
    BY <2>2 DEF TypeOK
  <2>4. got \in Nat /\ Len(peerGot') \in Nat
    BY <2>3, LenProperties
  <2>5. writes \in Nat /\ 0 \in 0..writes
    BY <2>2, SizeAssumption DEF TypeOK
  <2>6. calls \in Seq(Frame)
    BY <2>2 DEF TypeOK
  <2> QED
    BY <2>1, <2>2, <2>4, <2>5, <2>6
<1>00. /\ Ok(calls, written, writes, succeeded) /\ 0 \notin succeeded
       /\ succeeded \subseteq 1..writes
       /\ Extends(written, written, 0)
  BY <1>0, ExtendsItself DEF SuccessInv
<1> HIDE DEF got, Ok
(* Steps that take no numbers and end no write. *)
<1>1. ASSUME UNCHANGED <<written, succeeded, peerGot>>, writes <= writes',
             Ok(calls', written, writes', succeeded)
      PROVE  SuccessInv'
  <2>1. /\ \A k \in 1..Len(written') : written'[k] <= writes'
        /\ succeeded' \subseteq 1..writes'
        /\ SuccessMeansReceived'
    BY <1>0, <1>00, <1>1, RecordStep DEF got
  <2> QED
    BY <1>0, <1>1, <2>1 DEF SuccessInv, Ok, got
(* The running call changes, without numbers taken ... *)
<1>2. ASSUME NEW f \in Frame, calls # <<>>, f.op = Top.op, f.write = Top.write,
             f.op = "send" => Reach(f, got) = Reach(Top, got) \/ (f.pc = "hit" /\ Top.ack <= got /\ Top.pc = "wait")
      PROVE  Ok(WithTop(f), written, writes, succeeded)
  <2>1. ASSUME f.op = "send", NEW k \in 1..Len(written), written[k] = f.write
        PROVE  k <= Reach(f, got)
    <3>1. k <= Reach(Top, got)
      BY <1>2, <2>1, TopSends DEF got
    <3>2. CASE f.pc = "hit" /\ Top.ack <= got /\ Top.pc = "wait"
      <4>1. Reach(f, got) = got /\ Reach(Top, got) = Top.ack /\ Top.ack \in Nat
        BY <1>0, <1>2, <3>2, TopType DEF Reach
      <4> QED
        BY <1>0, <3>1, <3>2, <4>1
    <3> QED
      BY <1>2, <2>1, <3>1, <3>2
  <2>2. f.op = calls[Len(calls)].op /\ f.write = calls[Len(calls)].write
    BY <1>2 DEF Top
  <2> QED
    BY <1>0, <1>00, <1>2, <2>1, <2>2, ChangeSends DEF WithTop, Ok
(* ... or returns. *)
<1>3. ASSUME calls # <<>> PROVE Ok(Returned, written, writes, succeeded)
  BY <1>0, <1>00, <1>3, PopSends DEF Returned, Ok
<1>4. ASSUME NEW s \in sent, PeerReceives(s) PROVE SuccessInv'
  <2>1. Len(peerGot) <= Len(peerGot') /\ UNCHANGED library
    BY <1>0, <1>4, PeerStream DEF PeerReceives
  <2>2. SendsOK(calls, written, Len(peerGot'), writes, succeeded)
    BY <1>0, <1>00, <2>1, GotOK DEF Ok, got
  <2>3. /\ \A k \in 1..Len(written') : written'[k] <= writes'
        /\ succeeded' \subseteq 1..writes'
        /\ SuccessMeansReceived'
    BY <1>0, <1>00, <2>1, RecordStep DEF got, library
  <2> QED
    BY <1>0, <2>1, <2>2, <2>3 DEF SuccessInv, library
<1>5. CASE PeerAcks \/ OtherCall \/ UNCHANGED vars
  BY <1>0, <1>00, <1>1, <1>5 DEF PeerAcks, OtherCall, vars, library
<1>6. ASSUME NEW p \in FromPeer, NetHandleNetwork(p) PROVE SuccessInv'
  <2>1. Ok(calls', written, writes, succeeded)
    BY <1>0, <1>00, <1>6, HandleSends DEF NetHandleNetwork, Ok
  <2> QED
    BY <1>0, <1>1, <1>6, <2>1 DEF NetHandleNetwork
<1>7. ASSUME NEW p \in FromPeer, TcpWaitPacket(p) PROVE SuccessInv'
  <2> DEFINE handled == (p.len # 0 \/ p.fin) /\ sendSequence = Top.ack
             called == handled /\ ~p.fin /\ state = "ESTABLISHED"
             h == [Top EXCEPT !.pc = "hit", !.woken = p.len, !.called = called]
             a == [Top EXCEPT !.pc = "again"]
  <2>1. p.len \in Nat /\ called \in BOOLEAN /\ p.ack \in acks
    BY <1>0, FromPeerType
  <2>2. calls # <<>> /\ Top.pc = "wait" /\ UNCHANGED <<written, writes, succeeded, peerGot>>
    BY <1>7 DEF TcpWaitPacket
  <2>3. Top \in Frame /\ \A f \in Frame : WithTop(f) \in Seq(Frame)
    BY <1>0, <2>2, TopType
  <2>4. \/ (calls' = WithTop(h) \/ Handle(p, WithTop(h))) /\ Top.ack <= got
        \/ Handle(p, WithTop(a))
    BY <1>0, <1>7, <2>1 DEF TcpWaitPacket, Hit, StreamInv, got
  <2> HIDE DEF called
  <2>5. h \in Frame /\ a \in Frame
    BY <2>1, <2>3, FrameChange
  <2>6. h.op = Top.op /\ h.write = Top.write /\ h.pc = "hit"
    BY <2>3 DEF Frame
  <2>7. a.op = Top.op /\ a.write = Top.write /\ a.pc = "again" /\ a.ack = Top.ack
    BY <2>3 DEF Frame
  <2> HIDE DEF h, a
  <2>8. Top.ack <= got => Ok(WithTop(h), written, writes, succeeded)
    BY <1>2, <2>2, <2>5, <2>6
  <2>9. Ok(WithTop(a), written, writes, succeeded)
    <3>1. Reach(a, got) = Reach(Top, got)
      BY <2>2, <2>7 DEF Reach
    <3> QED
      BY <1>2, <2>2, <2>5, <2>7, <3>1
  <2>10. Ok(calls', written, writes, succeeded)
    BY <1>0, <2>3, <2>4, <2>5, <2>8, <2>9, HandleSends DEF Ok
  <2> QED
    BY <1>0, <1>1, <2>2, <2>10
<1>8. ASSUME NEW n \in 1..MaxLength, TcpSendData(n) PROVE SuccessInv'
  <2> DEFINE f == Call("send", writes + 1, n)
  <2>1. writes + 1 \in 0..MaxWrites /\ n \in Nat
    BY <1>0, <1>8, SizeAssumption DEF TcpSendData, TypeOK
  <2>2. f \in Frame /\ f.op = "send" /\ f.write = writes + 1
    BY <2>1, CallType DEF Call
  <2>3. \A k \in 1..Len(written) : written[k] # writes + 1
    <3>1. \A k \in 1..Len(written) : written[k] <= writes
      BY DEF SuccessInv
    <3> QED
      BY <1>0, <3>1
  <2>4. writes + 1 \notin succeeded /\ writes + 1 \in Nat /\ writes <= writes + 1
    BY <1>0, <1>00
  <2>5. /\ calls' = Append(calls, f) /\ writes' = writes + 1
        /\ UNCHANGED <<written, succeeded, peerGot>>
    BY <1>8 DEF TcpSendData
  <2> HIDE DEF f
  <2>6. Ok(calls', written, writes', succeeded)
    BY <1>0, <1>00, <2>2, <2>3, <2>4, <2>5, PushSends DEF Ok
  <2> QED
    BY <1>1, <2>4, <2>5, <2>6
<1>9. CASE TcpReceiveData \/ TcpDisconnect
  <2>1. PICK f \in Frame : f.op # "send" /\ calls' = Append(calls, f)
    <3>1. CASE TcpReceiveData
      BY <3>1, CallType DEF TcpReceiveData, Call
    <3>2. CASE TcpDisconnect
      BY <3>2, CallType DEF TcpDisconnect, Call
    <3> QED
      BY <1>9, <3>1, <3>2
  <2>2. UNCHANGED <<written, writes, succeeded, peerGot>>
    BY <1>9 DEF TcpReceiveData, TcpDisconnect
  <2>3. Ok(calls', written, writes, succeeded)
    BY <1>0, <1>00, <2>1, PushSends DEF Ok
  <2> QED
    BY <1>0, <1>1, <2>2, <2>3
<1>10. CASE TcpWaitNothing \/ TcpSendDataAgain \/ TcpCloseAgain \/ TransferExpired
            \/ TcpCloseEnd \/ TcpReceiveDataHit
  <2>1. calls # <<>> /\ UNCHANGED <<written, writes, succeeded, peerGot>>
    BY <1>10 DEF TcpWaitNothing, TcpSendDataAgain, TcpCloseAgain, TransferExpired,
       TcpCloseEnd, TcpReceiveDataHit, Running
  <2>2. Top \in Frame
    BY <1>0, <2>1, TopType
  <2>3. \/ calls' = Returned
        \/ Top.pc = "wait" /\ calls' = WithTop([Top EXCEPT !.pc = "again"])
        \/ Top.pc = "again" /\ calls' = WithTop([Top EXCEPT !.pc = "wait"])
    BY <1>10 DEF TcpWaitNothing, TcpSendDataAgain, TcpCloseAgain, TransferExpired,
       TcpCloseEnd, TcpReceiveDataHit, Running
  <2>4. ASSUME NEW q \in {"again", "wait"}, Top.pc \in {"again", "wait"},
               calls' = WithTop([Top EXCEPT !.pc = q])
        PROVE  Ok(calls', written, writes, succeeded)
    <3> DEFINE f == [Top EXCEPT !.pc = q]
    <3>1. f \in Frame
      BY <2>2, FrameChange
    <3>2. f.op = Top.op /\ f.write = Top.write /\ f.pc = q /\ f.ack = Top.ack
      BY <2>2 DEF Frame
    <3> HIDE DEF f
    <3>3. Reach(f, got) = Reach(Top, got)
      BY <2>4, <3>2 DEF Reach
    <3> QED
      BY <1>2, <2>1, <2>4, <3>1, <3>2, <3>3 DEF f
  <2>5. Ok(calls', written, writes, succeeded)
    BY <1>3, <2>1, <2>3, <2>4
  <2> QED
    BY <1>0, <1>1, <2>1, <2>5
<1>11. CASE TcpReceiveDataTry
  <2> DEFINE f == [Top EXCEPT !.pc = "wait", !.ack = sendSequence]
  <2>1. calls # <<>> /\ Top.op = "receive" /\ UNCHANGED <<written, writes, succeeded, peerGot>>
    BY <1>11 DEF TcpReceiveDataTry, Running
  <2>2. Top \in Frame /\ sendSequence \in Nat
    BY <1>0, <2>1, TopType DEF TypeOK
  <2>3. f \in Frame
    BY <2>2, FrameChange
  <2>4. f.op = Top.op /\ f.write = Top.write
    BY <2>2 DEF Frame
  <2>5. calls' = Returned \/ calls' = WithTop(f)
    BY <1>11 DEF TcpReceiveDataTry
  <2> HIDE DEF f
  <2>6. Ok(calls', written, writes, succeeded)
    BY <1>2, <1>3, <2>1, <2>3, <2>4, <2>5
  <2> QED
    BY <1>0, <1>1, <2>1, <2>6
<1>12. CASE TcpSendDataHit
  <2>1. /\ calls # <<>> /\ Top.op = "send" /\ Top.pc = "hit"
        /\ UNCHANGED <<written, writes, peerGot>>
    BY <1>12 DEF TcpSendDataHit, Running
  <2>2. Top \in Frame
    BY <1>0, <2>1, TopType
  <2>3. CASE calls' = WithTop([Top EXCEPT !.pc = "first"]) /\ UNCHANGED succeeded
    <3> DEFINE f == [Top EXCEPT !.pc = "first"]
    <3>1. f \in Frame
      BY <2>2, FrameChange
    <3>2. f.op = Top.op /\ f.write = Top.write /\ f.pc = "first"
      BY <2>2 DEF Frame
    <3> HIDE DEF f
    <3>3. Reach(f, got) = Reach(Top, got)
      BY <2>1, <3>2 DEF Reach
    <3>4. Ok(calls', written, writes, succeeded)
      BY <1>2, <2>1, <2>3, <3>1, <3>2, <3>3 DEF f
    <3> QED
      BY <1>0, <1>1, <2>1, <2>3, <3>4
  <2>4. CASE calls' = Returned /\ succeeded' = succeeded \cup {Top.write}
    <3>1. /\ Top.write \in 1..writes
          /\ \A k \in 1..Len(written) : written[k] = Top.write => k <= got
      BY <2>1, TopSends DEF Reach, got
    <3>2. Ok(calls', written, writes, succeeded')
      BY <1>0, <1>00, <2>1, <2>4, PopSends DEF Returned, Ok, Top
    <3>3. DOMAIN written = 1..Len(written)
      BY <1>0, LenProperties DEF TypeOK
    <3>4. SuccessMeansReceived'
      BY <2>1, <2>4, <3>1, <3>3 DEF SuccessInv, SuccessMeansReceived, got
    <3> QED
      BY <1>0, <1>00, <2>1, <2>4, <3>1, <3>2, <3>4 DEF SuccessInv, Ok, got
  <2> QED
    BY <1>12, <2>3, <2>4 DEF TcpSendDataHit
(* The two steps that take numbers. *)
<1>13. ASSUME NEW v \in 0..writes, v \notin succeeded, Extends(written, written', v),
              UNCHANGED <<writes, succeeded, peerGot>>,
              Ok(calls', written', writes, succeeded)
       PROVE  SuccessInv'
  <2>1. /\ \A k \in 1..Len(written') : written'[k] <= writes'
        /\ succeeded' \subseteq 1..writes'
        /\ SuccessMeansReceived'
    BY <1>0, <1>13, RecordStep DEF got
  <2> QED
    BY <1>0, <1>13, <2>1 DEF SuccessInv, Ok, got
<1>14. CASE TcpSendDataPart
  <2> DEFINE n == Part(Top.left)
             v == Top.write
             f == [Top EXCEPT !.pc = "wait", !.ack = sendSequence + n, !.left = Top.left - n]
  <2>1. /\ calls # <<>> /\ Top.op = "send" /\ Take(v, n)
        /\ UNCHANGED <<writes, succeeded, peerGot>>
        /\ calls' = Returned \/ calls' = WithTop(f)
    BY <1>14 DEF TcpSendDataPart, Running
  <2>2. /\ Top \in Frame /\ v \in 0..MaxWrites /\ Top.left \in Nat /\ sendSequence \in Nat
        /\ v \in 1..writes /\ v \notin succeeded
    BY <1>0, <2>1, TopType, TopSends DEF TypeOK
  <2>3. n \in Nat /\ n <= Top.left
    BY <2>2, PartBound
  <2> HIDE DEF n
  <2>4. sendSequence + n \in Nat /\ Top.left - n \in Nat
    BY <2>2, <2>3
  <2>5. f \in Frame
    BY <2>2, <2>4, FrameChange
  <2>6. f.op = Top.op /\ f.write = v /\ f.pc = "wait" /\ f.ack = sendSequence + n
    BY <2>2 DEF Frame
  <2> HIDE DEF f, v
  <2>7. Extends(written, written', v) /\ Len(written') = sendSequence + n
    <3>1. Len(written') = sendSequence'
      BY <1>0 DEF StreamInv
    <3> QED
      BY <1>0, <2>1, <2>2, <2>3, <3>1, TakeExtends DEF Take, Advance
  <2>8. \A k \in 1..Len(written') : k <= Reach(f, got)
    BY <2>4, <2>6, <2>7 DEF Reach
  <2>9. Ok(calls', written', writes, succeeded)
    <3>1. CASE calls' = Returned
      BY <1>0, <1>00, <2>1, <2>7, <3>1, PopSends DEF Returned, Ok, Top, v
    <3>2. CASE calls' = WithTop(f)
      <4>1. f.op = calls[Len(calls)].op /\ f.write = calls[Len(calls)].write
        BY <2>6 DEF Top, v
      <4>2. f.op = "send" /\ v = f.write
        BY <2>1, <2>6
      <4> QED
        BY <1>0, <1>00, <2>1, <2>5, <2>7, <2>8, <3>2, <4>1, <4>2, ChangeSends DEF WithTop, Ok
    <3> QED
      BY <2>1, <3>1, <3>2
  <2>10. v \in 0..writes
    BY <1>0, <2>2
  <2> QED
    BY <1>13, <2>1, <2>2, <2>7, <2>9, <2>10
<1>15. CASE TcpClose
  <2> DEFINE f == [Top EXCEPT !.pc = "wait", !.ack = sendSequence + 1]
  <2>1. /\ calls # <<>> /\ Top.op = "close" /\ Take(0, 1)
        /\ UNCHANGED <<writes, succeeded, peerGot>>
        /\ calls' = WithTop(f)
    BY <1>15 DEF TcpClose, Running, Fin
  <2>2. Top \in Frame /\ sendSequence + 1 \in Nat
    <3>1. Top \in Frame
      BY <1>0, <2>1, TopType
    <3>2. sendSequence \in Nat
      BY <1>0 DEF TypeOK
    <3> QED
      BY <3>1, <3>2
  <2>3. f \in Frame
    BY <2>2, FrameChange
  <2>4. f.op = Top.op /\ f.write = Top.write
    BY <2>2 DEF Frame
  <2> HIDE DEF f
  <2>5. Extends(written, written', 0)
    <3>1. 0 \in 0..MaxWrites /\ 1 \in Nat
      BY SizeAssumption
    <3> QED
      BY <1>0, <2>1, <3>1, TakeExtends
  <2>6. f.op = calls[Len(calls)].op /\ f.write = calls[Len(calls)].write /\ f.op # "send"
    BY <2>1, <2>4 DEF Top
  <2>7. Ok(calls', written', writes, succeeded)
    BY <1>0, <1>00, <2>1, <2>3, <2>5, <2>6, ChangeSends DEF WithTop, Ok
  <2> QED
    BY <1>0, <1>00, <1>13, <2>1, <2>5, <2>7
<1> QED
  BY <1>4, <1>5, <1>6, <1>7, <1>8, <1>9, <1>10, <1>11, <1>12, <1>14, <1>15 DEF Next, Arrivals, Calls

LEMMA SuccessInit == Init => SuccessInv
<1> SUFFICES ASSUME Init PROVE SuccessInv
  OBVIOUS
<1>1. Len(<<>>) = 0 /\ DOMAIN <<>> = {}
  BY EmptySeq
<1> QED
  BY <1>1, StreamInit DEF Init, SuccessInv, SendsOK, SuccessMeansReceived

(* A call of TcpSendData returns 1 only when the peer has all its bytes.   *)
THEOREM SuccessIsReception == Spec => []SuccessMeansReceived
<1>1. Init => SuccessInv
  BY SuccessInit
<1>2. SuccessInv /\ [Next]_vars => SuccessInv'
  BY SuccessStep
<1>3. SuccessInv => SuccessMeansReceived
  BY DEF SuccessInv
<1> QED
  BY <1>1, <1>2, <1>3, PTL DEF Spec

-----------------------------------------------------------------------------
(***************************************************************************)
(* The opening of a connection.                                            *)
(***************************************************************************)
(* What is proved of TcpStream holds whichever side opens: every step is   *)
(* one of TcpStream's or leaves it alone.                                  *)
THEOREM OpensAStream == OpeningSpec => Spec
<1>1. OpeningInit => Init
  BY DEF OpeningInit
<1>2. [OpeningNext]_<<handshake, vars>> => [Next]_vars
  <2> SUFFICES ASSUME OpeningNext PROVE Next \/ UNCHANGED vars
    BY DEF vars
  <2>1. CASE \E n \in Isns : PeerConnects(n) \/ \E s \in segments : PeerAccepts(s, n)
    BY <2>1 DEF PeerConnects, PeerAccepts
  <2>2. CASE \E s \in segments : PeerEstablished(s) \/ NewConnection(s) \/ TcpConnectHit(s)
    BY <2>2 DEF PeerEstablished, NewConnection, TcpConnectHit
  <2>3. CASE \E p \in FromPeer : PeerConfirms(p)
    BY <2>3 DEF PeerConfirms, Next, Arrivals
  <2>4. CASE TcpConnect \/ TcpConnectExpired
    BY <2>4 DEF TcpConnect, TcpConnectExpired
  <2>5. CASE Stream
    BY <2>5 DEF Stream, Next
  <2> QED
    BY <2>1, <2>2, <2>3, <2>4, <2>5 DEF OpeningNext
<1> QED
  BY <1>1, <1>2, PTL DEF OpeningSpec, Spec

-----------------------------------------------------------------------------
(***************************************************************************)
(* The invariant.                                                          *)
(***************************************************************************)
Opened == opening \in {"SYN_RECEIVED", "ESTABLISHED"}

HandshakeType ==
  /\ opening \in {"NO_CONNECTION", "NEW", "SYN_RECEIVED", "ESTABLISHED"}
  /\ numbers \in [send : Nat, expected : Nat]
  /\ peer \in [state : {"LISTEN", "CLOSED", "SYN_SENT", "SYN_RECEIVED", "ESTABLISHED"},
               isn : Nat, expects : Nat]
  /\ segments \subseteq Segments

(* What the library has sent is still true of the slot. *)
SentIsTrue ==
  \A s \in segments : s.from = "avr" =>
    /\ s.flags = "SYN" => s.seq = 2
    /\ s.flags = "SYN|ACK" => Opened /\ s.seq = 2 /\ s.ack = numbers.expected
    /\ s.flags = "ACK" => opening = "ESTABLISHED" /\ s.ack = numbers.expected

(* So the peer is established on the numbers of the slot. *)
PeerKnows ==
  /\ peer.state = "ESTABLISHED" => Opened /\ numbers.expected = peer.isn + 1
  /\ peer.state \in {"SYN_RECEIVED", "ESTABLISHED"} => peer.expects = 3

SlotCounts ==
  /\ opening = "SYN_RECEIVED" => numbers.send = 2
  /\ opening \in {"NEW", "ESTABLISHED"} => numbers.send = 3
  /\ opening # "ESTABLISHED" => acks = {0}

OpeningInv == HandshakeType /\ SentIsTrue /\ PeerKnows /\ SlotCounts

LEMMA OpeningInvInit == OpeningInit => OpeningInv
  BY DEF OpeningInit, Init, OpeningInv, HandshakeType, SentIsTrue, PeerKnows, SlotCounts,
         Opened, Segments

LEMMA ConnectStep ==
  ASSUME OpeningInv, NEW n \in Isns, PeerConnects(n)
  PROVE  OpeningInv'
  BY IsnAssumption DEF OpeningInv, HandshakeType, SentIsTrue, PeerKnows, SlotCounts, Opened,
     Segments, PeerConnects, Sent, vars

LEMMA AcceptStep ==
  ASSUME OpeningInv, NEW n \in Isns, NEW s \in segments, PeerAccepts(s, n)
  PROVE  OpeningInv'
  BY IsnAssumption DEF OpeningInv, HandshakeType, SentIsTrue, PeerKnows, SlotCounts, Opened,
     Segments, PeerAccepts, Arrives, Sent, vars

LEMMA EstablishStep ==
  ASSUME OpeningInv, NEW s \in segments, PeerEstablished(s)
  PROVE  OpeningInv'
<1>1. /\ opening' = opening /\ numbers' = numbers /\ acks' = acks
      /\ segments' \subseteq segments
  BY DEF PeerEstablished, vars
<1>2. Opened /\ numbers.expected = s.ack /\ s.ack = peer.isn + 1
  BY DEF OpeningInv, SentIsTrue, PeerEstablished, Arrives, Opened
<1>3. CASE s.flags = "ACK" /\ s.seq = peer.expects /\ peer.state = "SYN_RECEIVED"
  <2>1. peer' = [peer EXCEPT !.state = "ESTABLISHED", !.expects = s.seq]
    BY <1>3 DEF PeerEstablished
  <2> QED
    BY <1>1, <1>2, <1>3, <2>1 DEF OpeningInv, HandshakeType, SentIsTrue, PeerKnows,
       SlotCounts, Opened
<1>4. CASE s.flags = "SYN|ACK"
  <2>1. s.seq = 2
    BY <1>4 DEF OpeningInv, SentIsTrue, PeerEstablished, Arrives
  <2>2. peer' = [peer EXCEPT !.state = "ESTABLISHED", !.expects = 3]
    BY <1>4, <2>1 DEF PeerEstablished
  <2> QED
    BY <1>1, <1>2, <2>2 DEF OpeningInv, HandshakeType, SentIsTrue, PeerKnows,
       SlotCounts, Opened
<1> QED
  BY <1>3, <1>4 DEF PeerEstablished, Arrives

LEMMA SlotSteps ==
  ASSUME OpeningInv, NEW s \in segments,
         NewConnection(s) \/ TcpConnectHit(s)
  PROVE  OpeningInv'
<1> USE DEF OpeningInv
<1>1. HandshakeType'
  BY DEF HandshakeType, NewConnection, TcpConnectHit, Sent, Segments, Arrives
<1>2. SentIsTrue'
  BY DEF HandshakeType, SentIsTrue, SlotCounts, NewConnection, TcpConnectHit, Sent,
         Segments, Arrives, Opened
<1>3. PeerKnows'
  BY DEF HandshakeType, PeerKnows, NewConnection, TcpConnectHit, Opened
<1>4. SlotCounts'
  BY DEF HandshakeType, SlotCounts, NewConnection, TcpConnectHit, vars
<1> QED
  BY <1>1, <1>2, <1>3, <1>4

LEMMA ConfirmStep ==
  ASSUME OpeningInv, NEW p \in FromPeer, PeerConfirms(p)
  PROVE  OpeningInv'
<1>1. p.ack = 0
  BY DEF OpeningInv, SlotCounts, PeerConfirms, Confirm, FromPeer
<1>2. /\ opening' = "ESTABLISHED" /\ segments' = {}
      /\ numbers' = [numbers EXCEPT !.send = peer.expects + p.ack]
      /\ peer' = peer /\ peer.state = "ESTABLISHED"
  BY DEF PeerConfirms, Confirm, Acknowledged
<1> QED
  BY <1>1, <1>2 DEF OpeningInv, HandshakeType, SentIsTrue, PeerKnows, SlotCounts, Opened

LEMMA CallSteps ==
  ASSUME OpeningInv, TcpConnect \/ TcpConnectExpired \/ Stream
  PROVE  OpeningInv'
<1>1. CASE TcpConnect
  BY <1>1 DEF OpeningInv, HandshakeType, SentIsTrue, PeerKnows, SlotCounts, Opened,
              Segments, TcpConnect, Sent, vars
<1>2. CASE TcpConnectExpired
  BY <1>2 DEF OpeningInv, HandshakeType, SentIsTrue, PeerKnows, SlotCounts, Opened,
              TcpConnectExpired, vars
<1>3. CASE Stream
  BY <1>3 DEF OpeningInv, HandshakeType, SentIsTrue, PeerKnows, SlotCounts, Opened,
              Stream, handshake
<1> QED
  BY <1>1, <1>2, <1>3

LEMMA OpeningInvNext ==
  ASSUME OpeningInv, [OpeningNext]_<<handshake, vars>>
  PROVE  OpeningInv'
<1>1. CASE UNCHANGED <<handshake, vars>>
  BY <1>1 DEF OpeningInv, HandshakeType, SentIsTrue, PeerKnows, SlotCounts, Opened,
              handshake, vars
<1>2. CASE OpeningNext
  BY <1>2, ConnectStep, AcceptStep, EstablishStep, SlotSteps, ConfirmStep, CallSteps
     DEF OpeningNext
<1> QED
  BY <1>1, <1>2

(* Whoever opens, and whatever is lost, repeated or tried again with other *)
(* numbers, both sides begin where the other expects it.                   *)
THEOREM BothSidesAgree == OpeningSpec => []NumbersAgree
<1>1. OpeningInv => NumbersAgree
  BY DEF OpeningInv, HandshakeType, PeerKnows, SlotCounts, NumbersAgree
<1> QED
  BY <1>1, OpeningInvInit, OpeningInvNext, PTL DEF OpeningSpec
=============================================================================
