----------------------------- MODULE HttpProofs -----------------------------
(***************************************************************************)
(* Theorems about Http: its types in general; for an application that      *)
(* makes no calls of HttpSendRequest, or whose calls have a slot that      *)
(* nobody else can get, that the listener is bound to a connection that    *)
(* lives, that no other is forgotten, and that a call is given its own     *)
(* response; and for one that makes no calls, that the listener answers    *)
(* each of its polite clients once and is an HttpListener.                 *)
(***************************************************************************)
EXTENDS Http, SequenceTheorems, WellFoundedInduction, TLAPS

(***************************************************************************)
(* The inductive invariant                                                 *)
(***************************************************************************)
(* A function that works on a slot nobody else touches. *)
Holder(f) == f.fn = "TcpClose" \/ (f.fn = "HttpSendRequest" /\ f.pc = "connect")
HeldAs(f) == IF f.fn = "TcpClose" THEN "DYEING" ELSE "NEW"

Frames == {f \in Frame :
  /\ f.fn = "TcpClose" => f.pc = "wait"
  /\ f.fn = "HttpOnIncomingRequest" => f.pc = "begin" /\ f.todo = <<>>
  /\ f.fn = "HttpSendResponse" => f.pc \in {"begin", "wait"}
  /\ f.fn \in {"HttpSendResponse", "HttpSendRequest"} /\ f.pc \in {"begin", "connect", "wait"} => f.todo # <<>>}

Holding(c, st) ==
  /\ \A k \in DOMAIN st :
       Holder(st[k]) => st[k].slot \in Slots /\ c[st[k].slot].state = HeldAs(st[k])
  /\ \A j, k \in DOMAIN st : Holder(st[j]) /\ Holder(st[k]) /\ st[j].slot = st[k].slot => j = k

States == {"NO_CONNECTION", "NEW", "SYN_RECEIVED", "ESTABLISHED", "DYEING"}
ConnOK(c) ==
  /\ c \in [Slots -> [state : States, id : Ids \cup {0}]]
  /\ \A s \in Slots : c[s].state # "NO_CONNECTION" => c[s].id \in Ids
StackOK(c, st) == st \in Seq(Frames) /\ Holding(c, st)

RequestOK == incomingRequestConnectionId \in Slots \cup {None} /\ incomingRequestState \in RequestStates
ResponseOK ==
  /\ incomingResponseConnectionId \in Slots \cup {None}
  /\ incomingResponseState \in {"WAITING", "PART", "END_MESSAGE"} /\ from \in Ids \cup {0}
RecordsOK ==
  /\ url \in {"nothing", "url", "status", "length"}
  /\ opened \in Nat /\ opened <= MaxClients + calls /\ calls \in 0..MaxCalls
  /\ segments \in [Ids -> 0..MaxSegments] /\ finished \subseteq Ids /\ handled \subseteq Ids
  /\ out \in [Ids -> Seq(Pieces)]
  /\ result \in [own : Ids \cup {0}, from : Ids \cup {0}]

General == ConnOK(conn) /\ StackOK(conn, stack) /\ RequestOK /\ ResponseOK /\ RecordsOK

-----------------------------------------------------------------------------
(* What is sent consists of pieces. *)
LEMMA Lists ==
  /\ \A a \in Answers \cup Requests : a \in Seq(Pieces) /\ a # <<>>
  /\ ErrorAnswer \in Answers
<1>1. ASSUME NEW x \in {"status", "row"}, NEW h \in {<<>>, <<"headers">>}, NEW d \in {<<>>, <<"data">>}
      PROVE  /\ <<x>> \o h \o <<"length">> \o d \in Seq(Pieces)
             /\ <<x>> \o h \o <<"length">> \o d # <<>>
  <2>0. x \in Pieces /\ "headers" \in Pieces /\ "length" \in Pieces /\ "data" \in Pieces
    BY DEF Pieces
  <2>1. /\ <<x>> \in Seq(Pieces) /\ h \in Seq(Pieces) /\ <<"length">> \in Seq(Pieces) /\ d \in Seq(Pieces)
        /\ Len(<<x>>) = 1
    <3>1. <<>> \in Seq(Pieces) /\ <<"headers">> \in Seq(Pieces) /\ <<"data">> \in Seq(Pieces)
      BY <2>0
    <3>2. <<x>> \in Seq(Pieces) /\ <<"length">> \in Seq(Pieces) /\ Len(<<x>>) = 1
      BY <2>0
    <3> QED BY <3>1, <3>2
  <2>2. <<x>> \o h \in Seq(Pieces) /\ Len(<<x>> \o h) > 0
    BY <2>1, ConcatProperties, LenProperties
  <2>3. <<x>> \o h \o <<"length">> \in Seq(Pieces) /\ Len(<<x>> \o h \o <<"length">>) > 0
    BY <2>1, <2>2, ConcatProperties, LenProperties
  <2>4. <<x>> \o h \o <<"length">> \o d \in Seq(Pieces) /\ Len(<<x>> \o h \o <<"length">> \o d) > 0
    BY <2>1, <2>3, ConcatProperties, LenProperties
  <2> QED BY <2>4
<1>2. ErrorAnswer = <<"status">> \o <<>> \o <<"length">> \o <<>>
  BY DEF ErrorAnswer
<1>3. ErrorAnswer \in Answers
  BY <1>2 DEF Answers
<1>4. ASSUME NEW a \in Answers PROVE a \in Seq(Pieces) /\ a # <<>>
  <2>1. PICK h \in {<<>>, <<"headers">>}, d \in {<<>>, <<"data">>} : a = <<"status">> \o h \o <<"length">> \o d
    BY <1>4 DEF Answers
  <2>2. "status" \in {"status", "row"}
    OBVIOUS
  <2> QED BY <1>1, <2>1, <2>2, Zenon
<1>5. ASSUME NEW a \in Requests PROVE a \in Seq(Pieces) /\ a # <<>>
  <2>1. PICK h \in {<<>>, <<"headers">>}, d \in {<<>>, <<"data">>} : a = <<"row">> \o h \o <<"length">> \o d
    BY <1>5 DEF Requests
  <2>2. "row" \in {"status", "row"}
    OBVIOUS
  <2> QED BY <1>1, <2>1, <2>2, Zenon
<1> QED BY <1>3, <1>4, <1>5

LEMMA Least == ASSUME NEW T \in SUBSET Nat, T # {} PROVE \E x \in T : \A y \in T : x <= y
<1>1. PICK x \in T : \A y \in T : ~(<<y, x>> \in OpToRel(<, Nat))
  BY NatLessThanWellFounded, WFMin
<1>2. \A y \in T : ~(y < x)
  BY <1>1 DEF OpToRel
<1> QED BY <1>2

LEMMA FirstIsEmpty == EmptySlots # {} => FirstEmpty \in Slots /\ conn[FirstEmpty].state = "NO_CONNECTION"
<1> SUFFICES ASSUME EmptySlots # {} PROVE FirstEmpty \in EmptySlots
  BY DEF EmptySlots
<1>1. EmptySlots \in SUBSET Nat
  BY SizeAssumption DEF EmptySlots, Slots, None
<1>2. \E s \in EmptySlots : \A r \in EmptySlots : s <= r
  BY <1>1, Least
<1> QED BY <1>2 DEF FirstEmpty

(***************************************************************************)
(* Stacks                                                                  *)
(***************************************************************************)
LEMMA TopAndBelow ==
  ASSUME NEW c, NEW st, StackOK(c, st), st # <<>>
  PROVE  /\ Len(st) \in Nat /\ Len(st) > 0 /\ DOMAIN st = 1..Len(st)
         /\ Last(st) = st[Len(st)] /\ Last(st) \in Frames
         /\ Front(st) \in Seq(Frames) /\ Len(Front(st)) = Len(st) - 1
         /\ \A k \in 1..(Len(st) - 1) : Front(st)[k] = st[k]
         /\ StackOK(c, Front(st))
<1>1. st \in Seq(Frames) /\ Len(st) \in Nat /\ Len(st) > 0 /\ DOMAIN st = 1..Len(st)
  BY EmptySeq, LenProperties DEF StackOK
<1>2. Last(st) = st[Len(st)] /\ Last(st) \in Frames
  BY <1>1, ElementOfSeq DEF Last
<1>3. /\ Front(st) \in Seq(Frames) /\ Len(Front(st)) = Len(st) - 1
      /\ \A k \in 1..(Len(st) - 1) : Front(st)[k] = st[k]
  BY <1>1, SubSeqProperties DEF Front
<1>4. Holding(c, Front(st))
  <2>1. DOMAIN Front(st) = 1..(Len(st) - 1)
    BY <1>3, LenProperties
  <2>2. \A k \in DOMAIN Front(st) : k \in DOMAIN st /\ Front(st)[k] = st[k]
    BY <1>1, <1>3, <2>1
  <2> QED BY <2>2 DEF StackOK, Holding
<1> QED BY <1>1, <1>2, <1>3, <1>4 DEF StackOK

LEMMA Pushed ==
  ASSUME NEW st \in Seq(Frames), NEW f \in Frames
  PROVE  /\ Append(st, f) \in Seq(Frames) /\ Append(st, f) # <<>>
         /\ Len(st) \in Nat /\ Len(Append(st, f)) = Len(st) + 1
         /\ DOMAIN st = 1..Len(st) /\ DOMAIN Append(st, f) = 1..(Len(st) + 1)
         /\ Append(st, f)[Len(st) + 1] = f
         /\ \A k \in 1..Len(st) : Append(st, f)[k] = st[k]
<1>1. /\ Append(st, f) \in Seq(Frames) /\ Len(Append(st, f)) = Len(st) + 1
      /\ Append(st, f)[Len(st) + 1] = f /\ \A k \in 1..Len(st) : Append(st, f)[k] = st[k]
  BY AppendProperties
<1> QED BY <1>1, LenProperties, EmptySeq

(* A function is called that has no slot to itself, *)
LEMMA PushOK ==
  ASSUME NEW c, NEW st, StackOK(c, st), NEW f \in Frames, ~Holder(f)
  PROVE  StackOK(c, Append(st, f))
<1>1. st \in Seq(Frames)
  BY DEF StackOK
<1> DEFINE t == Append(st, f)
<1>2. /\ t \in Seq(Frames) /\ Len(st) \in Nat /\ DOMAIN st = 1..Len(st) /\ DOMAIN t = 1..(Len(st) + 1)
      /\ t[Len(st) + 1] = f /\ \A k \in 1..Len(st) : t[k] = st[k]
  BY <1>1, Pushed
<1> HIDE DEF t
<1>3. \A k \in DOMAIN t : Holder(t[k]) => k \in DOMAIN st /\ t[k] = st[k]
  BY <1>2
<1>4. Holding(c, t)
  BY <1>3 DEF StackOK, Holding
<1> QED BY <1>2, <1>4 DEF StackOK, t

(* or one that takes a slot that nobody has. *)
LEMMA PushHolder ==
  ASSUME NEW c, NEW st, StackOK(c, st), NEW f \in Frames, Holder(f), f.slot \in Slots,
         c[f.slot].state \notin {"DYEING", "NEW"},
         NEW d, d[f.slot].state = HeldAs(f), \A s \in Slots \ {f.slot} : d[s] = c[s]
  PROVE  StackOK(d, Append(st, f))
<1>1. st \in Seq(Frames)
  BY DEF StackOK
<1> DEFINE t == Append(st, f)
<1>2. /\ t \in Seq(Frames) /\ Len(st) \in Nat /\ DOMAIN st = 1..Len(st) /\ DOMAIN t = 1..(Len(st) + 1)
      /\ t[Len(st) + 1] = f /\ \A k \in 1..Len(st) : t[k] = st[k]
  BY <1>1, Pushed
<1> HIDE DEF t
<1>3. \A k \in DOMAIN st : Holder(st[k]) =>
        st[k].slot \in Slots \ {f.slot} /\ c[st[k].slot].state = HeldAs(st[k])
  BY DEF StackOK, Holding, HeldAs
<1>4. \A k \in DOMAIN t : k = Len(st) + 1 \/ (k \in DOMAIN st /\ t[k] = st[k])
  BY <1>2
<1>5. ASSUME NEW k \in DOMAIN t, Holder(t[k])
      PROVE  t[k].slot \in Slots /\ d[t[k].slot].state = HeldAs(t[k])
  BY <1>2, <1>3, <1>4, <1>5
<1>6. ASSUME NEW j \in DOMAIN t, NEW k \in DOMAIN t, Holder(t[j]), Holder(t[k]), t[j].slot = t[k].slot
      PROVE  j = k
  BY <1>2, <1>3, <1>4, <1>6 DEF StackOK, Holding
<1>7. Holding(d, t)
  BY <1>5, <1>6 DEF Holding
<1> QED BY <1>2, <1>7 DEF StackOK, t

(* Another slot changes. *)
LEMMA TableOK ==
  ASSUME NEW c, NEW st, StackOK(c, st), NEW r \in Slots, c[r].state \notin {"DYEING", "NEW"},
         NEW d, \A s \in Slots \ {r} : d[s] = c[s]
  PROVE  StackOK(d, st)
<1>1. \A k \in DOMAIN st : Holder(st[k]) => st[k].slot \in Slots \ {r}
  BY DEF StackOK, Holding, HeldAs
<1> QED BY <1>1 DEF StackOK, Holding

(* A slot is released by the one that has it. *)
LEMMA Released ==
  ASSUME NEW c, NEW st, StackOK(c, st), st # <<>>, Holder(Last(st)),
         NEW d, \A s \in Slots \ {Last(st).slot} : d[s] = c[s]
  PROVE  StackOK(d, Front(st)) /\ Last(st).slot \in Slots
<1>1. /\ Len(st) \in Nat /\ Len(st) > 0 /\ DOMAIN st = 1..Len(st)
      /\ Last(st) = st[Len(st)] /\ Front(st) \in Seq(Frames) /\ Len(Front(st)) = Len(st) - 1
      /\ \A k \in 1..(Len(st) - 1) : Front(st)[k] = st[k]
      /\ StackOK(c, Front(st))
  BY TopAndBelow
<1>2. DOMAIN Front(st) = 1..(Len(st) - 1)
  BY <1>1, LenProperties
<1>3. \A k \in DOMAIN Front(st) : k \in DOMAIN st /\ k # Len(st) /\ Front(st)[k] = st[k]
  BY <1>1, <1>2
<1>4. Len(st) \in DOMAIN st
  BY <1>1
<1>5. \A k \in DOMAIN Front(st) : Holder(Front(st)[k]) => Front(st)[k].slot # Last(st).slot
  BY <1>1, <1>3, <1>4 DEF StackOK, Holding
<1>6. Holding(d, Front(st))
  BY <1>1, <1>5 DEF StackOK, Holding
<1>7. Last(st).slot \in Slots
  BY <1>1, <1>4 DEF StackOK, Holding
<1> QED BY <1>1, <1>6, <1>7 DEF StackOK

(***************************************************************************)
(* Types                                                                   *)
(***************************************************************************)
Typed == ConnOK(conn) /\ StackOK(conn, stack) /\ RequestOK

LEMMA Sizes ==
  /\ MaxClients \in Nat /\ MaxSegments \in Nat /\ MaxCalls \in Nat /\ MaxDepth \in Nat
  /\ MaxConnections \in Nat /\ None \notin Slots /\ Slots \subseteq Nat /\ Ids \subseteq Nat /\ 0 \notin Ids
<1>1. {MaxClients, MaxSegments, MaxCalls, MaxDepth} \subseteq Nat /\ MaxConnections \in 1..255
  BY SizeAssumption DEF None
<1> QED BY <1>1 DEF Slots, None, Ids

(* What is called for a slot. *)
LEMMA CallOK ==
  ASSUME ConnOK(conn), NEW s \in Slots \cup {None}, NEW todo \in Seq(Pieces), todo # <<>>
  PROVE  /\ Call("TcpClose", "wait", s, <<>>) \in Frames
         /\ Call("HttpOnIncomingRequest", "begin", s, <<>>) \in Frames
         /\ Call("HttpSendResponse", "begin", s, todo) \in Frames
         /\ Call("HttpSendRequest", "connect", s, todo) \in Frames
<1>1. (IF s = None THEN 0 ELSE conn[s].id) \in Ids \cup {0}
  BY DEF ConnOK
<1>2. <<>> \in Seq(Pieces)
  OBVIOUS
<1> QED BY <1>1, <1>2 DEF Call, Frame, Frames

(* The fields of a function in progress. *)
LEMMA Fields ==
  ASSUME NEW f \in Frames
  PROVE  /\ f \in Frame /\ f.slot \in Slots \cup {None} /\ f.id \in Ids \cup {0} /\ f.todo \in Seq(Pieces)
         /\ f.hit \in BOOLEAN
         /\ f.fn = "TcpClose" => f.pc = "wait"
         /\ f.fn = "HttpOnIncomingRequest" => f.pc = "begin" /\ f.todo = <<>>
         /\ f.fn = "HttpSendResponse" => f.pc \in {"begin", "wait"}
         /\ f.fn \in {"HttpSendResponse", "HttpSendRequest"} /\ f.pc \in {"begin", "connect", "wait"}
              => f.todo # <<>>
BY DEF Frames, Frame

LEMMA FreeOK == Free \in [state : States, id : Ids \cup {0}] /\ Free.state = "NO_CONNECTION"
BY DEF Free, States

LEMMA DiesOK ==
  ASSUME ConnOK(conn), RequestOK, NEW s \in Slots, conn[s].state = "ESTABLISHED",
         NEW st, StackOK(conn, st), Dies(s, st)
  PROVE  /\ Typed'
         /\ conn' = [conn EXCEPT ![s].state = "DYEING"]
         /\ conn'[s].state = "DYEING" /\ conn'[s].id = conn[s].id
         /\ \A r \in Slots \ {s} : conn'[r] = conn[r]
<1> DEFINE f == Call("TcpClose", "wait", s, <<>>)
<1>1. f.fn = "TcpClose" /\ f.slot = s
  BY DEF Call
<1>2. f \in Frames /\ Holder(f) /\ HeldAs(f) = "DYEING"
  BY <1>1, CallOK, Lists DEF Holder, HeldAs
<1>3. conn' = [conn EXCEPT ![s].state = "DYEING"] /\ stack' = Append(st, f)
  BY DEF Dies
<1> HIDE DEF f
<1>4. /\ conn'[s].state = "DYEING" /\ conn'[s].id = conn[s].id
      /\ \A r \in Slots \ {s} : conn'[r] = conn[r]
  BY <1>3 DEF ConnOK
<1>5. ConnOK(conn')
  BY <1>3 DEF ConnOK, States
<1>6. StackOK(conn', stack')
  <2>1. /\ f.slot \in Slots /\ conn[f.slot].state \notin {"DYEING", "NEW"}
        /\ conn'[f.slot].state = HeldAs(f) /\ \A r \in Slots \ {f.slot} : conn'[r] = conn[r]
    BY <1>1, <1>2, <1>4
  <2> QED BY <1>2, <1>3, <2>1, PushHolder
<1>7. RequestOK'
  BY DEF Dies, HttpTcpOnDisconnect, request, RequestOK, RequestStates
<1> QED BY <1>3, <1>4, <1>5, <1>6, <1>7 DEF Typed

LEMMA DisconnectOK ==
  ASSUME ConnOK(conn), RequestOK, NEW s \in Slots \cup {None}, NEW st, StackOK(conn, st),
         TcpDisconnect(s, st)
  PROVE  Typed'
<1>1. CASE Established(s)
  <2>1. s \in Slots /\ conn[s].state = "ESTABLISHED" /\ Dies(s, st)
    BY <1>1 DEF Established, TcpDisconnect
  <2> QED BY <2>1, DiesOK
<1>2. CASE ~Established(s)
  <2>1. UNCHANGED <<conn, request>> /\ stack' = st
    BY <1>2 DEF TcpDisconnect
  <2> QED BY <2>1 DEF Typed, request, RequestOK
<1> QED BY <1>1, <1>2

(* The function on top goes on. *)
LEMMA GoesOn ==
  ASSUME NEW c, StackOK(c, stack), stack # <<>>, ~Holder(Top), NEW f \in Frames, ~Holder(f)
  PROVE  StackOK(c, WithTop(f))
BY TopAndBelow, PushOK DEF WithTop, Below

(* A change of an awaited segment's flag, or nothing. *)
LEMMA ReturningOK ==
  ASSUME NEW c, StackOK(c, stack), NEW s, NEW st \in Returning(s)
  PROVE  StackOK(c, st)
<1>1. CASE st = stack
  BY <1>1
<1>2. CASE Awaits(s) /\ st = WithTop([Top EXCEPT !.hit = TRUE])
  <2>1. stack # <<>> /\ Top \in Frames /\ Top.fn \in {"HttpSendResponse", "HttpSendRequest"}
        /\ Top.pc \in {"wait", "receiving"}
    BY <1>2, TopAndBelow DEF Awaits, Top
  <2>2. [Top EXCEPT !.hit = TRUE] \in Frames /\ ~Holder(Top) /\ ~Holder([Top EXCEPT !.hit = TRUE])
    BY <2>1 DEF Frames, Frame, Holder
  <2> QED BY <1>2, <2>1, <2>2, GoesOn
<1> QED BY <1>1, <1>2 DEF Returning

LEMMA TopOK ==
  ASSUME General, stack # <<>>
  PROVE  /\ Top \in Frames /\ StackOK(conn, Below) /\ ConnOK(conn) /\ RequestOK
         /\ Top.slot \in Slots \cup {None}
BY TopAndBelow, Fields DEF General, Top, Below

(***************************************************************************)
(* One lemma for each kind of step                                         *)
(***************************************************************************)
LEMMA CloseTyped == ASSUME General, TcpCloseEnds PROVE General'
<1>1. stack # <<>> /\ Top.fn = "TcpClose" /\ Holder(Top)
  BY DEF TcpCloseEnds, Running, Holder
<1>2. conn' = [conn EXCEPT ![Top.slot] = Free] /\ stack' = Below
  BY DEF TcpCloseEnds
<1>3. ConnOK(conn')
  BY <1>2, FreeOK DEF General, ConnOK
<1>4. \A r \in Slots \ {Top.slot} : conn'[r] = conn[r]
  BY <1>2 DEF General, ConnOK
<1>5. StackOK(conn', stack')
  BY <1>1, <1>2, <1>4, Released DEF General, Top, Below
<1>6. UNCHANGED <<request, response, url, peers, handled, out, calls, result>>
  BY DEF TcpCloseEnds
<1> QED BY <1>3, <1>5, <1>6 DEF General, request, response, peers, RequestOK, ResponseOK, RecordsOK

LEMMA NetworkTyped ==
  ASSUME General, Syn \/ \E s \in Slots : Ack(s) \/ Fin(s) PROVE General'
<1>1. CASE Syn
  <2> DEFINE r == FirstEmpty
  <2>1. r \in Slots /\ conn[r].state = "NO_CONNECTION"
    BY <1>1, FirstIsEmpty DEF Syn
  <2>2. /\ conn' = [conn EXCEPT ![r] = [state |-> "SYN_RECEIVED", id |-> opened + 1]]
        /\ opened' = opened + 1 /\ opened - calls < MaxClients
        /\ incomingRequestConnectionId' = r /\ incomingRequestState' = "START_REQUEST"
        /\ UNCHANGED <<response, url, stack, segments, finished, handled, out, calls, result>>
    BY <1>1 DEF Syn
  <2> HIDE DEF r
  <2>3. opened + 1 \in Ids /\ opened + 1 <= MaxClients + calls /\ opened + 1 \in Nat
    BY <2>2, Sizes DEF General, RecordsOK, Ids
  <2>4. ConnOK(conn')
    BY <2>1, <2>2, <2>3 DEF General, ConnOK, States
  <2>5. StackOK(conn', stack')
    <3>1. \A s \in Slots \ {r} : conn'[s] = conn[s]
      BY <2>2 DEF General, ConnOK
    <3> QED BY <2>1, <2>2, <3>1, TableOK DEF General
  <2>6. RequestOK'
    BY <2>1, <2>2 DEF RequestOK, RequestStates
  <2> QED BY <2>2, <2>3, <2>4, <2>5, <2>6 DEF General, response, ResponseOK, RecordsOK
<1>2. ASSUME NEW s \in Slots, Ack(s) PROVE General'
  <2>1. /\ conn[s].state = "SYN_RECEIVED" /\ conn' = [conn EXCEPT ![s].state = "ESTABLISHED"]
        /\ UNCHANGED <<request, response, url, stack, peers, handled, out, calls, result>>
    BY <1>2 DEF Ack
  <2>2. ConnOK(conn')
    BY <2>1 DEF General, ConnOK, States
  <2>3. StackOK(conn', stack')
    <3>1. \A r \in Slots \ {s} : conn'[r] = conn[r]
      BY <2>1 DEF General, ConnOK
    <3> QED BY <2>1, <3>1, TableOK DEF General
  <2> QED BY <2>1, <2>2, <2>3 DEF General, request, response, peers, RequestOK, ResponseOK, RecordsOK
<1>3. ASSUME NEW s \in Slots, Fin(s) PROVE General'
  <2>1. PICK stk \in Returning(s) : Dies(s, stk)
    BY <1>3 DEF Fin
  <2>2. conn[s].state = "ESTABLISHED" /\ UNCHANGED <<response, url, peers, handled, out, calls, result>>
    BY <1>3 DEF Fin, Established
  <2>3. Typed'
    BY <2>1, <2>2, ReturningOK, DiesOK DEF General
  <2> QED BY <2>2, <2>3 DEF General, Typed, response, peers, ResponseOK, RecordsOK
<1> QED BY <1>1, <1>2, <1>3

LEMMA DataTyped ==
  ASSUME General, NEW s \in Slots, NEW parsed \in {"part", "rest", "error"}, Data(s, parsed)
  PROVE  General'
<1>1. PICK stk \in Returning(s) : HttpTcpOnIncomingData(s, parsed, stk)
  BY DEF Data
<1>2. StackOK(conn, stk) /\ ConnOK(conn) /\ RequestOK
  BY <1>1, ReturningOK DEF General
<1>3. conn[s].state = "ESTABLISHED" /\ conn[s].id \in Ids
  BY DEF Data, Established, General, ConnOK
<1>4. /\ opened' = opened /\ calls' = calls
      /\ segments' \in [Ids -> 0..MaxSegments] /\ finished' \subseteq Ids /\ out' \in [Ids -> Seq(Pieces)]
      /\ result' \in [own : Ids \cup {0}, from : Ids \cup {0}]
  <2>1. segments[conn[s].id] < MaxSegments /\ segments' = [segments EXCEPT ![conn[s].id] = @ + 1]
        /\ finished' \in {finished, finished \cup {conn[s].id}}
        /\ UNCHANGED <<opened, out, calls, result>>
    BY DEF Data
  <2>2. segments[conn[s].id] + 1 \in 0..MaxSegments
    <3>1. segments[conn[s].id] \in 0..MaxSegments
      BY <1>3 DEF General, RecordsOK
    <3> QED BY <2>1, <3>1, Sizes
  <2> QED BY <1>3, <2>1, <2>2 DEF General, RecordsOK
<1>5. Typed' /\ ResponseOK' /\ url' \in {"nothing", "url", "status", "length"} /\ handled' \subseteq Ids
  <2>1. CASE s = incomingResponseConnectionId
    <3>1. HttpParseResponse(s, parsed, stk)
      BY <1>1, <2>1 DEF HttpTcpOnIncomingData
    <3>2. /\ UNCHANGED <<incomingResponseConnectionId, url, handled>>
          /\ incomingResponseState' \in {"PART", "END_MESSAGE", incomingResponseState}
          /\ from' \in {from, conn[s].id}
      BY <3>1 DEF HttpParseResponse
    <3>3. TcpDisconnect(s, stk) \/ (UNCHANGED <<conn, request>> /\ stack' = stk)
      BY <3>1 DEF HttpParseResponse
    <3>4. Typed'
      BY <1>2, <3>3, DisconnectOK DEF Typed, request, RequestOK
    <3> QED BY <1>3, <3>2, <3>4 DEF General, ResponseOK, RecordsOK
  <2>2. CASE s # incomingResponseConnectionId /\ s = incomingRequestConnectionId
    <3>1. HttpParseRequest(s, parsed, stk)
      BY <1>1, <2>2 DEF HttpTcpOnIncomingData
    <3> DEFINE answer == Call("HttpSendResponse", "begin", s, ErrorAnswer)
               callback == Call("HttpOnIncomingRequest", "begin", s, <<>>)
    <3>2. /\ url' = "url" /\ UNCHANGED <<conn, incomingRequestConnectionId, response>>
          /\ handled' \in {handled, handled \cup {conn[s].id}}
          /\ incomingRequestState' \in RequestStates
          /\ stack' \in {stk, Append(stk, answer), Append(stk, callback)}
      BY <3>1 DEF HttpParseRequest, RequestStates
    <3>3. answer \in Frames /\ callback \in Frames
      <4>1. ErrorAnswer \in Seq(Pieces) /\ ErrorAnswer # <<>>
        BY Lists
      <4> QED BY <1>2, <4>1, CallOK
    <3>4. ~Holder(answer) /\ ~Holder(callback)
      BY DEF Call, Holder
    <3> HIDE DEF answer, callback
    <3>5. StackOK(conn, stack')
      BY <1>2, <3>2, <3>3, <3>4, PushOK
    <3> QED BY <1>2, <1>3, <3>2, <3>5 DEF General, Typed, RequestOK, response, ResponseOK, RecordsOK
  <2>3. CASE s # incomingResponseConnectionId /\ s # incomingRequestConnectionId
    <3>1. stack' = stk /\ UNCHANGED <<conn, request, response, url, handled>>
      BY <1>1, <2>3 DEF HttpTcpOnIncomingData
    <3> QED BY <1>2, <3>1 DEF General, Typed, RequestOK, request, response, ResponseOK, RecordsOK
  <2> QED BY <2>1, <2>2, <2>3
<1> QED BY <1>4, <1>5 DEF General, Typed, RecordsOK

(* Only the function on top changes. *)
LEMMA TopChanges ==
  ASSUME General, stack # <<>>, ~Holder(Top), NEW f \in Frames, ~Holder(f), stack' = WithTop(f),
         UNCHANGED <<request, response, conn, peers, handled, calls, result>>,
         url' \in {"nothing", "url", "status", "length"}, out' \in [Ids -> Seq(Pieces)]
  PROVE  General'
<1>1. StackOK(conn', stack') /\ ConnOK(conn')
  <2>1. StackOK(conn, WithTop(f)) /\ ConnOK(conn)
    BY GoesOn DEF General
  <2> QED BY <2>1
<1> QED BY <1>1 DEF General, request, response, peers, RequestOK, ResponseOK, RecordsOK

(* The function on top ends, and may disconnect its slot. *)
LEMMA TopDisconnects ==
  ASSUME General, NEW st, StackOK(conn, st), NEW s \in Slots \cup {None}, TcpDisconnect(s, st),
         UNCHANGED <<response, url, peers, handled, out, calls, result>>
  PROVE  General'
<1>1. Typed'
  BY DisconnectOK DEF General
<1> QED BY <1>1 DEF General, Typed, response, peers, ResponseOK, RecordsOK

(* What a piece is sent from. *)
LEMMA HeadTail ==
  ASSUME NEW f \in Frames, f.todo # <<>>
  PROVE  /\ Head(f.todo) \in Pieces /\ Tail(f.todo) \in Seq(Pieces)
         /\ More(f.todo) => Tail(f.todo) # <<>>
<1>1. f.todo \in Seq(Pieces)
  BY Fields
<1>2. Head(f.todo) \in Pieces /\ Tail(f.todo) \in Seq(Pieces) /\ Len(Tail(f.todo)) = Len(f.todo) - 1
  BY <1>1, HeadTailProperties
<1>3. Len(f.todo) \in Nat
  BY <1>1, LenProperties
<1>4. More(f.todo) => Len(Tail(f.todo)) # 0
  <2>1. \A n \in Nat : n > 1 => n - 1 # 0
    OBVIOUS
  <2> QED BY <1>2, <1>3, <2>1, Zenon DEF More
<1> QED BY <1>2, <1>4, EmptySeq

LEMMA AnsweringTyped == ASSUME General, Answering PROVE General'
<1>1. CASE SendPiece
  <2>1. Running("HttpSendResponse", "begin") /\ stack # <<>> /\ Top \in Frames /\ ~Holder(Top) /\ Top.todo # <<>>
    BY <1>1, TopOK, Fields DEF SendPiece, Running, Holder
  <2>2. /\ url' = Rewritten(Head(Top.todo))
        /\ UNCHANGED <<request, response, conn, peers, handled, calls, result>>
    BY <1>1 DEF SendPiece
  <2>3. url' \in {"nothing", "url", "status", "length"}
    BY <2>2 DEF Rewritten, General, RecordsOK
  <2>4. CASE Established(Top.slot)
    <3>1. /\ out' = [out EXCEPT ![conn[Top.slot].id] = Append(@, Head(Top.todo))]
          /\ stack' = WithTop([Top EXCEPT !.pc = "wait"])
      BY <1>1, <2>4 DEF SendPiece
    <3>2. [Top EXCEPT !.pc = "wait"] \in Frames /\ ~Holder([Top EXCEPT !.pc = "wait"])
      BY <2>1 DEF Frames, Frame, Holder, Running
    <3>3. conn[Top.slot].id \in Ids
      BY <2>1, <2>4, TopOK DEF Established, ConnOK
    <3>4. out' \in [Ids -> Seq(Pieces)]
      <4>1. Append(out[conn[Top.slot].id], Head(Top.todo)) \in Seq(Pieces)
        BY <2>1, <3>3, HeadTail, AppendProperties DEF General, RecordsOK
      <4> QED BY <3>1, <3>3, <4>1 DEF General, RecordsOK
    <3> QED BY <2>1, <2>2, <2>3, <3>1, <3>2, <3>4, TopChanges
  <2>5. CASE ~Established(Top.slot)
    <3>1. stack' = Below /\ UNCHANGED out
      BY <1>1, <2>5 DEF SendPiece
    <3>2. StackOK(conn', stack') /\ ConnOK(conn')
      BY <2>1, <2>2, <3>1, TopOK
    <3> QED BY <2>2, <2>3, <3>1, <3>2
            DEF General, request, response, peers, RequestOK, ResponseOK, RecordsOK
  <2> QED BY <2>4, <2>5
<1>2. CASE TooLong \/ PieceFails
  BY <1>2, TopOK, TopDisconnects DEF TooLong, PieceFails, Running
<1>3. CASE PieceSent
  <2>1. /\ Running("HttpSendResponse", "wait") /\ stack # <<>> /\ Top \in Frames /\ ~Holder(Top)
        /\ Top.todo # <<>>
    BY <1>3, TopOK, Fields DEF PieceSent, Running, Holder
  <2>2. UNCHANGED <<response, url, peers, handled, out, calls, result>>
    BY <1>3 DEF PieceSent
  <2>3. CASE More(Top.todo)
    <3> DEFINE f == [Top EXCEPT !.pc = "begin", !.todo = Tail(@), !.hit = FALSE]
    <3>1. stack' = WithTop(f) /\ UNCHANGED <<conn, request>>
      BY <1>3, <2>3 DEF PieceSent
    <3>2. f \in Frames /\ ~Holder(f)
      <4>1. Tail(Top.todo) \in Seq(Pieces) /\ Tail(Top.todo) # <<>>
        BY <2>1, <2>3, HeadTail
      <4> QED BY <2>1, <4>1 DEF Frames, Frame, Holder, Running
    <3> HIDE DEF f
    <3>3. url' \in {"nothing", "url", "status", "length"} /\ out' \in [Ids -> Seq(Pieces)]
      BY <2>2 DEF General, RecordsOK
    <3> QED BY <2>1, <2>2, <3>1, <3>2, <3>3, TopChanges
  <2>4. CASE ~More(Top.todo)
    <3>1. TcpDisconnect(Top.slot, Below)
      BY <1>3, <2>4 DEF PieceSent
    <3> QED BY <2>1, <2>2, <3>1, TopOK, TopDisconnects
  <2> QED BY <2>3, <2>4
<1>4. CASE HttpSendResponse
  <2>1. /\ incomingRequestState' = "START_REQUEST"
        /\ UNCHANGED <<incomingRequestConnectionId, response, url, conn, peers, handled, out, calls, result>>
    BY <1>4 DEF HttpSendResponse
  <2>2. PICK todo \in Answers :
          stack' = Append(stack, Call("HttpSendResponse", "begin", incomingRequestConnectionId, todo))
    BY <1>4 DEF HttpSendResponse
  <2> DEFINE f == Call("HttpSendResponse", "begin", incomingRequestConnectionId, todo)
  <2>3. f \in Frames /\ ~Holder(f)
    <3>1. f \in Frames
      BY Lists, CallOK DEF General, RequestOK
    <3>2. ~Holder(f)
      BY DEF Call, Holder
    <3> QED BY <3>1, <3>2
  <2> HIDE DEF f
  <2>4. StackOK(conn, stack')
    <3>1. stack' = Append(stack, f)
      BY <2>2 DEF f
    <3> QED BY <2>3, <3>1, PushOK DEF General
  <2> QED BY <2>1, <2>4 DEF General, response, peers, RequestOK, RequestStates, ResponseOK, RecordsOK
<1>5. CASE CallbackReturns
  <2>1. stack # <<>> /\ UNCHANGED <<response, url, peers, handled, out, calls, result>>
    BY <1>5 DEF CallbackReturns, InCallback, Running
  <2>2. CASE incomingRequestState = "REQUEST_HANDLING"
    <3>1. TcpDisconnect(Top.slot, Below)
      BY <1>5, <2>2 DEF CallbackReturns
    <3> QED BY <2>1, <3>1, TopOK, TopDisconnects
  <2>3. CASE incomingRequestState # "REQUEST_HANDLING"
    <3>1. stack' = Below /\ UNCHANGED <<conn, request>>
      BY <1>5, <2>3 DEF CallbackReturns
    <3>2. StackOK(conn', stack') /\ ConnOK(conn')
      BY <2>1, <3>1, TopOK
    <3> QED BY <2>1, <3>1, <3>2
            DEF General, request, response, peers, RequestOK, ResponseOK, RecordsOK
  <2> QED BY <2>2, <2>3
<1> QED BY <1>1, <1>2, <1>3, <1>4, <1>5 DEF Answering

LEMMA CallTyped == ASSUME General, HttpSendRequest \/ NoSlot PROVE General'
<1>1. CASE HttpSendRequest
  <2> DEFINE r == FirstEmpty
  <2>1. r \in Slots /\ conn[r].state = "NO_CONNECTION"
    BY <1>1, FirstIsEmpty DEF HttpSendRequest
  <2>2. /\ calls < MaxCalls /\ calls' = calls + 1 /\ opened' = opened + 1 /\ NoResponse
        /\ conn' = [conn EXCEPT ![r] = [state |-> "NEW", id |-> opened + 1]]
        /\ UNCHANGED <<incomingResponseConnectionId, request, url, segments, finished, handled, out, result>>
    BY <1>1 DEF HttpSendRequest, MayCall
  <2>3. PICK todo \in Requests :
          stack' = Append(stack, [Call("HttpSendRequest", "connect", r, todo) EXCEPT !.id = opened + 1])
    BY <1>1 DEF HttpSendRequest
  <2> DEFINE c == Call("HttpSendRequest", "connect", r, todo)
             f == [c EXCEPT !.id = opened + 1]
  <2>4. opened + 1 \in Ids /\ opened + 1 <= MaxClients + (calls + 1) /\ opened + 1 \in Nat /\ calls + 1 \in 0..MaxCalls
    BY <2>2, Sizes DEF General, RecordsOK, Ids
  <2> HIDE DEF r
  <2>5. c \in Frames
    BY <2>1, Lists, CallOK DEF General
  <2>6. c.fn = "HttpSendRequest" /\ c.pc = "connect" /\ c.slot = r
    BY DEF Call
  <2> HIDE DEF c
  <2>7. f \in Frames /\ f.fn = "HttpSendRequest" /\ f.pc = "connect" /\ f.slot = r
    BY <2>4, <2>5, <2>6 DEF Frames, Frame
  <2>8. stack' = Append(stack, f)
    BY <2>3 DEF c
  <2> HIDE DEF f
  <2>9. ConnOK(conn')
    BY <2>1, <2>2, <2>4 DEF General, ConnOK, States
  <2>10. StackOK(conn', stack')
    <3>1. /\ f.slot \in Slots /\ conn[f.slot].state \notin {"DYEING", "NEW"} /\ Holder(f)
          /\ conn'[f.slot].state = HeldAs(f) /\ \A s \in Slots \ {f.slot} : conn'[s] = conn[s]
      BY <2>1, <2>2, <2>7 DEF Holder, HeldAs, General, ConnOK
    <3> QED BY <2>7, <2>8, <3>1, PushHolder DEF General
  <2> QED BY <2>2, <2>4, <2>9, <2>10 DEF General, request, RequestOK, NoResponse, ResponseOK, RecordsOK
<1>2. CASE NoSlot
  <2>1. /\ calls < MaxCalls /\ calls' = calls + 1 /\ opened' = opened + 1 /\ NoResponse
        /\ incomingResponseConnectionId' = None
        /\ UNCHANGED <<request, url, conn, stack, segments, finished, handled, out, result>>
    BY <1>2 DEF NoSlot, MayCall
  <2>2. opened + 1 <= MaxClients + (calls + 1) /\ opened + 1 \in Nat /\ calls + 1 \in 0..MaxCalls
    BY <2>1, Sizes DEF General, RecordsOK
  <2> QED BY <2>1, <2>2 DEF General, request, RequestOK, NoResponse, ResponseOK, RecordsOK
<1> QED BY <1>1, <1>2

(* The function on top of the stack is a call of HttpSendRequest. *)
LEMMA CallingTyped == ASSUME General, Calling PROVE General'
<1>1. CASE Connected
  <2>1. Running("HttpSendRequest", "connect") /\ stack # <<>> /\ Top \in Frames /\ Holder(Top) /\ HeldAs(Top) = "NEW"
    BY <1>1, TopOK DEF Connected, Running, Holder, HeldAs
  <2>2. /\ conn' = [conn EXCEPT ![Top.slot].state = "ESTABLISHED"] /\ incomingResponseConnectionId' = Top.slot
        /\ stack' = WithTop([Top EXCEPT !.pc = "begin"])
        /\ UNCHANGED <<incomingResponseState, from, request, url, peers, handled, out, calls, result>>
    BY <1>1 DEF Connected
  <2>3. [Top EXCEPT !.pc = "begin"] \in Frames /\ ~Holder([Top EXCEPT !.pc = "begin"])
    BY <2>1 DEF Frames, Frame, Holder, Running
  <2>4. Top.slot \in Slots /\ conn[Top.slot].state = "NEW"
    <3>1. StackOK(conn, stack)
      BY DEF General
    <3>2. Len(stack) \in Nat /\ Len(stack) > 0 /\ DOMAIN stack = 1..Len(stack) /\ Last(stack) = stack[Len(stack)]
      BY <2>1, <3>1, TopAndBelow
    <3>3. Len(stack) \in DOMAIN stack /\ Top = stack[Len(stack)]
      BY <3>2 DEF Top
    <3> QED BY <2>1, <3>1, <3>3 DEF StackOK, Holding
  <2>5. \A r \in Slots \ {Top.slot} : conn'[r] = conn[r]
    BY <2>2 DEF General, ConnOK
  <2>6. StackOK(conn', Below)
    BY <2>1, <2>5, Released DEF General, Top, Below
  <2>7. StackOK(conn', stack')
    BY <2>2, <2>3, <2>6, PushOK DEF WithTop
  <2>8. ConnOK(conn')
    BY <2>2, <2>4 DEF General, ConnOK, States
  <2> QED BY <2>2, <2>4, <2>7, <2>8 DEF General, request, peers, RequestOK, ResponseOK, RecordsOK
<1>2. CASE ConnectFails
  <2>1. stack # <<>> /\ Top \in Frames /\ Holder(Top)
    BY <1>2, TopOK DEF ConnectFails, Running, Holder
  <2>2. /\ conn' = [conn EXCEPT ![Top.slot] = Free] /\ incomingResponseConnectionId' = None /\ stack' = Below
        /\ UNCHANGED <<incomingResponseState, from, request, url, peers, handled, out, calls, result>>
    BY <1>2 DEF ConnectFails
  <2>3. \A r \in Slots \ {Top.slot} : conn'[r] = conn[r]
    BY <2>2 DEF General, ConnOK
  <2>4. StackOK(conn', stack')
    BY <2>1, <2>2, <2>3, Released DEF General, Top, Below
  <2>5. ConnOK(conn')
    BY <2>2, FreeOK DEF General, ConnOK
  <2> QED BY <2>2, <2>4, <2>5 DEF General, request, peers, RequestOK, ResponseOK, RecordsOK
<1>3. ASSUME NEW pc \in {"begin", "receive"}, NEW waiting \in {"wait", "receiving"}, CallWaits(pc, waiting),
             pc = "begin" \/ waiting = "receiving"
      PROVE  General'
  <2> DEFINE f == [Top EXCEPT !.pc = waiting, !.slot = incomingResponseConnectionId]
  <2>1. /\ Running("HttpSendRequest", pc) /\ stack # <<>> /\ Top \in Frames /\ ~Holder(Top) /\ stack' = WithTop(f)
        /\ UNCHANGED <<request, response, url, conn, peers, handled, out, calls, result>>
    BY <1>3, TopOK DEF CallWaits, Running, Holder
  <2>2. f \in Frames /\ ~Holder(f)
    BY <1>3, <2>1 DEF Frames, Frame, Holder, Running, General, ResponseOK
  <2> HIDE DEF f
  <2>3. url' \in {"nothing", "url", "status", "length"} /\ out' \in [Ids -> Seq(Pieces)]
    BY <2>1 DEF General, RecordsOK
  <2> QED BY <2>1, <2>2, <2>3, TopChanges
<1>4. CASE RequestPiece \/ TcpReceiveData
  BY <1>3, <1>4 DEF RequestPiece, TcpReceiveData
<1>5. ASSUME NEW pc \in {"end", "failed"}, stack # <<>>, Top.fn = "HttpSendRequest", Top.pc # "connect", GiveUp(pc)
      PROVE  General'
  <2>1. Top \in Frames /\ ~Holder(Top)
    BY <1>5, TopOK DEF Holder
  <2> DEFINE f == [Top EXCEPT !.pc = pc]
  <2>2. f \in Frames /\ ~Holder(f)
    BY <1>5, <2>1 DEF Frames, Frame, Holder
  <2>3. TcpDisconnect(incomingResponseConnectionId, WithTop(f))
        /\ UNCHANGED <<response, url, peers, handled, out, calls, result>>
    BY <1>5 DEF GiveUp
  <2> HIDE DEF f
  <2>4. StackOK(conn, WithTop(f))
    BY <1>5, <2>1, <2>2, GoesOn DEF General
  <2> QED BY <2>3, <2>4, TopDisconnects DEF General, ResponseOK
<1>6. CASE CannotWait \/ RequestTooLong \/ TransferFails \/ LeftIsWrong
  <2>1. stack # <<>> /\ Top.fn = "HttpSendRequest" /\ Top.pc # "connect" /\ (GiveUp("end") \/ GiveUp("failed"))
    BY <1>6 DEF CannotWait, RequestTooLong, TransferFails, LeftIsWrong, Running
  <2> QED BY <1>5, <2>1
<1>7. CASE RequestPieceSent
  <2> DEFINE f == [Top EXCEPT !.pc = IF More(Top.todo) THEN "begin" ELSE "receive",
                              !.todo = Tail(@), !.hit = FALSE]
  <2>1. /\ Running("HttpSendRequest", "wait") /\ stack # <<>> /\ Top \in Frames /\ ~Holder(Top) /\ stack' = WithTop(f)
        /\ UNCHANGED <<request, response, url, conn, peers, handled, out, calls, result>>
    BY <1>7, TopOK DEF RequestPieceSent, Running, Holder
  <2>2. Top.todo # <<>>
    BY <2>1, Fields DEF Running
  <2>3. Tail(Top.todo) \in Seq(Pieces) /\ (More(Top.todo) => Tail(Top.todo) # <<>>)
    BY <2>1, <2>2, HeadTail
  <2>4. f \in Frames /\ ~Holder(f)
    BY <2>1, <2>3 DEF Frames, Frame, Holder, Running
  <2> HIDE DEF f
  <2>5. url' \in {"nothing", "url", "status", "length"} /\ out' \in [Ids -> Seq(Pieces)]
    BY <2>1 DEF General, RecordsOK
  <2> QED BY <2>1, <2>4, <2>5, TopChanges
<1>8. CASE Received
  <2> DEFINE f == [Top EXCEPT !.pc = "receive", !.hit = FALSE]
  <2>1. /\ Running("HttpSendRequest", "receiving") /\ stack # <<>> /\ Top \in Frames /\ ~Holder(Top)
        /\ stack' = WithTop(f)
        /\ UNCHANGED <<incomingResponseConnectionId, request, url, conn, peers, handled, out, calls, result>>
    BY <1>8, TopOK DEF Received, Running, Holder
  <2>2. f \in Frames /\ ~Holder(f)
    BY <2>1 DEF Frames, Frame, Holder, Running
  <2> HIDE DEF f
  <2>3. ResponseOK'
    BY <1>8, <2>1 DEF Received, LeftIsParsed, General, ResponseOK
  <2>4. StackOK(conn, WithTop(f)) /\ ConnOK(conn)
    BY <2>1, <2>2, GoesOn DEF General
  <2>5. StackOK(conn', stack') /\ ConnOK(conn')
    BY <2>1, <2>4
  <2> QED BY <2>1, <2>3, <2>5 DEF General, request, peers, RequestOK, RecordsOK
<1>9. CASE Return
  <2>1. stack # <<>> /\ Top \in Frames
    BY <1>9, TopOK DEF Return, Running
  <2>2. /\ incomingResponseConnectionId' = None /\ stack' = Below
        /\ result' \in {result, [own |-> Top.id, from |-> from]}
        /\ UNCHANGED <<incomingResponseState, from, request, url, conn, peers, handled, out, calls>>
    BY <1>9 DEF Return
  <2>3. StackOK(conn', stack') /\ ConnOK(conn')
    BY <2>1, <2>2, TopOK
  <2>4. result' \in [own : Ids \cup {0}, from : Ids \cup {0}]
    BY <2>1, <2>2, Fields DEF General, ResponseOK, RecordsOK
  <2> QED BY <2>2, <2>3, <2>4 DEF General, request, peers, RequestOK, ResponseOK, RecordsOK
<1> QED BY <1>1, <1>2, <1>4, <1>6, <1>7, <1>8, <1>9 DEF Calling

LEMMA GeneralInit == Init => General
<1> SUFFICES ASSUME Init PROVE General
  OBVIOUS
<1>1. ConnOK(conn)
  BY FreeOK DEF Init, ConnOK
<1>2. StackOK(conn, stack)
  BY DEF Init, StackOK, Holding
<1>3. RequestOK /\ ResponseOK
  BY DEF Init, RequestOK, RequestStates, ResponseOK
<1>4. RecordsOK
  BY Sizes DEF Init, RecordsOK
<1> QED BY <1>1, <1>2, <1>3, <1>4 DEF General

LEMMA GeneralStep == General /\ [Next]_vars => General'
<1> SUFFICES ASSUME General, [Next]_vars PROVE General'
  OBVIOUS
<1>1. CASE UNCHANGED vars
  BY <1>1 DEF vars, request, response, peers, General, RequestOK, ResponseOK, RecordsOK
<1>2. CASE Next
  BY <1>2, NetworkTyped, DataTyped, CloseTyped, AnsweringTyped, CallingTyped, CallTyped
     DEF Next, Network, Library
<1> QED BY <1>1, <1>2

LEMMA GeneralCorrect == Spec => []General
BY GeneralInit, GeneralStep, PTL DEF Spec

(* The slots, the functions in progress and what is recorded of them keep  *)
(* their types, whatever calls the application makes and however they      *)
(* nest.                                                                   *)
THEOREM TypeCorrect == Spec => []TypeOK
<1>1. General => TypeOK
  <2> SUFFICES ASSUME General PROVE TypeOK
    OBVIOUS
  <2>1. stack \in Seq(Frames) /\ Frames \subseteq Frame
    BY DEF General, StackOK, Frames
  <2>2. stack \in Seq(Frame)
    BY <2>1, ElementOfSeq, LenProperties, SeqDef
  <2>3. \A k \in DOMAIN stack : stack[k] \in Frames
    BY <2>1, ElementOfSeq, LenProperties
  <2>4. \A k \in DOMAIN stack :
          stack[k].pc = "begin" => (stack[k].todo = <<>>) = (stack[k].fn = "HttpOnIncomingRequest")
    <3> SUFFICES ASSUME NEW k \in DOMAIN stack, stack[k].pc = "begin"
                 PROVE  (stack[k].todo = <<>>) = (stack[k].fn = "HttpOnIncomingRequest")
      OBVIOUS
    <3>1. stack[k] \in Frames
      BY <2>3
    <3>2. stack[k].fn \in {"TcpClose", "HttpSendResponse", "HttpOnIncomingRequest", "HttpSendRequest"}
      BY <3>1 DEF Frames, Frame
    <3> QED BY <3>1, <3>2, Fields
  <2>5. opened \in 0..(MaxClients + MaxCalls) /\ calls \in 0..MaxCalls
    BY Sizes DEF General, RecordsOK
  <2> QED BY <2>2, <2>4, <2>5
          DEF TypeOK, General, ConnOK, States, RequestOK, ResponseOK, RecordsOK
<1> QED BY GeneralCorrect, <1>1, PTL

(***************************************************************************)
(* The listener, of an application that makes no calls of HttpSendRequest. *)
(* Then every connection that lives is the listener's: it is reset when    *)
(* one ends, as no call can have the slot.  A request is handled while its *)
(* callback is on top of the stack, and nothing is received meanwhile.     *)
(***************************************************************************)
NoCalls(st) == \A k \in DOMAIN st : st[k].fn # "HttpSendRequest"
Alive(s) == conn[s].state \in {"NEW", "SYN_RECEIVED", "ESTABLISHED"}

Alone == incomingResponseConnectionId = None /\ NoCalls(stack)
Served ==
  /\ incomingRequestState = "NO_REQUEST" <=> incomingRequestConnectionId = None
  /\ ListenerBound
  /\ \A s \in Slots : Alive(s) => s = incomingRequestConnectionId
Handling ==
  incomingRequestState = "REQUEST_HANDLING" =>
    /\ InCallback /\ Top.slot = incomingRequestConnectionId
    /\ Established(Top.slot) /\ Top.id = conn[Top.slot].id
Server == General /\ Alone /\ Served /\ Handling

LEMMA PushNoCalls ==
  ASSUME NEW st \in Seq(Frames), NoCalls(st), NEW f \in Frames, f.fn # "HttpSendRequest"
  PROVE  NoCalls(Append(st, f))
<1> DEFINE t == Append(st, f)
<1>1. /\ Len(st) \in Nat /\ DOMAIN st = 1..Len(st) /\ DOMAIN t = 1..(Len(st) + 1)
      /\ t[Len(st) + 1] = f /\ \A k \in 1..Len(st) : t[k] = st[k]
  BY Pushed
<1> HIDE DEF t
<1>2. \A k \in DOMAIN t : t[k] = f \/ (k \in DOMAIN st /\ t[k] = st[k])
  BY <1>1
<1>3. NoCalls(t)
  BY <1>2 DEF NoCalls
<1> QED BY <1>3 DEF t

LEMMA TopNoCalls ==
  ASSUME General, Alone, stack # <<>>
  PROVE  /\ Top.fn # "HttpSendRequest" /\ NoCalls(Below) /\ Below \in Seq(Frames) /\ Top \in Frames
         /\ StackOK(conn, Below)
<1>1. StackOK(conn, stack)
  BY DEF General
<1>2. /\ Len(stack) \in Nat /\ Len(stack) > 0 /\ DOMAIN stack = 1..Len(stack)
      /\ Last(stack) = stack[Len(stack)] /\ Last(stack) \in Frames
      /\ Front(stack) \in Seq(Frames) /\ Len(Front(stack)) = Len(stack) - 1
      /\ \A k \in 1..(Len(stack) - 1) : Front(stack)[k] = stack[k]
      /\ StackOK(conn, Front(stack))
  BY <1>1, TopAndBelow
<1>3. DOMAIN Front(stack) = 1..(Len(stack) - 1)
  BY <1>2, LenProperties
<1>4. \A k \in DOMAIN Front(stack) : k \in DOMAIN stack /\ Front(stack)[k] = stack[k]
  BY <1>2, <1>3
<1>5. Len(stack) \in DOMAIN stack
  BY <1>2
<1> QED BY <1>2, <1>4, <1>5 DEF Alone, NoCalls, Top, Below

LEMMA ReturningNoCalls ==
  ASSUME General, Alone, NEW s, NEW st \in Returning(s)
  PROVE  NoCalls(st) /\ StackOK(conn, st)
<1>1. StackOK(conn, st)
  BY ReturningOK DEF General
<1>2. CASE st = stack
  BY <1>1, <1>2 DEF Alone
<1>3. CASE Awaits(s) /\ st = WithTop([Top EXCEPT !.hit = TRUE])
  <2> DEFINE f == [Top EXCEPT !.hit = TRUE]
  <2>1. stack # <<>>
    BY <1>3 DEF Awaits
  <2>2. Top.fn # "HttpSendRequest" /\ NoCalls(Below) /\ Below \in Seq(Frames) /\ Top \in Frames
    BY <2>1, TopNoCalls
  <2>3. f \in Frames /\ f.fn # "HttpSendRequest"
    BY <2>2 DEF Frames, Frame
  <2>4. st = Append(Below, f)
    BY <1>3 DEF WithTop
  <2> HIDE DEF f
  <2> QED BY <1>1, <2>2, <2>3, <2>4, PushNoCalls
<1> QED BY <1>2, <1>3 DEF Returning

(* The listener's connection ends, and with it what the listener does. *)
LEMMA DiesServed ==
  ASSUME Server, NEW s \in Slots, Established(s),
         NEW st, StackOK(conn, st), NoCalls(st), Dies(s, st), UNCHANGED response
  PROVE  Alone' /\ Served' /\ Handling' /\ incomingRequestState' = "NO_REQUEST"
<1>1. conn[s].state = "ESTABLISHED" /\ s # None
  BY Sizes DEF Established
<1>2. s = incomingRequestConnectionId /\ s # incomingResponseConnectionId
  BY <1>1 DEF Server, Served, Alive, Alone
<1>3. incomingRequestConnectionId' = None /\ incomingRequestState' = "NO_REQUEST"
  BY <1>2 DEF Dies, HttpTcpOnDisconnect
<1>4. conn'[s].state = "DYEING" /\ \A r \in Slots \ {s} : conn'[r] = conn[r]
  BY <1>1, DiesOK DEF Server, General
<1>5. \A r \in Slots : ~Alive(r)'
  BY <1>2, <1>4 DEF Server, Served, Alive
<1>6. Alone'
  <2> DEFINE f == Call("TcpClose", "wait", s, <<>>)
  <2>1. f \in Frames
    BY CallOK, Lists DEF Server, General
  <2>2. f.fn # "HttpSendRequest" /\ stack' = Append(st, f)
    BY DEF Call, Dies
  <2> HIDE DEF f
  <2>3. NoCalls(stack')
    BY <2>1, <2>2, PushNoCalls DEF StackOK
  <2> QED BY <2>3 DEF Server, Alone, response
<1> QED BY <1>3, <1>5, <1>6 DEF Served, ListenerBound, Handling

LEMMA DisconnectServed ==
  ASSUME Server, NEW s \in Slots \cup {None}, NEW st, StackOK(conn, st), NoCalls(st),
         TcpDisconnect(s, st), UNCHANGED response,
         incomingRequestState = "REQUEST_HANDLING" => Established(s)
  PROVE  Alone' /\ Served' /\ Handling'
<1>1. CASE Established(s)
  <2>1. s \in Slots /\ Dies(s, st)
    BY <1>1 DEF Established, TcpDisconnect
  <2> QED BY <1>1, <2>1, DiesServed
<1>2. CASE ~Established(s)
  <2>1. UNCHANGED <<conn, request>> /\ stack' = st /\ incomingRequestState # "REQUEST_HANDLING"
    BY <1>2 DEF TcpDisconnect
  <2> QED BY <2>1 DEF Server, Alone, Served, ListenerBound, Alive, Handling, request, response
<1> QED BY <1>1, <1>2

(* Nothing but the stack changes, and no request is being handled. *)
LEMMA StaysServed ==
  ASSUME Server, UNCHANGED <<request, response, conn>>, NoCalls(stack'),
         incomingRequestState # "REQUEST_HANDLING"
  PROVE  Alone' /\ Served' /\ Handling'
BY DEF Server, Alone, Served, ListenerBound, Alive, Handling, request, response

LEMMA CloseServed == ASSUME Server, TcpCloseEnds PROVE Alone' /\ Served' /\ Handling'
<1>1. /\ stack # <<>> /\ Top.fn = "TcpClose" /\ Holder(Top)
      /\ conn' = [conn EXCEPT ![Top.slot] = Free] /\ stack' = Below
      /\ UNCHANGED <<request, response>>
  BY DEF TcpCloseEnds, Running, Holder
<1>2. incomingRequestState # "REQUEST_HANDLING"
  BY <1>1 DEF Server, Handling, InCallback, Running
<1>3. Top.slot \in Slots /\ conn[Top.slot].state = "DYEING"
  <2>1. StackOK(conn, stack)
    BY DEF Server, General
  <2>2. Len(stack) \in Nat /\ Len(stack) > 0 /\ DOMAIN stack = 1..Len(stack) /\ Last(stack) = stack[Len(stack)]
    BY <1>1, <2>1, TopAndBelow
  <2>3. Len(stack) \in DOMAIN stack /\ Top = stack[Len(stack)]
    BY <2>2 DEF Top
  <2> QED BY <1>1, <2>1, <2>3 DEF StackOK, Holding, HeldAs
<1>4. conn'[Top.slot].state = "NO_CONNECTION" /\ \A r \in Slots \ {Top.slot} : conn'[r] = conn[r]
  BY <1>1, <1>3, FreeOK DEF Server, General, ConnOK
<1>5. Top.slot # incomingRequestConnectionId
  BY <1>3, Sizes DEF Server, Served, ListenerBound
<1>6. Served'
  <2>1. \A r \in Slots : Alive(r)' => Alive(r)
    BY <1>4 DEF Alive
  <2>2. ListenerBound'
    <3> SUFFICES ASSUME incomingRequestState # "NO_REQUEST"
                 PROVE  /\ incomingRequestConnectionId # None
                        /\ conn'[incomingRequestConnectionId].state \in {"SYN_RECEIVED", "ESTABLISHED"}
      BY <1>1 DEF ListenerBound, request
    <3>1. incomingRequestConnectionId # None /\ incomingRequestConnectionId \in Slots
          /\ conn[incomingRequestConnectionId].state \in {"SYN_RECEIVED", "ESTABLISHED"}
      BY DEF Server, Served, ListenerBound, General, RequestOK
    <3> QED BY <1>4, <1>5, <3>1
  <2> QED BY <1>1, <2>1, <2>2 DEF Server, Served, request
<1>7. Alone'
  BY <1>1, TopNoCalls DEF Server, Alone, response
<1> QED BY <1>1, <1>2, <1>6, <1>7 DEF Handling, request

LEMMA NotHandling == ASSUME Server, Listening PROVE incomingRequestState # "REQUEST_HANDLING"
BY DEF Listening, Awaits, Running, Server, Handling, InCallback

LEMMA NetworkServed ==
  ASSUME Server, Syn \/ \E s \in Slots : Ack(s) \/ Fin(s) PROVE Alone' /\ Served' /\ Handling'
<1>1. CASE Syn
  <2> DEFINE r == FirstEmpty
  <2>1. r \in Slots /\ conn[r].state = "NO_CONNECTION"
    BY <1>1, FirstIsEmpty DEF Syn
  <2>2. /\ conn' = [conn EXCEPT ![r] = [state |-> "SYN_RECEIVED", id |-> opened + 1]]
        /\ incomingRequestState = "NO_REQUEST"
        /\ incomingRequestConnectionId' = r /\ incomingRequestState' = "START_REQUEST"
        /\ UNCHANGED <<response, stack>>
    BY <1>1 DEF Syn, HttpTcpOnNewConnection
  <2> HIDE DEF r
  <2>3. conn'[r].state = "SYN_RECEIVED" /\ \A s \in Slots \ {r} : conn'[s] = conn[s]
    BY <2>1, <2>2 DEF Server, General, ConnOK
  <2>4. r # None /\ \A s \in Slots : ~Alive(s)
    BY <2>1, <2>2, Sizes DEF Server, Served
  <2> QED BY <2>1, <2>2, <2>3, <2>4 DEF Server, Alone, Served, ListenerBound, Alive, Handling, response
<1>2. ASSUME NEW s \in Slots, Ack(s) PROVE Alone' /\ Served' /\ Handling'
  <2>1. /\ Listening /\ conn[s].state = "SYN_RECEIVED" /\ conn' = [conn EXCEPT ![s].state = "ESTABLISHED"]
        /\ UNCHANGED <<request, response, stack>>
    BY <1>2 DEF Ack
  <2>2. conn'[s].state = "ESTABLISHED" /\ \A r \in Slots \ {s} : conn'[r] = conn[r]
    BY <2>1 DEF Server, General, ConnOK
  <2>3. s = incomingRequestConnectionId /\ s # None
    BY <2>1, Sizes DEF Server, Served, Alive
  <2>4. incomingRequestState # "REQUEST_HANDLING"
    BY <2>1, NotHandling
  <2>5. \A r \in Slots : Alive(r)' => r = s
    BY <2>2, <2>3 DEF Server, Served, Alive
  <2> QED BY <2>1, <2>2, <2>3, <2>4, <2>5
          DEF Server, Alone, Served, ListenerBound, Handling, request, response
<1>3. ASSUME NEW s \in Slots, Fin(s) PROVE Alone' /\ Served' /\ Handling'
  <2>1. PICK stk \in Returning(s) : Dies(s, stk)
    BY <1>3 DEF Fin
  <2>2. Established(s) /\ UNCHANGED response
    BY <1>3 DEF Fin
  <2>3. NoCalls(stk) /\ StackOK(conn, stk)
    BY <2>1, ReturningNoCalls DEF Server
  <2> QED BY <2>1, <2>2, <2>3, DiesServed
<1> QED BY <1>1, <1>2, <1>3

(* All data is the listener's. *)
LEMMA DataIsRequest ==
  ASSUME Server, NEW s \in Slots, NEW parsed \in {"part", "rest", "error"}, Data(s, parsed)
  PROVE  /\ s = incomingRequestConnectionId /\ conn[s].state = "ESTABLISHED" /\ conn[s].id \in Ids
         /\ incomingRequestState # "REQUEST_HANDLING"
         /\ \E stk \in Returning(s) : HttpParseRequest(s, parsed, stk)
<1>1. Listening /\ Established(s) /\ \E stk \in Returning(s) : HttpTcpOnIncomingData(s, parsed, stk)
  BY DEF Data
<1>2. conn[s].state = "ESTABLISHED" /\ s # None
  BY <1>1 DEF Established
<1>3. s = incomingRequestConnectionId /\ s # incomingResponseConnectionId
  BY <1>2 DEF Server, Served, Alive, Alone
<1>4. conn[s].id \in Ids
  BY <1>2 DEF Server, General, ConnOK
<1> QED BY <1>1, <1>2, <1>3, <1>4, NotHandling DEF HttpTcpOnIncomingData

LEMMA DataServed ==
  ASSUME Server, NEW s \in Slots, NEW parsed \in {"part", "rest", "error"}, Data(s, parsed)
  PROVE  Alone' /\ Served' /\ Handling'
<1>1. /\ s = incomingRequestConnectionId /\ conn[s].state = "ESTABLISHED" /\ conn[s].id \in Ids
      /\ incomingRequestState # "REQUEST_HANDLING"
  BY DataIsRequest
<1>2. PICK stk \in Returning(s) : HttpParseRequest(s, parsed, stk)
  BY DataIsRequest
<1>3. UNCHANGED <<conn, incomingRequestConnectionId, response>>
  BY <1>2 DEF HttpParseRequest
<1>4. NoCalls(stk) /\ StackOK(conn, stk) /\ stk \in Seq(Frames)
  <2>1. NoCalls(stk) /\ StackOK(conn, stk)
    BY <1>2, ReturningNoCalls DEF Server
  <2> QED BY <2>1 DEF StackOK
<1>5. s # None
  BY Sizes
<1>6. incomingRequestState' # "NO_REQUEST" => Served'
  BY <1>1, <1>3, <1>5 DEF Server, Served, ListenerBound, Alive
<1>7. CASE parsed = "error"
  <2> DEFINE f == Call("HttpSendResponse", "begin", s, ErrorAnswer)
  <2>1. f \in Frames
    BY CallOK, Lists DEF Server, General
  <2>2. f.fn # "HttpSendRequest"
    BY DEF Call
  <2>3. incomingRequestState' = "START_REQUEST" /\ stack' = Append(stk, f)
    BY <1>2, <1>7 DEF HttpParseRequest
  <2> HIDE DEF f
  <2>4. NoCalls(stack')
    BY <1>4, <2>1, <2>2, <2>3, PushNoCalls
  <2> QED BY <1>3, <1>6, <2>3, <2>4 DEF Server, Alone, Handling, response
<1>8. CASE parsed = "rest"
  <2> DEFINE f == Call("HttpOnIncomingRequest", "begin", s, <<>>)
  <2>1. f \in Frames
    BY CallOK, Lists DEF Server, General
  <2>2. f.fn = "HttpOnIncomingRequest" /\ f.pc = "begin" /\ f.slot = s /\ f.id = conn[s].id
    BY <1>5 DEF Call
  <2>3. incomingRequestState' = "REQUEST_HANDLING" /\ stack' = Append(stk, f)
    BY <1>1, <1>2, <1>8 DEF HttpParseRequest
  <2> HIDE DEF f
  <2>4. NoCalls(stack')
    BY <1>4, <2>1, <2>2, <2>3, PushNoCalls
  <2>5. stack' # <<>> /\ Top' = f
    <3>1. /\ Append(stk, f) \in Seq(Frames) /\ Append(stk, f) # <<>>
          /\ Len(stk) \in Nat /\ Len(Append(stk, f)) = Len(stk) + 1 /\ Append(stk, f)[Len(stk) + 1] = f
      BY <1>4, <2>1, Pushed
    <3> QED BY <2>3, <3>1 DEF Top, Last
  <2>6. Handling'
    BY <1>1, <1>3, <1>5, <2>2, <2>5 DEF Handling, InCallback, Running, Established
  <2> QED BY <1>3, <1>6, <2>3, <2>4, <2>6 DEF Server, Alone, response
<1>9. CASE parsed = "part"
  <2>1. incomingRequestState' = "PART" /\ stack' = stk
    BY <1>1, <1>2, <1>9 DEF HttpParseRequest
  <2> QED BY <1>3, <1>4, <1>6, <2>1 DEF Server, Alone, Handling, response
<1> QED BY <1>7, <1>8, <1>9

LEMMA AnsweringServed == ASSUME Server, Answering PROVE Alone' /\ Served' /\ Handling'
<1>0. ASSUME stack # <<>>
      PROVE  /\ NoCalls(Below) /\ StackOK(conn, Below) /\ Top \in Frames /\ Top.slot \in Slots \cup {None}
  BY <1>0, TopNoCalls, Fields DEF Server
<1>1. ASSUME NEW f \in Frames, f.fn # "HttpSendRequest", stack # <<>>
      PROVE  NoCalls(WithTop(f))
  BY <1>1, TopNoCalls, PushNoCalls DEF WithTop, Server
<1>2. ASSUME stack # <<>>, Top.fn = "HttpSendResponse" PROVE incomingRequestState # "REQUEST_HANDLING"
  BY <1>2 DEF Server, Handling, InCallback, Running
<1>3. CASE SendPiece
  <2>1. stack # <<>> /\ Top.fn = "HttpSendResponse" /\ UNCHANGED <<request, response, conn>>
        /\ stack' \in {Below, WithTop([Top EXCEPT !.pc = "wait"])}
    BY <1>3 DEF SendPiece, Running
  <2>2. [Top EXCEPT !.pc = "wait"] \in Frames /\ [Top EXCEPT !.pc = "wait"].fn # "HttpSendRequest"
    <3>1. Top \in Frames /\ Top.fn = "HttpSendResponse" /\ Top.pc = "begin"
      BY <1>0, <1>3, <2>1 DEF SendPiece, Running
    <3> QED BY <3>1 DEF Frames, Frame
  <2>3. NoCalls(stack')
    BY <1>0, <1>1, <2>1, <2>2
  <2> QED BY <1>2, <2>1, <2>3, StaysServed
<1>4. CASE TooLong \/ PieceFails
  <2>1. stack # <<>> /\ Top.fn = "HttpSendResponse" /\ TcpDisconnect(Top.slot, Below) /\ UNCHANGED response
    BY <1>4 DEF TooLong, PieceFails, Running
  <2> QED BY <1>0, <1>2, <2>1, DisconnectServed
<1>5. CASE PieceSent
  <2>1. stack # <<>> /\ Top.fn = "HttpSendResponse" /\ Top.pc = "wait" /\ UNCHANGED response
    BY <1>5 DEF PieceSent, Running
  <2>2. CASE More(Top.todo)
    <3> DEFINE f == [Top EXCEPT !.pc = "begin", !.todo = Tail(@), !.hit = FALSE]
    <3>1. stack' = WithTop(f) /\ UNCHANGED <<conn, request>>
      BY <1>5, <2>2 DEF PieceSent
    <3>2. f \in Frames /\ f.fn # "HttpSendRequest"
      <4>1. Top \in Frames /\ Top.todo # <<>>
        BY <1>0, <2>1, Fields
      <4>2. Tail(Top.todo) \in Seq(Pieces) /\ Tail(Top.todo) # <<>>
        BY <2>2, <4>1, HeadTail
      <4> QED BY <2>1, <4>1, <4>2 DEF Frames, Frame
    <3> HIDE DEF f
    <3> QED BY <1>1, <1>2, <2>1, <3>1, <3>2, StaysServed
  <2>3. CASE ~More(Top.todo)
    <3>1. TcpDisconnect(Top.slot, Below)
      BY <1>5, <2>3 DEF PieceSent
    <3> QED BY <1>0, <1>2, <2>1, <3>1, DisconnectServed
  <2> QED BY <2>2, <2>3
<1>6. CASE HttpSendResponse
  <2>1. /\ incomingRequestState = "REQUEST_HANDLING" /\ incomingRequestState' = "START_REQUEST"
        /\ UNCHANGED <<incomingRequestConnectionId, response, conn>>
    BY <1>6 DEF HttpSendResponse, MayAnswer
  <2>2. PICK todo \in Answers :
          stack' = Append(stack, Call("HttpSendResponse", "begin", incomingRequestConnectionId, todo))
    BY <1>6 DEF HttpSendResponse
  <2> DEFINE f == Call("HttpSendResponse", "begin", incomingRequestConnectionId, todo)
  <2>3. f \in Frames
    BY Lists, CallOK DEF Server, General, RequestOK
  <2>4. f.fn # "HttpSendRequest" /\ stack' = Append(stack, f)
    BY <2>2 DEF Call
  <2> HIDE DEF f
  <2>5. NoCalls(stack')
    BY <2>3, <2>4, PushNoCalls DEF Server, General, StackOK, Alone
  <2> QED BY <2>1, <2>5 DEF Server, Alone, Served, ListenerBound, Alive, Handling, response
<1>7. CASE CallbackReturns
  <2>1. stack # <<>> /\ UNCHANGED response
    BY <1>7 DEF CallbackReturns, InCallback, Running
  <2>2. CASE incomingRequestState = "REQUEST_HANDLING"
    <3>1. TcpDisconnect(Top.slot, Below) /\ Established(Top.slot)
      BY <1>7, <2>2 DEF CallbackReturns, Server, Handling
    <3> QED BY <1>0, <2>1, <3>1, DisconnectServed
  <2>3. CASE incomingRequestState # "REQUEST_HANDLING"
    <3>1. stack' = Below /\ UNCHANGED <<conn, request>>
      BY <1>7, <2>3 DEF CallbackReturns
    <3> QED BY <1>0, <2>1, <2>3, <3>1, StaysServed
  <2> QED BY <2>2, <2>3
<1> QED BY <1>3, <1>4, <1>5, <1>6, <1>7 DEF Answering

LEMMA ServerInit == Init => Server
<1> SUFFICES ASSUME Init PROVE Server
  OBVIOUS
<1>1. Alone
  BY DEF Init, Alone, NoCalls
<1>2. Served
  BY DEF Init, Served, ListenerBound, Alive, Free
<1> QED BY <1>1, <1>2, GeneralInit DEF Init, Server, Handling

LEMMA NoClient == ASSUME MaxCalls = 0, Server PROVE ~HttpSendRequest /\ ~NoSlot /\ ~Calling
<1>1. ~HttpSendRequest /\ ~NoSlot
  BY DEF HttpSendRequest, NoSlot, MayCall, Server, General, RecordsOK
<1>2. ~Calling
  <2> SUFFICES ASSUME stack # <<>>, Top.fn = "HttpSendRequest" PROVE FALSE
    BY DEF Calling, Connected, ConnectFails, RequestPiece, TcpReceiveData, CallWaits, CannotWait, RequestTooLong,
           RequestPieceSent, Received, LeftIsWrong, TransferFails, Return, Running
  <2> QED BY TopNoCalls DEF Server
<1> QED BY <1>1, <1>2

LEMMA ServerStep == ASSUME MaxCalls = 0 PROVE Server /\ [Next]_vars => Server'
<1> SUFFICES ASSUME Server, [Next]_vars PROVE Alone' /\ Served' /\ Handling'
  BY GeneralStep DEF Server
<1>1. CASE UNCHANGED vars
  BY <1>1 DEF vars, request, response, Server, Alone, Served, ListenerBound, Alive, Handling, InCallback,
              Running, Established, Top
<1>2. CASE Next
  BY <1>2, NoClient, NetworkServed, DataServed, CloseServed, AnsweringServed DEF Next, Network, Library
<1> QED BY <1>1, <1>2

(***************************************************************************)
(* Calls of HttpSendRequest, when nobody else can get the slot of a call:  *)
(* there is only one, or no peer connects.  A call is then on top of the   *)
(* stack, or below the TcpClose of its connection, which is the only one.  *)
(***************************************************************************)
OneUser == MaxConnections = 1 \/ MaxClients = 0

OwnConnection(f) == conn[f.slot].id = f.id

Connecting(st, f) ==
  /\ f.pc = "connect" /\ stack = Append(st, f)
  /\ conn[f.slot].state = "NEW" /\ OwnConnection(f)
  /\ incomingResponseConnectionId = None /\ incomingResponseState = "WAITING"

Transferring(st, f) ==
  /\ stack = Append(st, f)
  /\ \/ conn[f.slot].state = "NO_CONNECTION"
     \/ conn[f.slot].state = "ESTABLISHED" /\ OwnConnection(f) /\ f.pc \notin {"end", "failed"}

Closing(st, f) ==
  /\ conn[f.slot].state = "DYEING"
  /\ \E g \in Frames : g.fn = "TcpClose" /\ g.slot = f.slot /\ stack = Append(Append(st, f), g)

Base(st, f) ==
  /\ st \in Seq(Frames) /\ NoCalls(st) /\ (MaxClients = 0 => st = <<>>)
  /\ f \in Frames /\ f.fn = "HttpSendRequest" /\ f.slot \in Slots
  /\ incomingRequestState = "NO_REQUEST" /\ incomingRequestConnectionId = None
  /\ \A s \in Slots \ {f.slot} : conn[s].state = "NO_CONNECTION"

Responding(f) ==
  /\ f.pc # "connect" /\ incomingResponseConnectionId = f.slot
  /\ incomingResponseState = "END_MESSAGE" => from \in {f.id, 0}

During(st, f) ==
  /\ Base(st, f)
  /\ Connecting(st, f) \/ (Responding(f) /\ (Transferring(st, f) \/ Closing(st, f)))

(* Without peers there is nothing but calls. *)
NoPeers ==
  MaxClients = 0 =>
    /\ opened >= calls
    /\ NoCalls(stack) => stack = <<>> /\ \A s \in Slots : conn[s].state = "NO_CONNECTION"

User ==
  /\ General /\ NoPeers /\ ResponseIsOwn
  /\ Server \/ \E st, f : During(st, f)

LEMMA OnTop ==
  ASSUME NEW st \in Seq(Frames), NEW f \in Frames
  PROVE  /\ Append(st, f) \in Seq(Frames) /\ Append(st, f) # <<>>
         /\ Last(Append(st, f)) = f /\ Front(Append(st, f)) = st
<1> DEFINE t == Append(st, f)
<1>1. /\ t \in Seq(Frames) /\ t # <<>> /\ Len(st) \in Nat /\ Len(t) = Len(st) + 1
      /\ DOMAIN st = 1..Len(st) /\ DOMAIN t = 1..(Len(st) + 1)
      /\ t[Len(st) + 1] = f /\ \A k \in 1..Len(st) : t[k] = st[k]
  BY Pushed
<1> HIDE DEF t
<1>2. Last(t) = f
  BY <1>1 DEF Last
<1>3. Front(t) = st
  <2>1. /\ Front(t) \in Seq(Frames) /\ Len(Front(t)) = Len(st)
        /\ \A k \in 1..Len(st) : Front(t)[k] = t[k]
    BY <1>1, SubSeqProperties DEF Front
  <2>2. \A k \in 1..Len(st) : Front(t)[k] = st[k]
    BY <1>1, <2>1
  <2> QED BY <2>1, <2>2, SeqEqual
<1> QED BY <1>1, <1>2, <1>3 DEF t

LEMMA CallNotIdle ==
  ASSUME NEW st \in Seq(Frames), NEW f \in Frames, f.fn = "HttpSendRequest", NEW g \in Frames
  PROVE  ~NoCalls(Append(st, f)) /\ ~NoCalls(Append(Append(st, f), g))
<1> DEFINE t == Append(st, f)
<1>1. /\ t \in Seq(Frames) /\ Len(st) \in Nat /\ DOMAIN t = 1..(Len(st) + 1) /\ Len(t) = Len(st) + 1
      /\ t[Len(st) + 1] = f
  BY Pushed
<1> HIDE DEF t
<1>2. ~NoCalls(t)
  BY <1>1 DEF NoCalls
<1> DEFINE u == Append(t, g)
<1>3. DOMAIN u = 1..(Len(t) + 1) /\ \A k \in 1..Len(t) : u[k] = t[k]
  BY <1>1, Pushed
<1> HIDE DEF u
<1>4. ~NoCalls(u)
  BY <1>1, <1>3 DEF NoCalls
<1> QED BY <1>2, <1>4 DEF t, u

(* The slot of a call is the only one that can be in use. *)
LEMMA OnlySlot ==
  ASSUME General, NEW st, NEW f, During(st, f)
  PROVE  /\ stack # <<>> /\ ~InCallback
         /\ \A s \in Slots : conn[s].state # "SYN_RECEIVED"
         /\ \A s \in Slots : Established(s) => s = f.slot /\ Responding(f) /\ Transferring(st, f)
<1>1. st \in Seq(Frames) /\ f \in Frames /\ f.slot \in Slots /\ f.fn = "HttpSendRequest"
  BY DEF During, Base
<1>2. stack # <<>> /\ ~InCallback
  <2>1. CASE stack = Append(st, f)
    BY <1>1, <2>1, OnTop DEF InCallback, Running, Top
  <2>2. CASE Closing(st, f)
    <3>1. PICK g \in Frames : g.fn = "TcpClose" /\ stack = Append(Append(st, f), g)
      BY <2>2 DEF Closing
    <3>2. stack # <<>> /\ Last(stack) = g
      BY <1>1, <3>1, OnTop
    <3> QED BY <3>1, <3>2 DEF InCallback, Running, Top
  <2> QED BY <2>1, <2>2 DEF During, Connecting, Transferring
<1>3. \A s \in Slots \ {f.slot} : conn[s].state = "NO_CONNECTION"
  BY DEF During, Base
<1> QED BY <1>1, <1>2, <1>3 DEF During, Connecting, Transferring, Closing, Established

LEMMA NoSyn ==
  ASSUME General, OneUser, NoPeers, NEW st, NEW f, During(st, f) PROVE ~Syn
<1> SUFFICES ASSUME Syn PROVE FALSE
  OBVIOUS
<1>1. st \in Seq(Frames) /\ f \in Frames /\ f.slot \in Slots /\ f.fn = "HttpSendRequest"
  BY DEF During, Base
<1>2. MaxConnections = 1
  <2> SUFFICES ASSUME MaxClients = 0 PROVE FALSE
    BY DEF OneUser
  <2>1. opened - calls < 0 /\ opened >= calls /\ opened \in Nat /\ calls \in Nat
    BY Sizes DEF Syn, NoPeers, General, RecordsOK
  <2> QED BY <2>1
<1>3. Slots = {f.slot}
  BY <1>1, <1>2 DEF Slots
<1>4. conn[f.slot].state = "NO_CONNECTION" /\ Listening
  BY <1>3 DEF Syn, EmptySlots
<1>5. Transferring(st, f) /\ f.pc # "connect"
  BY <1>4 DEF During, Connecting, Closing, Responding
<1>6. stack # <<>> /\ Top = f
  BY <1>1, <1>5, OnTop DEF Transferring, Top
<1>7. Established(f.slot)
  BY <1>1, <1>4, <1>5, <1>6 DEF Listening, Running
<1> QED BY <1>4, <1>7 DEF Established

(* The connection of a call ends. *)
LEMMA CallDies ==
  ASSUME General, NEW st, NEW f, Base(st, f), Responding(f), conn[f.slot].state = "ESTABLISHED",
         StackOK(conn, Append(st, f)), Dies(f.slot, Append(st, f)), UNCHANGED response
  PROVE  During(st, f)'
<1>1. st \in Seq(Frames) /\ f \in Frames /\ f.slot \in Slots /\ f.fn = "HttpSendRequest"
  BY DEF Base
<1>2. UNCHANGED request
  BY DEF Responding, Dies, HttpTcpOnDisconnect
<1>3. conn'[f.slot].state = "DYEING" /\ \A s \in Slots \ {f.slot} : conn'[s] = conn[s]
  BY <1>1, DiesOK DEF General
<1> DEFINE g == Call("TcpClose", "wait", f.slot, <<>>)
<1>4. g \in Frames
  BY <1>1, CallOK, Lists DEF General
<1>5. g.fn = "TcpClose" /\ g.slot = f.slot /\ stack' = Append(Append(st, f), g)
  BY DEF Call, Dies
<1> HIDE DEF g
<1>6. Closing(st, f)'
  BY <1>3, <1>4, <1>5 DEF Closing
<1>7. Base(st, f)'
  BY <1>2, <1>3 DEF Base, request
<1> QED BY <1>6, <1>7 DEF During, Responding, response

(* A call goes on, or what waits in it gets its data. *)
LEMMA CallGoesOn ==
  ASSUME NEW st, NEW f, Base(st, f), Responding(f), Transferring(st, f),
         NEW g \in Frames, g.fn = "HttpSendRequest", g.slot = f.slot, g.id = f.id, g.pc # "connect"
  PROVE  Base(st, g) /\ Responding(g)
BY DEF Base, Responding

LEMMA CallTop ==
  ASSUME General, NEW st, NEW f, Base(st, f), stack = Append(st, f)
  PROVE  /\ Top = f /\ Below = st /\ stack # <<>>
         /\ \A g \in Frames : g.fn = "HttpSendRequest" /\ g.pc # "connect" /\ f.pc # "connect" =>
              WithTop(g) = Append(st, g) /\ StackOK(conn, Append(st, g))
<1>1. st \in Seq(Frames) /\ f \in Frames /\ f.fn = "HttpSendRequest"
  BY DEF Base
<1>2. Top = f /\ Below = st /\ stack # <<>>
  BY <1>1, OnTop DEF Top, Below
<1>3. ASSUME NEW g \in Frames, g.fn = "HttpSendRequest", g.pc # "connect", f.pc # "connect"
      PROVE  WithTop(g) = Append(st, g) /\ StackOK(conn, Append(st, g))
  <2>1. ~Holder(g) /\ ~Holder(Top) /\ StackOK(conn, stack)
    BY <1>1, <1>2, <1>3 DEF Holder, General
  <2>2. StackOK(conn, WithTop(g))
    BY <1>2, <1>3, <2>1, GoesOn
  <2> QED BY <1>2, <2>2 DEF WithTop
<1> QED BY <1>2, <1>3

LEMMA CallDisconnects ==
  ASSUME General, NEW st, NEW f, Base(st, f), Responding(f), Transferring(st, f),
         NEW g \in Frames, g.fn = "HttpSendRequest", g.slot = f.slot, g.id = f.id, g.pc # "connect",
         TcpDisconnect(incomingResponseConnectionId, WithTop(g)), UNCHANGED response
  PROVE  During(st, g)'
<1>1. /\ f.slot \in Slots /\ f.slot # None /\ f.pc # "connect" /\ stack = Append(st, f)
      /\ incomingResponseConnectionId = f.slot
  BY Sizes DEF Base, Responding, Transferring
<1>2. Base(st, g) /\ Responding(g)
  BY CallGoesOn
<1>3. WithTop(g) = Append(st, g) /\ StackOK(conn, Append(st, g))
  BY <1>1, CallTop
<1>4. CASE Established(f.slot)
  <2>1. Dies(g.slot, Append(st, g)) /\ conn[g.slot].state = "ESTABLISHED"
    BY <1>1, <1>3, <1>4 DEF TcpDisconnect, Established
  <2> QED BY <1>2, <1>3, <2>1, CallDies
<1>5. CASE ~Established(f.slot)
  <2>1. UNCHANGED <<conn, request>> /\ stack' = Append(st, g)
    BY <1>1, <1>3, <1>5 DEF TcpDisconnect
  <2>2. conn[g.slot].state = "NO_CONNECTION"
    BY <1>1, <1>5 DEF Transferring, Established
  <2> QED BY <1>2, <2>1, <2>2 DEF During, Base, Responding, Transferring, request, response
<1> QED BY <1>4, <1>5

LEMMA SetsHit ==
  ASSUME NEW f \in Frames, f.fn = "HttpSendRequest", f.pc # "connect"
  PROVE  /\ [f EXCEPT !.hit = TRUE] \in Frames /\ [f EXCEPT !.hit = TRUE].fn = "HttpSendRequest"
         /\ [f EXCEPT !.hit = TRUE].pc = f.pc /\ [f EXCEPT !.hit = TRUE].slot = f.slot
         /\ [f EXCEPT !.hit = TRUE].id = f.id
BY DEF Frames, Frame

(* What a segment or a FIN returns to. *)
LEMMA CallReturning ==
  ASSUME General, NEW st, NEW f, Base(st, f), Responding(f), Transferring(st, f),
         NEW s, NEW stk \in Returning(s)
  PROVE  \E g \in Frames : /\ stk = Append(st, g) /\ StackOK(conn, Append(st, g))
                           /\ g.slot = f.slot /\ g.pc = f.pc /\ g.id = f.id
                           /\ Base(st, g) /\ Responding(g)
<1>1. f \in Frames /\ f.fn = "HttpSendRequest" /\ f.pc # "connect" /\ stack = Append(st, f)
  BY DEF Base, Responding, Transferring
<1>2. CASE stk = stack
  BY <1>1, <1>2 DEF General
<1>3. CASE stk = WithTop([Top EXCEPT !.hit = TRUE])
  <2> DEFINE g == [f EXCEPT !.hit = TRUE]
  <2>1. g \in Frames /\ g.fn = "HttpSendRequest" /\ g.pc = f.pc /\ g.slot = f.slot /\ g.id = f.id
    BY <1>1, SetsHit
  <2>2. stk = WithTop(g)
    BY <1>1, <1>3, CallTop
  <2> HIDE DEF g
  <2>3. WithTop(g) = Append(st, g) /\ StackOK(conn, Append(st, g))
    BY <1>1, <2>1, CallTop
  <2>4. Base(st, g) /\ Responding(g)
    BY <1>1, <2>1, CallGoesOn
  <2> QED BY <2>1, <2>2, <2>3, <2>4
<1> QED BY <1>2, <1>3 DEF Returning

LEMMA CallNetwork ==
  ASSUME General, OneUser, NoPeers, NEW st, NEW f, During(st, f), Network
  PROVE  (\E g : During(st, g)') /\ UNCHANGED <<result, opened, calls>>
<1>1. ASSUME NEW s \in Slots, Fin(s) PROVE (\E g : During(st, g)') /\ UNCHANGED <<result, opened, calls>>
  <2>1. PICK stk \in Returning(s) : Dies(s, stk)
    BY <1>1 DEF Fin
  <2>2. Established(s) /\ UNCHANGED <<response, peers, calls, result>>
    BY <1>1 DEF Fin
  <2>3. s = f.slot /\ Responding(f) /\ Transferring(st, f) /\ Base(st, f)
    BY <2>2, OnlySlot DEF During
  <2>4. PICK g \in Frames : /\ stk = Append(st, g) /\ StackOK(conn, Append(st, g)) /\ g.slot = f.slot
                           /\ Base(st, g) /\ Responding(g)
    BY <2>1, <2>3, CallReturning
  <2>5. During(st, g)'
    BY <2>1, <2>2, <2>3, <2>4, CallDies DEF Established
  <2> QED BY <2>2, <2>5 DEF peers
<1>2. ASSUME NEW s \in Slots, NEW parsed \in {"part", "rest", "error"}, Data(s, parsed)
      PROVE  (\E g : During(st, g)') /\ UNCHANGED <<result, opened, calls>>
  <2>1. PICK stk \in Returning(s) : HttpTcpOnIncomingData(s, parsed, stk)
    BY <1>2 DEF Data
  <2>2. Established(s) /\ UNCHANGED <<opened, calls, result>>
    BY <1>2 DEF Data
  <2>3. s = f.slot /\ Responding(f) /\ Transferring(st, f) /\ Base(st, f)
    BY <2>2, OnlySlot DEF During
  <2>4. conn[s].state = "ESTABLISHED" /\ conn[s].id = f.id /\ f.pc \notin {"end", "failed"}
    BY <2>2, <2>3 DEF Established, Transferring, OwnConnection
  <2>5. PICK g \in Frames : /\ stk = Append(st, g) /\ StackOK(conn, Append(st, g))
                           /\ g.slot = f.slot /\ g.pc = f.pc /\ g.id = f.id
                           /\ Base(st, g) /\ Responding(g)
    BY <2>1, <2>3, CallReturning
  <2>6. HttpParseResponse(s, parsed, stk)
    BY <2>1, <2>3 DEF HttpTcpOnIncomingData, Responding
  <2>7. UNCHANGED incomingResponseConnectionId
    BY <2>6 DEF HttpParseResponse
  <2>8. CASE parsed = "error" /\ incomingResponseState # "END_MESSAGE"
    <3>1. Dies(s, stk) /\ UNCHANGED <<incomingResponseState, from>>
      BY <2>2, <2>6, <2>8 DEF HttpParseResponse, TcpDisconnect
    <3>2. During(st, g)'
      BY <2>3, <2>4, <2>5, <2>7, <3>1, CallDies DEF response
    <3> QED BY <2>2, <3>2
  <2>9. CASE ~(parsed = "error" /\ incomingResponseState # "END_MESSAGE")
    <3>1. stack' = stk /\ UNCHANGED <<conn, request>>
      BY <2>6, <2>9 DEF HttpParseResponse
    <3>2. incomingResponseState' = "END_MESSAGE" => from' \in {f.id, 0}
      BY <2>3, <2>4, <2>6, <2>9 DEF HttpParseResponse, Responding
    <3>3. Base(st, g)' /\ Responding(g)'
      BY <2>5, <2>7, <3>1, <3>2 DEF Base, Responding, request
    <3>4. Transferring(st, g)'
      BY <2>4, <2>5, <3>1, <2>3 DEF Transferring, OwnConnection
    <3> QED BY <2>2, <3>3, <3>4 DEF During
  <2> QED BY <2>8, <2>9
<1>3. \A s \in Slots : ~Ack(s)
  BY OnlySlot DEF Ack
<1> QED BY <1>1, <1>2, <1>3, NoSyn DEF Network

LEMMA CallCloses ==
  ASSUME General, NEW st, NEW f, During(st, f), TcpCloseEnds
  PROVE  During(st, f)' /\ UNCHANGED <<result, opened, calls>>
<1>1. /\ st \in Seq(Frames) /\ f \in Frames /\ f.fn = "HttpSendRequest" /\ f.slot \in Slots
      /\ Base(st, f)
  BY DEF During, Base
<1>2. Closing(st, f) /\ Responding(f)
  <2>1. CASE stack = Append(st, f)
    <3>1. Top = f
      BY <1>1, <2>1, OnTop DEF Top
    <3> QED BY <1>1, <3>1 DEF TcpCloseEnds, Running
  <2> QED BY <2>1 DEF During, Connecting, Transferring
<1>3. PICK g \in Frames : g.slot = f.slot /\ stack = Append(Append(st, f), g)
  BY <1>2 DEF Closing
<1>4. Top = g /\ Below = Append(st, f)
  BY <1>1, <1>3, OnTop DEF Top, Below
<1>5. /\ conn' = [conn EXCEPT ![f.slot] = Free] /\ stack' = Append(st, f)
      /\ UNCHANGED <<request, response, peers, calls, result>>
  BY <1>3, <1>4 DEF TcpCloseEnds
<1>6. conn'[f.slot].state = "NO_CONNECTION" /\ \A s \in Slots \ {f.slot} : conn'[s] = conn[s]
  BY <1>1, <1>5, FreeOK DEF General, ConnOK
<1>7. Base(st, f)' /\ Responding(f)'
  BY <1>1, <1>2, <1>5, <1>6 DEF Base, Responding, request, response
<1>8. Transferring(st, f)'
  BY <1>5, <1>6 DEF Transferring
<1> QED BY <1>5, <1>7, <1>8 DEF During, peers

(* The call goes on. *)
LEMMA CallReceives ==
  ASSUME General, NEW st, NEW f, Base(st, f), Responding(f), Transferring(st, f), NEW g \in Frames,
         g.fn = "HttpSendRequest", g.slot = f.slot, g.id = f.id, g.pc \notin {"connect", "end", "failed"},
         f.pc \notin {"end", "failed"}, stack' = WithTop(g),
         UNCHANGED <<request, incomingResponseConnectionId, conn>>,
         UNCHANGED <<incomingResponseState, from>> \/ LeftIsParsed
  PROVE  During(st, g)'
<1>1. stack' = Append(st, g)
  <2>1. stack = Append(st, f) /\ f.pc # "connect"
    BY DEF Transferring, Responding
  <2> QED BY <2>1, CallTop
<1>2. Base(st, g)' /\ Responding(g)'
  <2>1. Base(st, g) /\ Responding(g)
    BY CallGoesOn
  <2>2. incomingResponseState' = "END_MESSAGE" => from' \in {g.id, 0}
    BY <2>1 DEF Responding, LeftIsParsed
  <2> QED BY <2>1, <2>2 DEF Base, Responding, request
<1>3. Transferring(st, g)'
  BY <1>1 DEF Transferring, OwnConnection
<1> QED BY <1>2, <1>3 DEF During

LEMMA CallWorks ==
  ASSUME General, NEW st, NEW f, Base(st, f), Responding(f), Transferring(st, f), NEW g \in Frames,
         g.fn = "HttpSendRequest", g.slot = f.slot, g.id = f.id, g.pc \notin {"connect", "end", "failed"},
         f.pc \notin {"end", "failed"}, stack' = WithTop(g),
         UNCHANGED <<request, response, conn>>
  PROVE  During(st, g)'
<1>1. /\ UNCHANGED <<request, incomingResponseConnectionId, conn>>
      /\ UNCHANGED <<incomingResponseState, from>> \/ LeftIsParsed
  BY DEF response
<1> QED BY <1>1, CallReceives

LEMMA CallRuns ==
  ASSUME General, NEW st, NEW f, During(st, f), stack # <<>>, Top.fn = "HttpSendRequest"
  PROVE  /\ Top = f /\ stack = Append(st, f) /\ Base(st, f) /\ f \in Frames /\ f.fn = "HttpSendRequest"
         /\ f.slot \in Slots /\ st \in Seq(Frames)
         /\ f.pc = "connect" => Connecting(st, f)
         /\ f.pc # "connect" => Responding(f) /\ Transferring(st, f)
<1>1. st \in Seq(Frames) /\ f \in Frames /\ Base(st, f) /\ f.fn = "HttpSendRequest" /\ f.slot \in Slots
  BY DEF During, Base
<1>2. ~Closing(st, f)
  <2> SUFFICES ASSUME NEW g \in Frames, g.fn = "TcpClose", stack = Append(Append(st, f), g) PROVE FALSE
    BY DEF Closing
  <2>1. Top = g
    BY <1>1, OnTop DEF Top
  <2> QED BY <2>1
<1>3. stack = Append(st, f)
  BY <1>2 DEF During, Connecting, Transferring
<1>4. Top = f
  BY <1>1, <1>3, OnTop DEF Top
<1> QED BY <1>1, <1>2, <1>3, <1>4 DEF During, Connecting, Responding

(* Its end: the listener is what it was, as it is not bound to a slot. *)
LEMMA CallOver ==
  ASSUME General, NEW st, NEW f, Base(st, f), stack' = st, UNCHANGED request,
         incomingResponseConnectionId' = None, \A s \in Slots : conn'[s].state = "NO_CONNECTION", General'
  PROVE  Server' /\ (MaxClients = 0 => stack' = <<>>)
BY DEF Base, Server, Alone, Served, ListenerBound, Alive, Handling, request

LEMMA CallCalling ==
  ASSUME General, General', ResponseIsOwn, NEW st, NEW f, During(st, f), Calling
  PROVE  /\ ResponseIsOwn' /\ UNCHANGED <<opened, calls>>
         /\ \/ \E g : During(st, g)'
            \/ Server' /\ (MaxClients = 0 => stack' = <<>> /\ \A s \in Slots : conn'[s].state = "NO_CONNECTION")
<1>0. UNCHANGED <<opened, calls>>
  BY DEF Calling, Connected, ConnectFails, RequestPiece, TcpReceiveData, CallWaits, CannotWait, RequestTooLong,
         RequestPieceSent, Received, LeftIsWrong, TransferFails, Return, GiveUp, peers
<1>1. stack # <<>> /\ Top.fn = "HttpSendRequest"
  BY DEF Calling, Connected, ConnectFails, RequestPiece, TcpReceiveData, CallWaits, CannotWait, RequestTooLong,
         RequestPieceSent, Received, LeftIsWrong, TransferFails, Return, Running
<1>2. /\ Top = f /\ stack = Append(st, f) /\ Base(st, f) /\ f \in Frames /\ f.fn = "HttpSendRequest"
      /\ f.slot \in Slots /\ st \in Seq(Frames) /\ Below = st
      /\ f.pc = "connect" => Connecting(st, f)
      /\ f.pc # "connect" => Responding(f) /\ Transferring(st, f)
  BY <1>1, CallRuns, CallTop
<1>3. CASE Connected
  <2>1. f.pc = "connect"
    BY <1>2, <1>3 DEF Connected, Running
  <2>2. Connecting(st, f) /\ f.todo # <<>>
    BY <1>2, <2>1, Fields
  <2> DEFINE g == [f EXCEPT !.pc = "begin"]
  <2>3. g \in Frames /\ g.fn = "HttpSendRequest" /\ g.slot = f.slot /\ g.id = f.id /\ g.pc = "begin"
    BY <1>2, <2>2 DEF Frames, Frame
  <2>4. /\ conn' = [conn EXCEPT ![f.slot].state = "ESTABLISHED"] /\ stack' = Append(st, g)
        /\ incomingResponseConnectionId' = f.slot /\ UNCHANGED <<incomingResponseState, from, request, result>>
    BY <1>2, <1>3 DEF Connected, WithTop
  <2> HIDE DEF g
  <2>5. /\ conn'[f.slot].state = "ESTABLISHED" /\ conn'[f.slot].id = conn[f.slot].id
        /\ \A s \in Slots \ {f.slot} : conn'[s] = conn[s]
    BY <1>2, <2>4 DEF General, ConnOK
  <2>6. Base(st, g)' /\ Responding(g)'
    BY <1>2, <2>2, <2>3, <2>4, <2>5 DEF Base, Responding, Connecting, request
  <2>7. Transferring(st, g)'
    BY <2>2, <2>3, <2>4, <2>5 DEF Connecting, Transferring, OwnConnection
  <2> QED BY <1>0, <2>4, <2>6, <2>7 DEF During, ResponseIsOwn
<1>4. CASE ConnectFails
  <2>1. /\ conn' = [conn EXCEPT ![f.slot] = Free] /\ incomingResponseConnectionId' = None
        /\ stack' = st /\ UNCHANGED <<request, result>>
    BY <1>2, <1>4 DEF ConnectFails
  <2>2. \A s \in Slots : conn'[s].state = "NO_CONNECTION"
    <3>1. conn'[f.slot].state = "NO_CONNECTION" /\ \A s \in Slots \ {f.slot} : conn'[s] = conn[s]
      BY <1>2, <2>1, FreeOK DEF General, ConnOK
    <3> QED BY <1>2, <3>1 DEF Base
  <2> QED BY <1>0, <1>2, <2>1, <2>2, CallOver DEF ResponseIsOwn
<1>5. CASE RequestPiece \/ TcpReceiveData
  <2>1. PICK pc \in {"begin", "receive"} : CallWaits(pc, IF pc = "begin" THEN "wait" ELSE "receiving")
    BY <1>5 DEF RequestPiece, TcpReceiveData
  <2> DEFINE waiting == IF pc = "begin" THEN "wait" ELSE "receiving"
  <2>2. f.pc = pc /\ UNCHANGED <<request, response, conn, result>>
        /\ stack' = WithTop([f EXCEPT !.pc = waiting, !.slot = incomingResponseConnectionId])
    BY <1>2, <2>1 DEF CallWaits, Running
  <2>3. Responding(f) /\ Transferring(st, f) /\ incomingResponseConnectionId = f.slot
    BY <1>2, <2>2 DEF Responding
  <2> DEFINE g == [f EXCEPT !.pc = waiting, !.slot = f.slot]
  <2>4. g \in Frames /\ g.fn = "HttpSendRequest" /\ g.slot = f.slot /\ g.id = f.id
        /\ g.pc \in {"wait", "receiving"}
    <3>1. pc = "begin" => f.todo # <<>>
      BY <1>2, <2>2, Fields
    <3>2. waiting \in {"wait", "receiving"} /\ (waiting = "wait" => f.todo # <<>>)
      BY <3>1
    <3> HIDE DEF waiting
    <3> QED BY <1>2, <2>3, <3>2 DEF Frames, Frame
  <2>5. stack' = WithTop(g)
    BY <2>2, <2>3
  <2> HIDE DEF g
  <2>6. f.pc \notin {"end", "failed"} /\ UNCHANGED <<request, response, conn>>
    BY <2>2
  <2>7. During(st, g)'
    BY <1>2, <2>3, <2>4, <2>5, <2>6, CallWorks
  <2> QED BY <1>0, <2>2, <2>7 DEF ResponseIsOwn
<1>6. ASSUME NEW pc \in {"end", "failed"}, GiveUp(pc), f.pc # "connect"
      PROVE  ResponseIsOwn' /\ \E g : During(st, g)'
  <2>1. TcpDisconnect(incomingResponseConnectionId, WithTop([f EXCEPT !.pc = pc])) /\ UNCHANGED <<response, result>>
    BY <1>2, <1>6 DEF GiveUp
  <2> DEFINE g == [f EXCEPT !.pc = pc]
  <2>2. g \in Frames /\ g.fn = "HttpSendRequest" /\ g.slot = f.slot /\ g.id = f.id /\ g.pc # "connect"
    BY <1>2 DEF Frames, Frame
  <2>3. TcpDisconnect(incomingResponseConnectionId, WithTop(g))
    BY <2>1
  <2> HIDE DEF g
  <2>4. During(st, g)'
    BY <1>2, <1>6, <2>1, <2>2, <2>3, CallDisconnects
  <2> QED BY <2>1, <2>4 DEF ResponseIsOwn
<1>7. CASE CannotWait \/ RequestTooLong \/ TransferFails \/ LeftIsWrong
  <2>1. f.pc # "connect" /\ (GiveUp("end") \/ GiveUp("failed"))
    BY <1>2, <1>7 DEF CannotWait, RequestTooLong, TransferFails, LeftIsWrong, Running
  <2> QED BY <1>0, <1>6, <2>1
<1>8. CASE RequestPieceSent
  <2>1. f.pc = "wait" /\ UNCHANGED <<request, response, conn, result>>
        /\ stack' = WithTop([f EXCEPT !.pc = IF More(f.todo) THEN "begin" ELSE "receive",
                                       !.todo = Tail(@), !.hit = FALSE])
    BY <1>2, <1>8 DEF RequestPieceSent, Running
  <2> DEFINE pc == IF More(f.todo) THEN "begin" ELSE "receive"
             g == [f EXCEPT !.pc = pc, !.todo = Tail(@), !.hit = FALSE]
  <2>2. /\ g \in Frames /\ g.fn = "HttpSendRequest" /\ g.slot = f.slot /\ g.id = f.id
        /\ g.pc \in {"begin", "receive"}
    <3>1. f.todo \in Seq(Pieces) /\ f.todo # <<>>
      BY <1>2, <2>1, Fields
    <3>2. Tail(f.todo) \in Seq(Pieces) /\ (More(f.todo) => Tail(f.todo) # <<>>)
      BY <1>2, <3>1, HeadTail
    <3>3. pc \in {"begin", "receive"} /\ (pc = "begin" => Tail(f.todo) # <<>>)
      BY <3>2
    <3> HIDE DEF pc
    <3> QED BY <1>2, <3>2, <3>3 DEF Frames, Frame
  <2>3. stack' = WithTop(g)
    BY <2>1
  <2> HIDE DEF g
  <2>4. During(st, g)'
    BY <1>2, <2>1, <2>2, <2>3, CallWorks
  <2> QED BY <1>0, <2>1, <2>4 DEF ResponseIsOwn
<1>9. CASE Received
  <2>1. /\ f.pc = "receiving"
        /\ UNCHANGED <<request, incomingResponseConnectionId, conn>>
        /\ UNCHANGED <<incomingResponseState, from>> \/ LeftIsParsed
        /\ UNCHANGED result
        /\ stack' = WithTop([f EXCEPT !.pc = "receive", !.hit = FALSE])
    BY <1>2, <1>9 DEF Received, Running
  <2> DEFINE g == [f EXCEPT !.pc = "receive", !.hit = FALSE]
  <2>2. g \in Frames /\ g.fn = "HttpSendRequest" /\ g.slot = f.slot /\ g.id = f.id /\ g.pc = "receive"
    BY <1>2 DEF Frames, Frame
  <2>3. stack' = WithTop(g)
    BY <2>1
  <2> HIDE DEF g
  <2>4. During(st, g)'
    BY <1>2, <2>1, <2>2, <2>3, CallReceives
  <2> QED BY <1>0, <2>1, <2>4 DEF ResponseIsOwn
<1>10. CASE Return
  <2>1. /\ f.pc \in {"end", "failed"} /\ incomingResponseConnectionId' = None /\ stack' = st
        /\ UNCHANGED <<request, conn>>
        /\ result' = IF f.pc = "end" /\ incomingResponseState = "END_MESSAGE"
                     THEN [own |-> f.id, from |-> from] ELSE result
    BY <1>2, <1>10 DEF Return, Running
  <2>2. Responding(f) /\ Transferring(st, f)
    BY <1>2, <2>1
  <2>3. \A s \in Slots : conn'[s].state = "NO_CONNECTION"
    BY <1>2, <2>1, <2>2 DEF Transferring, Base
  <2>4. ResponseIsOwn'
    BY <2>1, <2>2 DEF Responding, ResponseIsOwn
  <2> QED BY <1>0, <1>2, <2>1, <2>3, <2>4, CallOver
<1> QED BY <1>3, <1>4, <1>5, <1>7, <1>8, <1>9, <1>10 DEF Calling

(* A call begins, when the listener is bound to no slot. *)
LEMMA CallBegins ==
  ASSUME General, General', OneUser, NoPeers, Server, HttpSendRequest
  PROVE  /\ \E st, f : During(st, f)'
         /\ UNCHANGED result /\ opened' = opened + 1 /\ calls' = calls + 1
<1> DEFINE s == FirstEmpty
<1>1. s \in Slots /\ conn[s].state = "NO_CONNECTION"
  BY FirstIsEmpty DEF HttpSendRequest
<1> HIDE DEF s
<1>2. /\ conn' = [conn EXCEPT ![s] = [state |-> "NEW", id |-> opened + 1]]
      /\ opened' = opened + 1 /\ calls' = calls + 1 /\ incomingResponseState' = "WAITING"
      /\ UNCHANGED <<incomingResponseConnectionId, request, result>>
  BY DEF HttpSendRequest, NoResponse, s
<1>3. PICK todo \in Requests :
        stack' = Append(stack, [Call("HttpSendRequest", "connect", s, todo) EXCEPT !.id = opened + 1])
  BY DEF HttpSendRequest, s
<1>4. PICK st, f : st = stack /\ f = [Call("HttpSendRequest", "connect", s, todo) EXCEPT !.id = opened + 1]
  OBVIOUS
<1>5. /\ f \in Frames /\ f.fn = "HttpSendRequest" /\ f.pc = "connect" /\ f.slot = s /\ f.id = opened + 1
  <2>1. opened + 1 \in Ids
    <3>1. opened' \in Nat /\ opened' <= MaxClients + calls' /\ calls' \in 0..MaxCalls /\ opened \in Nat
      BY DEF General, RecordsOK
    <3> QED BY <1>2, <3>1, Sizes DEF Ids
  <2>2. Call("HttpSendRequest", "connect", s, todo) \in Frames
    BY <1>1, CallOK, Lists DEF General
  <2> QED BY <1>4, <2>1, <2>2 DEF Call, Frames, Frame
<1>6. stack' = Append(st, f)
  BY <1>4, <1>3
<1>7. \A r \in Slots \ {s} : conn[r].state = "NO_CONNECTION"
  <2>1. CASE MaxConnections = 1
    BY <1>1, <2>1 DEF Slots
  <2>2. CASE MaxClients = 0
    BY <2>2 DEF NoPeers, Server, Alone
  <2> QED BY <2>1, <2>2 DEF OneUser
<1>8. incomingRequestState = "NO_REQUEST" /\ incomingRequestConnectionId = None
  <2>1. incomingRequestConnectionId \in Slots => conn[incomingRequestConnectionId].state = "NO_CONNECTION"
    BY <1>1, <1>7
  <2> QED BY <2>1 DEF Server, Served, ListenerBound, General, RequestOK
<1>9. /\ conn'[s] = [state |-> "NEW", id |-> opened + 1] /\ \A r \in Slots \ {s} : conn'[r] = conn[r]
  BY <1>1, <1>2 DEF General, ConnOK
<1>10. Connecting(st, f)'
  BY <1>2, <1>5, <1>6, <1>9 DEF Connecting, OwnConnection, Server, Alone
<1>11. Base(st, f)'
  <2>1. st \in Seq(Frames) /\ NoCalls(st) /\ (MaxClients = 0 => st = <<>>)
    BY <1>4 DEF General, StackOK, Server, Alone, NoPeers
  <2> QED BY <1>1, <1>2, <1>5, <1>7, <1>8, <1>9, <2>1 DEF Base, request
<1>12. opened \in Nat /\ calls \in Nat
  BY Sizes DEF General, RecordsOK
<1> QED BY <1>2, <1>10, <1>11, <1>12 DEF During

LEMMA CallInProgress == ASSUME NEW st, NEW f, During(st, f)' PROVE ~NoCalls(stack')
<1>1. st \in Seq(Frames) /\ f \in Frames /\ f.fn = "HttpSendRequest"
  BY DEF During, Base
<1>2. CASE stack' = Append(st, f)
  BY <1>1, <1>2, CallNotIdle
<1>3. CASE Closing(st, f)'
  BY <1>1, <1>3, CallNotIdle DEF Closing
<1> QED BY <1>2, <1>3 DEF During, Connecting, Transferring

(* Between calls. *)
LEMMA IdleStep ==
  ASSUME General, General', OneUser, NoPeers, ResponseIsOwn, Server, Next
  PROVE  User'
<1>1. CASE Network \/ TcpCloseEnds \/ Answering
  <2>1. Server'
    BY <1>1, NetworkServed, DataServed, CloseServed, AnsweringServed DEF Network, Server
  <2>2. MaxClients # 0
    <3> SUFFICES ASSUME MaxClients = 0 PROVE FALSE
      OBVIOUS
    <3>1. opened >= calls /\ opened \in Nat /\ calls \in Nat
      BY Sizes DEF NoPeers, General, RecordsOK
    <3>2. stack = <<>> /\ \A s \in Slots : conn[s].state = "NO_CONNECTION"
      BY DEF NoPeers, Server, Alone
    <3>3. ~Syn
      BY <3>1 DEF Syn
    <3>4. ~TcpCloseEnds /\ ~Answering
      BY <3>2 DEF TcpCloseEnds, Answering, SendPiece, TooLong, PieceSent, PieceFails, HttpSendResponse,
                  CallbackReturns, InCallback, Running
    <3> QED BY <1>1, <3>2, <3>3, <3>4 DEF Network, Ack, Fin, Data, Established
  <2>3. UNCHANGED result
    BY <1>1 DEF Network, Syn, Ack, Fin, Data, TcpCloseEnds, Answering, SendPiece, TooLong, PieceSent, PieceFails,
                HttpSendResponse, CallbackReturns
  <2> QED BY <2>1, <2>2, <2>3 DEF User, NoPeers, ResponseIsOwn
<1>2. CASE HttpSendRequest
  <2>1. (\E st, f : During(st, f)') /\ UNCHANGED result /\ opened' = opened + 1 /\ calls' = calls + 1
    BY <1>2, CallBegins
  <2>2. ~NoCalls(stack')
    BY <2>1, CallInProgress
  <2>3. opened >= calls => opened' >= calls'
    <3>1. opened \in Nat /\ calls \in Nat
      BY Sizes DEF General, RecordsOK
    <3>2. opened' = opened + 1 /\ calls' = calls + 1
      BY <2>1
    <3> QED BY <3>1, <3>2
  <2> QED BY <2>1, <2>2, <2>3 DEF User, NoPeers, ResponseIsOwn
<1>3. CASE NoSlot
  <2>1. /\ calls' = calls + 1 /\ opened' = opened + 1 /\ incomingResponseConnectionId' = None
        /\ UNCHANGED <<request, conn, stack, result>>
    BY <1>3 DEF NoSlot
  <2>2. Server'
    BY <2>1 DEF Server, Alone, Served, ListenerBound, Alive, Handling, InCallback, Running, Established, Top, request
  <2>3. opened >= calls => opened' >= calls'
    <3>1. opened \in Nat /\ calls \in Nat
      BY Sizes DEF General, RecordsOK
    <3> QED BY <2>1, <3>1
  <2> QED BY <2>1, <2>2, <2>3 DEF User, NoPeers, ResponseIsOwn
<1>4. ~Calling
  <2> SUFFICES ASSUME stack # <<>>, Top.fn = "HttpSendRequest" PROVE FALSE
    BY DEF Calling, Connected, ConnectFails, RequestPiece, TcpReceiveData, CallWaits, CannotWait, RequestTooLong,
           RequestPieceSent, Received, LeftIsWrong, TransferFails, Return, Running
  <2> QED BY TopNoCalls DEF Server
<1> QED BY <1>1, <1>2, <1>3, <1>4 DEF Next, Library

(* In a call. *)
LEMMA CallStep ==
  ASSUME General, General', OneUser, NoPeers, ResponseIsOwn, NEW st, NEW f, During(st, f), Next
  PROVE  User'
<1>1. ASSUME (\E g : During(st, g)'), UNCHANGED <<result, opened, calls>> PROVE User'
  <2>1. ~NoCalls(stack')
    BY <1>1, CallInProgress
  <2> QED BY <1>1, <2>1 DEF User, NoPeers, ResponseIsOwn
<1>2. CASE Network
  BY <1>1, <1>2, CallNetwork
<1>3. CASE TcpCloseEnds
  BY <1>1, <1>3, CallCloses
<1>4. CASE Calling
  <2>1. ResponseIsOwn' /\ UNCHANGED <<opened, calls>>
    BY <1>4, CallCalling
  <2>2. CASE \E g : During(st, g)'
    <3>1. ~NoCalls(stack')
      BY <2>2, CallInProgress
    <3> QED BY <2>1, <2>2, <3>1 DEF User, NoPeers
  <2>3. CASE Server' /\ (MaxClients = 0 => stack' = <<>> /\ \A s \in Slots : conn'[s].state = "NO_CONNECTION")
    BY <2>1, <2>3 DEF User, NoPeers
  <2> QED BY <1>4, <2>2, <2>3, CallCalling
<1>5. ~Answering /\ ~HttpSendRequest /\ ~NoSlot
  <2>1. stack # <<>> /\ ~InCallback
    BY OnlySlot
  <2>2. Top.fn # "HttpSendResponse"
    <3>1. st \in Seq(Frames) /\ f \in Frames /\ f.fn = "HttpSendRequest"
      BY DEF During, Base
    <3>2. CASE stack = Append(st, f)
      BY <3>1, <3>2, OnTop DEF Top
    <3>3. CASE Closing(st, f)
      <4>1. PICK g \in Frames : g.fn = "TcpClose" /\ stack = Append(Append(st, f), g)
        BY <3>3 DEF Closing
      <4>2. Top = g
        BY <3>1, <4>1, OnTop DEF Top
      <4> QED BY <4>1, <4>2
    <3> QED BY <3>2, <3>3 DEF During, Connecting, Transferring
  <2> QED BY <2>1, <2>2 DEF Answering, SendPiece, TooLong, PieceSent, PieceFails, Running, HttpSendResponse,
                            CallbackReturns, HttpSendRequest, NoSlot, MayCall
<1> QED BY <1>2, <1>3, <1>4, <1>5 DEF Next, Library

LEMMA UserStep == ASSUME OneUser PROVE User /\ [Next]_vars => User'
<1> SUFFICES ASSUME User, [Next]_vars PROVE User'
  OBVIOUS
<1>1. General /\ General'
  BY GeneralStep DEF User
<1>2. CASE UNCHANGED vars
  <2>1. ResponseIsOwn' /\ NoPeers'
    BY <1>2 DEF User, vars, peers, ResponseIsOwn, NoPeers
  <2>2. Server => Server'
    BY <1>1, <1>2 DEF vars, request, response, Server, Alone, Served, ListenerBound, Alive, Handling, InCallback,
                      Running, Established, Top
  <2>3. \A st, f : During(st, f) => During(st, f)'
    BY <1>2 DEF vars, request, response, During, Base, Responding, Connecting, Transferring, Closing, OwnConnection
  <2> QED BY <1>1, <2>1, <2>2, <2>3 DEF User
<1>3. CASE Next
  BY <1>1, <1>3, IdleStep, CallStep DEF User
<1> QED BY <1>2, <1>3

LEMMA UserInit == Init => User
<1> SUFFICES ASSUME Init PROVE User
  OBVIOUS
<1>1. NoPeers
  BY DEF Init, NoPeers, Free
<1>2. ResponseIsOwn
  BY DEF Init, ResponseIsOwn
<1> QED BY <1>1, <1>2, ServerInit, GeneralInit DEF User

LEMMA UserCorrect == ASSUME OneUser PROVE Spec => []User
<1>1. User /\ [Next]_vars => User'
  BY UserStep
<1> QED BY UserInit, <1>1, PTL DEF Spec

(* The response that a call returns came in no connection but the one that *)
(* the call opened: in none of the listener's or of an earlier call.  (It  *)
(* may if a peer gets a slot that was a call's while a callback that waits *)
(* keeps the call from noticing.  And it may be completed by what packets  *)
(* have left in the buffer, without a connection: HttpReused.)             *)
THEOREM OwnResponse == ASSUME OneUser PROVE Spec => []ResponseIsOwn
<1>1. User => ResponseIsOwn
  BY DEF User
<1> QED BY UserCorrect, <1>1, PTL

(* The listener is bound to a connection that lives, or ready, whatever    *)
(* its clients do, while the application makes no calls or nobody else can *)
(* get the slot of a call.  (Otherwise it need not be: HttpReused.)        *)
THEOREM ListenerLives == ASSUME MaxCalls = 0 \/ OneUser PROVE Spec => []ListenerBound
<1>1. CASE MaxCalls = 0
  <2>1. Server /\ [Next]_vars => Server'
    BY <1>1, ServerStep
  <2>2. Server => ListenerBound
    BY DEF Server, Served
  <2> QED BY ServerInit, <2>1, <2>2, PTL DEF Spec
<1>2. CASE OneUser
  <2>1. User => ListenerBound
    BY DEF User, Server, Served, During, Base, ListenerBound
  <2> QED BY <1>2, UserCorrect, <2>1, PTL
<1> QED BY <1>1, <1>2

(* No connection is left open that nobody is responsible for: each one     *)
(* that lives is the listener's, or that of a call in progress.            *)
THEOREM NoneForgotten == ASSUME MaxCalls = 0 \/ OneUser PROVE Spec => []NoOrphans
<1>1. CASE MaxCalls = 0
  <2>1. Server /\ [Next]_vars => Server'
    BY <1>1, ServerStep
  <2>2. Server => NoOrphans
    BY DEF Server, Served, Alive, NoOrphans
  <2> QED BY ServerInit, <2>1, <2>2, PTL DEF Spec
<1>2. CASE OneUser
  <2>1. Server => NoOrphans
    BY DEF Server, Served, Alive, NoOrphans
  <2>2. ASSUME NEW st, NEW f, During(st, f) PROVE NoOrphans
    <3> SUFFICES ASSUME NEW s \in Slots, Alive(s)
                 PROVE  \E k \in DOMAIN stack : stack[k].fn = "HttpSendRequest" /\ stack[k].id = conn[s].id
      BY DEF NoOrphans, Alive
    <3>1. s = f.slot /\ stack = Append(st, f) /\ OwnConnection(f)
      BY <2>2 DEF During, Base, Alive, Connecting, Transferring, Closing
    <3>2. st \in Seq(Frames) /\ f \in Frames /\ f.fn = "HttpSendRequest"
      BY <2>2 DEF During, Base
    <3>3. Len(st) + 1 \in DOMAIN stack /\ stack[Len(st) + 1] = f
      BY <3>1, <3>2, Pushed
    <3> QED BY <3>1, <3>2, <3>3 DEF OwnConnection
  <2>3. User => NoOrphans
    BY <2>1, <2>2 DEF User
  <2> QED BY <1>2, UserCorrect, <2>3, PTL
<1> QED BY <1>1, <1>2

(***************************************************************************)
(* What a polite client is sent                                            *)
(***************************************************************************)
Answerer(f) == f.fn = "HttpSendResponse"
Rest(f) == IF f.pc = "begin" THEN f.todo ELSE Tail(f.todo)

(* What was sent and what is still to be sent are an answer. *)
Completes(f, fin, o) == f.slot \in Slots /\ f.id \in fin /\ o[f.id] \o Rest(f) \in Answers

(* A function that answers either runs or closes the connection it has     *)
(* answered in, and each connection has one at most.                       *)
AnswersOK(st, c, fin, o) ==
  /\ \A k \in DOMAIN st : Answerer(st[k]) =>
       /\ Completes(st[k], fin, o)
       /\ k < Len(st) => st[k + 1].fn = "TcpClose" /\ st[k + 1].slot = st[k].slot
       /\ k = Len(st) /\ c[st[k].slot].state = "ESTABLISHED" => c[st[k].slot].id = st[k].id
  /\ \A j, k \in DOMAIN st : Answerer(st[j]) /\ Answerer(st[k]) /\ st[j].id = st[k].id => j = k

(* A row that may have to be sent again. *)
Row(f, c) ==
  /\ f.fn = "HttpSendResponse" /\ f.pc = "wait" /\ Head(f.todo) \in {"status", "length"}
  /\ ~f.hit /\ c[f.slot] = [state |-> "ESTABLISHED", id |-> f.id]
Rows(st, c, u) == \A k \in DOMAIN st : Row(st[k], c) => u = Head(st[k].todo)

Untouched == \A i \in Ids \ finished : i \notin handled /\ out[i] = <<>>
Numbered ==
  /\ \A i \in finished : i <= opened
  /\ \A s \in Slots : conn[s].id <= opened
  /\ \A s \in Slots : conn[s].state = "SYN_RECEIVED" => conn[s].id \notin finished
Unanswered ==
  incomingRequestState = "REQUEST_HANDLING" =>
    /\ Top.id \in finished /\ out[Top.id] = <<>>
    /\ \A k \in DOMAIN stack : Answerer(stack[k]) => stack[k].id # Top.id

Answered ==
  /\ AnswersOK(stack, conn, finished, out) /\ Rows(stack, conn, url)
  /\ Untouched /\ Numbered /\ Unanswered /\ OneAnswer

(* A function that is no answerer is called. *)
LEMMA PushOther ==
  ASSUME NEW st \in Seq(Frames), NEW c, NEW d, NEW fin, NEW o, AnswersOK(st, c, fin, o),
         NEW f \in Frames, ~Answerer(f),
         st # <<>> /\ Answerer(Last(st)) => f.fn = "TcpClose" /\ f.slot = Last(st).slot
  PROVE  AnswersOK(Append(st, f), d, fin, o)
<1> DEFINE t == Append(st, f)
<1>1. /\ Len(st) \in Nat /\ Len(t) = Len(st) + 1 /\ DOMAIN st = 1..Len(st) /\ DOMAIN t = 1..(Len(st) + 1)
      /\ t[Len(st) + 1] = f /\ \A k \in 1..Len(st) : t[k] = st[k]
  BY Pushed
<1> HIDE DEF t
<1>2. \A k \in DOMAIN t : Answerer(t[k]) => k \in DOMAIN st /\ t[k] = st[k]
  BY <1>1
<1>3. ASSUME NEW k \in DOMAIN t, Answerer(t[k])
      PROVE  /\ Completes(t[k], fin, o) /\ k < Len(t)
             /\ t[k + 1].fn = "TcpClose" /\ t[k + 1].slot = t[k].slot
  <2>1. k \in DOMAIN st /\ t[k] = st[k] /\ Answerer(st[k])
    BY <1>2, <1>3
  <2>2. CASE k = Len(st)
    <3>1. st # <<>> /\ Last(st) = st[k]
      BY <1>1, <2>1, <2>2 DEF Last
    <3> QED BY <1>1, <2>1, <2>2, <3>1 DEF AnswersOK
  <2>3. CASE k # Len(st)
    <3>1. k < Len(st) /\ k + 1 \in 1..Len(st)
      BY <1>1, <2>1, <2>3
    <3> QED BY <1>1, <2>1, <3>1 DEF AnswersOK
  <2> QED BY <2>2, <2>3
<1>4. ASSUME NEW j \in DOMAIN t, NEW k \in DOMAIN t, Answerer(t[j]), Answerer(t[k]), t[j].id = t[k].id
      PROVE  j = k
  BY <1>2, <1>4 DEF AnswersOK
<1>5. \A k \in DOMAIN t : k < Len(t) => k # Len(t)
  BY <1>1
<1>6. AnswersOK(t, d, fin, o)
  BY <1>3, <1>4, <1>5 DEF AnswersOK
<1> QED BY <1>6 DEF t

(* An answer is begun, on top of a function that does not answer. *)
LEMMA PushAnswerer ==
  ASSUME NEW st \in Seq(Frames), NEW c, NEW fin, NEW o, AnswersOK(st, c, fin, o),
         NEW f \in Frames, Completes(f, fin, o), st # <<>> => ~Answerer(Last(st)),
         c[f.slot].state = "ESTABLISHED" => c[f.slot].id = f.id,
         \A k \in DOMAIN st : Answerer(st[k]) => st[k].id # f.id
  PROVE  AnswersOK(Append(st, f), c, fin, o)
<1> DEFINE t == Append(st, f)
<1>1. /\ Len(st) \in Nat /\ Len(t) = Len(st) + 1 /\ DOMAIN st = 1..Len(st) /\ DOMAIN t = 1..(Len(st) + 1)
      /\ t[Len(st) + 1] = f /\ \A k \in 1..Len(st) : t[k] = st[k]
  BY Pushed
<1> HIDE DEF t
<1>2. \A k \in DOMAIN t : k = Len(t) \/ (k \in DOMAIN st /\ t[k] = st[k])
  BY <1>1
<1>3. ASSUME NEW k \in DOMAIN t, k # Len(t), Answerer(t[k])
      PROVE  /\ Completes(t[k], fin, o)
             /\ t[k + 1].fn = "TcpClose" /\ t[k + 1].slot = t[k].slot
  <2>1. k \in DOMAIN st /\ t[k] = st[k] /\ Answerer(st[k])
    BY <1>2, <1>3
  <2>2. CASE k = Len(st)
    <3>1. st # <<>> /\ Last(st) = st[k]
      BY <1>1, <2>1, <2>2 DEF Last
    <3> QED BY <2>1, <3>1
  <2>3. CASE k # Len(st)
    <3>1. k < Len(st) /\ k + 1 \in 1..Len(st)
      BY <1>1, <2>1, <2>3
    <3> QED BY <1>1, <2>1, <3>1 DEF AnswersOK
  <2> QED BY <2>2, <2>3
<1>4. t[Len(t)] = f
  BY <1>1
<1>5. ASSUME NEW j \in DOMAIN t, NEW k \in DOMAIN t, Answerer(t[j]), Answerer(t[k]), t[j].id = t[k].id
      PROVE  j = k
  <2>1. CASE j \in DOMAIN st /\ t[j] = st[j] /\ k \in DOMAIN st /\ t[k] = st[k]
    BY <1>5, <2>1 DEF AnswersOK
  <2>2. CASE j = Len(t) \/ k = Len(t)
    BY <1>2, <1>4, <1>5, <2>2
  <2> QED BY <1>2, <2>1, <2>2
<1>6. \A k \in DOMAIN t : k < Len(t) => k # Len(t)
  BY <1>1
<1>7. AnswersOK(t, c, fin, o)
  BY <1>3, <1>4, <1>5, <1>6 DEF AnswersOK
<1> QED BY <1>7 DEF t

(* The function on top ends: nothing runs below it but, under a TcpClose,  *)
(* what answered in the connection that is then no longer.                 *)
LEMMA PopAnswers ==
  ASSUME NEW b, NEW st, StackOK(b, st), st # <<>>, NEW c, NEW d, NEW fin, NEW o, AnswersOK(st, c, fin, o),
         Last(st).fn = "TcpClose" => d[Last(st).slot].state # "ESTABLISHED"
  PROVE  /\ AnswersOK(Front(st), d, fin, o)
         /\ Last(st).fn # "TcpClose" /\ Front(st) # <<>> => ~Answerer(Last(Front(st)))
         /\ Answerer(Last(st)) =>
              \A k \in DOMAIN Front(st) : Answerer(Front(st)[k]) => Front(st)[k].id # Last(st).id
<1> DEFINE t == Front(st)
<1>1. /\ Len(st) \in Nat /\ Len(st) > 0 /\ DOMAIN st = 1..Len(st)
      /\ Last(st) = st[Len(st)] /\ t \in Seq(Frames) /\ Len(t) = Len(st) - 1
      /\ \A k \in 1..(Len(st) - 1) : t[k] = st[k]
  BY TopAndBelow
<1>2. DOMAIN t = 1..(Len(st) - 1)
  BY <1>1, LenProperties
<1> HIDE DEF t
<1>3. \A k \in DOMAIN t : /\ k \in DOMAIN st /\ t[k] = st[k] /\ k < Len(st)
                          /\ k < Len(t) => k + 1 \in DOMAIN t /\ t[k + 1] = st[k + 1]
                          /\ k = Len(t) => k + 1 = Len(st)
  BY <1>1, <1>2
<1>4. ASSUME NEW k \in DOMAIN t, Answerer(t[k])
      PROVE  /\ Completes(t[k], fin, o)
             /\ k < Len(t) => t[k + 1].fn = "TcpClose" /\ t[k + 1].slot = t[k].slot
             /\ k = Len(t) => Last(st).fn = "TcpClose" /\ Last(st).slot = t[k].slot
  <2>1. /\ Completes(st[k], fin, o) /\ st[k + 1].fn = "TcpClose" /\ st[k + 1].slot = st[k].slot
    BY <1>3, <1>4 DEF AnswersOK
  <2> QED BY <1>1, <1>3, <2>1
<1>5. ASSUME NEW j \in DOMAIN t, NEW k \in DOMAIN t, Answerer(t[j]), Answerer(t[k]), t[j].id = t[k].id
      PROVE  j = k
  BY <1>3, <1>5 DEF AnswersOK
<1>6. AnswersOK(t, d, fin, o)
  BY <1>4, <1>5 DEF AnswersOK
<1>7. Last(st).fn # "TcpClose" /\ t # <<>> => ~Answerer(Last(t))
  <2> SUFFICES ASSUME t # <<>>, Answerer(Last(t)) PROVE Last(st).fn = "TcpClose"
    OBVIOUS
  <2>1. Len(t) \in DOMAIN t
    <3>1. Len(t) # 0
      BY <1>1, EmptySeq
    <3> QED BY <1>1, <1>2, <3>1
  <2> QED BY <1>4, <2>1 DEF Last
<1>8. Answerer(Last(st)) => \A k \in DOMAIN t : Answerer(t[k]) => t[k].id # Last(st).id
  <2>1. Len(st) \in DOMAIN st /\ \A k \in DOMAIN t : k # Len(st)
    BY <1>1, <1>2
  <2> QED BY <1>1, <1>3, <2>1 DEF AnswersOK
<1> QED BY <1>6, <1>7, <1>8 DEF t

(* Peers finish, and something is sent in a connection nobody answers in. *)
LEMMA KeepsAnswers ==
  ASSUME NEW st, NEW c, NEW fin, NEW o, AnswersOK(st, c, fin, o), NEW g, fin \subseteq g, NEW p,
         \A k \in DOMAIN st : Answerer(st[k]) => p[st[k].id] = o[st[k].id]
  PROVE  AnswersOK(st, c, g, p)
<1>1. \A k \in DOMAIN st : Answerer(st[k]) => Completes(st[k], g, p)
  BY DEF AnswersOK, Completes
<1> QED BY <1>1 DEF AnswersOK

(* The function that answers goes on. *)
LEMMA AnswerGoesOn ==
  ASSUME NEW b, StackOK(b, stack), NEW c, NEW fin, NEW o, AnswersOK(stack, c, fin, o), stack # <<>>, Answerer(Top),
         NEW f \in Frames, Answerer(f), f.slot = Top.slot, f.id = Top.id,
         NEW p, \A i \in fin \ {f.id} : p[i] = o[i], Completes(f, fin, p),
         c[f.slot].state = "ESTABLISHED" => c[f.slot].id = f.id
  PROVE  AnswersOK(WithTop(f), c, fin, p)
<1>1. Top.fn # "TcpClose"
  BY DEF Answerer
<1> DEFINE t == Below
<1>2. /\ AnswersOK(t, c, fin, o)
      /\ t # <<>> => ~Answerer(Last(t))
      /\ \A k \in DOMAIN t : Answerer(t[k]) => t[k].id # f.id
  BY <1>1, PopAnswers DEF Top, Below
<1>3. t \in Seq(Frames)
  BY TopAndBelow DEF Below
<1> HIDE DEF t
<1>4. \A k \in DOMAIN t : Answerer(t[k]) => t[k].id \in fin
  BY <1>2 DEF AnswersOK, Completes
<1>5. \A k \in DOMAIN t : Answerer(t[k]) => p[t[k].id] = o[t[k].id]
  BY <1>2, <1>4
<1>6. AnswersOK(t, c, fin, p)
  BY <1>2, <1>5, KeepsAnswers
<1>7. AnswersOK(Append(t, f), c, fin, p)
  BY <1>2, <1>3, <1>6, PushAnswerer
<1> QED BY <1>7 DEF WithTop, t

LEMMA AnswersTable ==
  ASSUME NEW st, NEW c, NEW d, NEW fin, NEW o, AnswersOK(st, c, fin, o),
         (st # <<>> /\ Answerer(Last(st)) /\ d[Last(st).slot].state = "ESTABLISHED")
           => d[Last(st).slot].id = Last(st).id,
         st \in Seq(Frames)
  PROVE  AnswersOK(st, d, fin, o)
<1>1. \A k \in DOMAIN st : k = Len(st) => st # <<>> /\ Last(st) = st[k]
  BY EmptySeq, LenProperties DEF Last
<1> QED BY <1>1 DEF AnswersOK

(* Rows: what is pushed is no row yet, *)
LEMMA PushRows ==
  ASSUME NEW st \in Seq(Frames), NEW c, NEW u, Rows(st, c, u),
         NEW f \in Frames, Row(f, c) => u = Head(f.todo)
  PROVE  Rows(Append(st, f), c, u)
<1> DEFINE t == Append(st, f)
<1>1. /\ Len(st) \in Nat /\ DOMAIN st = 1..Len(st) /\ DOMAIN t = 1..(Len(st) + 1)
      /\ t[Len(st) + 1] = f /\ \A k \in 1..Len(st) : t[k] = st[k]
  BY Pushed
<1> HIDE DEF t
<1>2. \A k \in DOMAIN t : t[k] = f \/ (k \in DOMAIN st /\ t[k] = st[k])
  BY <1>1
<1>3. Rows(t, c, u)
  BY <1>2 DEF Rows
<1> QED BY <1>3 DEF t

(* and of the functions below the top only those are rows that were. *)
LEMMA PopRows ==
  ASSUME NEW b, NEW st, StackOK(b, st), st # <<>>, NEW c, NEW u, Rows(st, c, u)
  PROVE  Rows(Front(st), c, u)
<1> DEFINE t == Front(st)
<1>1. /\ Len(st) \in Nat /\ Len(st) > 0 /\ DOMAIN st = 1..Len(st)
      /\ t \in Seq(Frames) /\ Len(t) = Len(st) - 1 /\ \A k \in 1..(Len(st) - 1) : t[k] = st[k]
  BY TopAndBelow
<1>2. DOMAIN t = 1..(Len(st) - 1)
  BY <1>1, LenProperties
<1> HIDE DEF t
<1>3. \A k \in DOMAIN t : k \in DOMAIN st /\ t[k] = st[k]
  BY <1>1, <1>2
<1>4. Rows(t, c, u)
  BY <1>3 DEF Rows
<1> QED BY <1>4 DEF t

(* A connection is established whose client has not finished. *)
LEMMA RowsTable ==
  ASSUME NEW st, NEW c, NEW u, Rows(st, c, u), NEW b, NEW fin, NEW o, AnswersOK(st, b, fin, o),
         NEW d, \A s \in Slots : d[s].state = "ESTABLISHED" => d[s] = c[s] \/ d[s].id \notin fin
  PROVE  Rows(st, d, u)
<1> SUFFICES ASSUME NEW k \in DOMAIN st, Row(st[k], d) PROVE u = Head(st[k].todo)
  BY DEF Rows
<1>1. st[k].slot \in Slots /\ st[k].id \in fin
  BY DEF AnswersOK, Completes, Row, Answerer
<1>2. d[st[k].slot].state = "ESTABLISHED" /\ d[st[k].slot].id = st[k].id
  BY DEF Row
<1>3. d[st[k].slot] = c[st[k].slot]
  BY <1>1, <1>2
<1>4. Row(st[k], c)
  BY <1>3 DEF Row
<1> QED BY <1>4 DEF Rows

(* No row waits below the top: its slot is being closed. *)
LEMMA NoRowsBelow ==
  ASSUME NEW c, NEW st, StackOK(c, st), st # <<>>, NEW fin, NEW o, AnswersOK(st, c, fin, o), NEW u
  PROVE  Rows(Front(st), c, u)
<1> DEFINE t == Front(st)
<1>1. /\ Len(st) \in Nat /\ Len(st) > 0 /\ DOMAIN st = 1..Len(st)
      /\ t \in Seq(Frames) /\ Len(t) = Len(st) - 1 /\ \A k \in 1..(Len(st) - 1) : t[k] = st[k]
  BY TopAndBelow
<1>2. DOMAIN t = 1..(Len(st) - 1)
  BY <1>1, LenProperties
<1> HIDE DEF t
<1>3. \A k \in DOMAIN t : k \in DOMAIN st /\ t[k] = st[k] /\ k < Len(st) /\ k + 1 \in DOMAIN st
  BY <1>1, <1>2
<1>4. ASSUME NEW k \in DOMAIN t, Row(t[k], c) PROVE FALSE
  <2>1. st[k + 1].fn = "TcpClose" /\ st[k + 1].slot = t[k].slot /\ k + 1 \in DOMAIN st
    BY <1>3, <1>4 DEF AnswersOK, Row, Answerer
  <2>2. c[t[k].slot].state = "DYEING"
    BY <2>1 DEF StackOK, Holding, Holder, HeldAs
  <2>3. c[t[k].slot].state = "ESTABLISHED"
    BY <1>4 DEF Row
  <2> QED BY <2>2, <2>3
<1>5. Rows(t, c, u)
  BY <1>4 DEF Rows
<1> QED BY <1>5 DEF t

(* A piece moves from what is still to be sent to what was. *)
LEMMA Moves ==
  ASSUME NEW o \in Seq(Pieces), NEW t \in Seq(Pieces), t # <<>>
  PROVE  Append(o, Head(t)) \o Tail(t) = o \o t
<1>1. Head(t) \in Pieces /\ Tail(t) \in Seq(Pieces) /\ Len(t) \in Nat /\ Len(t) > 0
  BY HeadTailProperties, EmptySeq, LenProperties
<1>2. <<Head(t)>> \o Tail(t) = t
  <2>1. SubSeq(t, 1, Len(t)) = t /\ Tail(t) = SubSeq(t, 2, Len(t)) /\ Head(t) = t[1]
    BY SubSeqFull, TailIsSubSeq
  <2>2. 1 \in 1..Len(t) /\ Len(t) \in 1..Len(t) /\ 1 + 1 = 2
    BY <1>1
  <2>3. SubSeq(t, 1, Len(t)) = <<t[1]>> \o SubSeq(t, 1 + 1, Len(t))
    BY <2>2, SubSeqRecursiveFirst
  <2> QED BY <2>1, <2>2, <2>3, Zenon
<1>3. <<Head(t)>> \in Seq(Pieces)
  BY <1>1
<1>4. Append(o, Head(t)) = o \o <<Head(t)>>
  BY <1>1, AppendIsConcat
<1>5. (o \o <<Head(t)>>) \o Tail(t) = o \o (<<Head(t)>> \o Tail(t))
  <2>1. ASSUME NEW a \in Seq(Pieces), NEW b \in Seq(Pieces), NEW c \in Seq(Pieces)
        PROVE  (a \o b) \o c = a \o (b \o c)
    BY ConcatAssociative, SMTT(30)
  <2> QED BY <1>1, <1>3, <2>1, Zenon
<1> QED BY <1>2, <1>4, <1>5, Zenon

LEMMA Begins == ASSUME NEW o \in Seq(Pieces), NEW r \in Seq(Pieces) PROVE IsPrefix(o, o \o r)
<1>1. /\ Len(o) \in Nat /\ Len(r) \in Nat /\ o \o r \in Seq(Pieces) /\ Len(o \o r) = Len(o) + Len(r)
  BY ConcatProperties, LenProperties
<1>2. SubSeq(o, 1, Len(o)) = SubSeq(o \o r, 1, Len(o))
  <2>1. CASE Len(o) = 0
    <3>1. SubSeq(o, 1, 0) = <<>> /\ SubSeq(o \o r, 1, 0) = <<>>
      BY <1>1, SubSeqEmpty
    <3> QED BY <2>1, <3>1
  <2>2. CASE Len(o) > 0
    <3>1. 1 \in 1..Len(o) /\ Len(o) \in 1..Len(o)
      BY <1>1, <2>2
    <3>2. SubSeq(o \o r, 1, Len(o)) = SubSeq(o, 1, Len(o))
      BY <3>1, SubSeqOfConcat1, Zenon
    <3> QED BY <3>2
  <2> QED BY <1>1, <2>1, <2>2
<1>3. Len(o) <= Len(o \o r)
  BY <1>1
<1> QED BY <1>2, <1>3, Zenon DEF IsPrefix

(* A connection ends: TcpClose is called, by what answered in it, by its   *)
(* callback, or because the client ended it.                               *)
LEMMA DiesAnswered ==
  ASSUME Server, Answered, NEW s \in Slots, Established(s), NEW st, StackOK(conn, st), NoCalls(st),
         AnswersOK(st, conn, finished, out), Rows(st, conn, url),
         st # <<>> /\ Answerer(Last(st)) => Last(st).slot = s,
         Dies(s, st), UNCHANGED <<response, url, peers, handled, out>>
  PROVE  Answered'
<1> DEFINE f == Call("TcpClose", "wait", s, <<>>)
<1>1. f \in Frames
  BY CallOK, Lists DEF Server, General
<1>2. f.fn = "TcpClose" /\ f.slot = s /\ ~Answerer(f) /\ stack' = Append(st, f) /\ ~Row(f, conn)
  BY DEF Call, Dies, Answerer, Row
<1> HIDE DEF f
<1>3. st \in Seq(Frames)
  BY DEF StackOK
<1>4. conn[s].state = "ESTABLISHED"
  BY DEF Established
<1>5. /\ conn'[s].state = "DYEING" /\ conn'[s].id = conn[s].id
      /\ \A r \in Slots \ {s} : conn'[r] = conn[r]
  BY <1>4, DiesOK DEF Server, General
<1>6. AnswersOK(stack', conn', finished, out)
  BY <1>1, <1>2, <1>3, PushOther
<1>7. Rows(stack', conn', url)
  <2>1. Rows(stack', conn, url)
    BY <1>1, <1>2, <1>3, PushRows
  <2>2. \A r \in Slots : conn'[r].state = "ESTABLISHED" => conn'[r] = conn[r] \/ conn'[r].id \notin finished
    BY <1>5
  <2> QED BY <1>6, <2>1, <2>2, RowsTable
<1>8. Numbered'
  BY <1>5 DEF Answered, Numbered, peers
<1>9. incomingRequestState' = "NO_REQUEST"
  <2>1. UNCHANGED response
    OBVIOUS
  <2> QED BY <2>1, DiesServed
<1> QED BY <1>6, <1>7, <1>8, <1>9 DEF Answered, Untouched, Unanswered, OneAnswer, peers

(* The function on top ends, if it is no TcpClose. *)
LEMMA EndsAnswered ==
  ASSUME Server, Answered, stack # <<>>, Top.fn # "TcpClose"
  PROVE  /\ StackOK(conn, Below) /\ NoCalls(Below)
         /\ AnswersOK(Below, conn, finished, out) /\ Rows(Below, conn, url)
         /\ Below # <<>> => ~Answerer(Last(Below))
<1>1. StackOK(conn, stack)
  BY DEF Server, General
<1>2. /\ AnswersOK(Front(stack), conn, finished, out)
      /\ Last(stack).fn # "TcpClose" /\ Front(stack) # <<>> => ~Answerer(Last(Front(stack)))
  BY <1>1, PopAnswers DEF Answered, Top
<1>3. Rows(Front(stack), conn, url)
  BY <1>1, PopRows DEF Answered
<1>4. StackOK(conn, Below) /\ NoCalls(Below)
  BY TopNoCalls DEF Server
<1> QED BY <1>2, <1>3, <1>4 DEF Top, Below

LEMMA DisconnectAnswered ==
  ASSUME Server, Answered, stack # <<>>, Top.fn # "TcpClose", NEW s \in Slots \cup {None}, TcpDisconnect(s, Below),
         incomingRequestState = "REQUEST_HANDLING" => Established(s),
         UNCHANGED <<response, url, peers, handled, out>>
  PROVE  Answered'
<1>0. /\ StackOK(conn, Below) /\ NoCalls(Below)
      /\ AnswersOK(Below, conn, finished, out) /\ Rows(Below, conn, url)
      /\ Below # <<>> => ~Answerer(Last(Below))
  BY EndsAnswered
<1>1. CASE Established(s)
  <2>1. s \in Slots /\ Dies(s, Below)
    BY <1>1 DEF Established, TcpDisconnect
  <2> QED BY <1>0, <1>1, <2>1, DiesAnswered
<1>2. CASE ~Established(s)
  <2>1. UNCHANGED <<conn, request>> /\ stack' = Below /\ incomingRequestState # "REQUEST_HANDLING"
    BY <1>2 DEF TcpDisconnect
  <2> QED BY <1>0, <2>1 DEF Answered, Untouched, Numbered, Unanswered, OneAnswer, peers, request
<1> QED BY <1>1, <1>2

LEMMA CloseAnswered == ASSUME Server, Answered, TcpCloseEnds PROVE Answered'
<1>1. /\ stack # <<>> /\ Top.fn = "TcpClose" /\ Holder(Top)
      /\ conn' = [conn EXCEPT ![Top.slot] = Free] /\ stack' = Below
      /\ UNCHANGED <<request, response, url, peers, handled, out>>
  BY DEF TcpCloseEnds, Running, Holder
<1>2. incomingRequestState # "REQUEST_HANDLING"
  BY <1>1 DEF Server, Handling, InCallback, Running
<1>3. StackOK(conn, stack)
  BY DEF Server, General
<1>4. Top.slot \in Slots /\ conn'[Top.slot] = Free /\ \A r \in Slots \ {Top.slot} : conn'[r] = conn[r]
  <2>1. Top.slot \in Slots
    BY <1>1, <1>3, Released DEF Top
  <2> QED BY <1>1, <2>1 DEF Server, General, ConnOK
<1>5. Free.state = "NO_CONNECTION" /\ Free.id = 0
  BY DEF Free
<1>6. AnswersOK(stack', conn', finished, out)
  <2>1. Last(stack).fn = "TcpClose" => conn'[Last(stack).slot].state # "ESTABLISHED"
    BY <1>4, <1>5 DEF Top
  <2>2. AnswersOK(Front(stack), conn', finished, out)
    BY <1>1, <1>3, <2>1, PopAnswers DEF Answered
  <2> QED BY <1>1, <2>2 DEF Below
<1>7. Rows(stack', conn', url)
  <2>1. Rows(Front(stack), conn, url)
    BY <1>1, <1>3, PopRows DEF Answered
  <2>2. \A r \in Slots : conn'[r].state = "ESTABLISHED" => conn'[r] = conn[r] \/ conn'[r].id \notin finished
    BY <1>4, <1>5
  <2>3. Rows(stack', conn, url)
    BY <1>1, <2>1 DEF Below
  <2> QED BY <1>6, <2>2, <2>3, RowsTable
<1>8. Numbered'
  <2>1. 0 <= opened
    BY DEF Server, General, RecordsOK
  <2>2. \A r \in Slots : conn'[r].id <= opened /\ (conn'[r].state = "SYN_RECEIVED" => conn'[r].id \notin finished)
    BY <1>4, <1>5, <2>1 DEF Answered, Numbered
  <2> QED BY <1>1, <2>2 DEF Answered, Numbered, peers
<1> QED BY <1>1, <1>2, <1>6, <1>7, <1>8 DEF Answered, Untouched, Unanswered, OneAnswer, peers, request

(* What is awaited on top of the stack is awaited in the connection that   *)
(* is served.                                                              *)
LEMMA ServedTop ==
  ASSUME Server, Answered, Listening, NEW s \in Slots, Established(s), stack # <<>>, Answerer(Top)
  PROVE  Top.slot = s /\ Top.id = conn[s].id /\ Top.id \in finished /\ Established(Top.slot)
<1>1. Established(Top.slot)
  BY DEF Listening, Running, Answerer
<1>2. StackOK(conn, stack)
  BY DEF Server, General
<1>3. Len(stack) \in Nat /\ Len(stack) > 0 /\ DOMAIN stack = 1..Len(stack) /\ Last(stack) = stack[Len(stack)]
  BY <1>2, TopAndBelow
<1>4. Len(stack) \in DOMAIN stack /\ Top = stack[Len(stack)]
  BY <1>3 DEF Top
<1>5. /\ Completes(Top, finished, out)
      /\ conn[Top.slot].state = "ESTABLISHED" => conn[Top.slot].id = Top.id
  BY <1>4 DEF Answered, AnswersOK
<1>6. Top.slot \in Slots /\ conn[Top.slot].state = "ESTABLISHED" /\ conn[s].state = "ESTABLISHED"
  BY <1>1, <1>5 DEF Established, Completes
<1>7. Top.slot = s
  BY <1>6 DEF Server, Served, Alive
<1> QED BY <1>1, <1>5, <1>6, <1>7 DEF Completes

LEMMA NetworkAnswered ==
  ASSUME Server, Answered, Syn \/ \E s \in Slots : Ack(s) \/ Fin(s) PROVE Answered'
<1>0. StackOK(conn, stack) /\ stack \in Seq(Frames) /\ ConnOK(conn)
  BY DEF Server, General, StackOK
<1>1. CASE Syn
  <2> DEFINE r == FirstEmpty
  <2>1. r \in Slots /\ conn[r].state = "NO_CONNECTION"
    BY <1>1, FirstIsEmpty DEF Syn
  <2>2. /\ conn' = [conn EXCEPT ![r] = [state |-> "SYN_RECEIVED", id |-> opened + 1]]
        /\ opened' = opened + 1 /\ incomingRequestState' = "START_REQUEST"
        /\ UNCHANGED <<url, stack, finished, handled, out>>
    BY <1>1 DEF Syn
  <2> HIDE DEF r
  <2>3. /\ conn'[r].state = "SYN_RECEIVED" /\ conn'[r].id = opened + 1
        /\ \A s \in Slots \ {r} : conn'[s] = conn[s]
    BY <1>0, <2>1, <2>2 DEF ConnOK
  <2>4. opened \in Nat /\ finished \subseteq Nat /\ \A s \in Slots : conn[s].id \in Nat
    <3>1. opened \in Nat /\ finished \subseteq Ids
      BY DEF Server, General, RecordsOK
    <3>2. \A s \in Slots : conn[s].id \in Ids \cup {0}
      BY <1>0 DEF ConnOK
    <3>3. Ids \subseteq Nat /\ Ids \cup {0} \subseteq Nat
      BY Sizes
    <3> QED BY <3>1, <3>2, <3>3, Zenon
  <2>5. AnswersOK(stack, conn', finished, out)
    <3>1. \A s \in Slots : conn'[s].state = "ESTABLISHED" => conn'[s] = conn[s]
      BY <2>3
    <3>2. (stack # <<>> /\ Answerer(Last(stack)) /\ conn'[Last(stack).slot].state = "ESTABLISHED")
            => conn'[Last(stack).slot].id = Last(stack).id
      <4> SUFFICES ASSUME stack # <<>>, Answerer(Last(stack)), conn'[Last(stack).slot].state = "ESTABLISHED"
                   PROVE  conn'[Last(stack).slot].id = Last(stack).id
        OBVIOUS
      <4>1. Len(stack) \in Nat /\ Len(stack) > 0 /\ DOMAIN stack = 1..Len(stack) /\ Last(stack) = stack[Len(stack)]
        BY <1>0, TopAndBelow
      <4>2. Len(stack) \in DOMAIN stack
        BY <4>1
      <4>3. /\ Last(stack).slot \in Slots
            /\ conn[Last(stack).slot].state = "ESTABLISHED" => conn[Last(stack).slot].id = Last(stack).id
        BY <4>1, <4>2 DEF Answered, AnswersOK, Completes
      <4> QED BY <3>1, <4>3
    <3> QED BY <1>0, <3>2, AnswersTable DEF Answered
  <2>6. Rows(stack, conn', url)
    <3>1. \A s \in Slots : conn'[s].state = "ESTABLISHED" => conn'[s] = conn[s] \/ conn'[s].id \notin finished
      BY <2>3
    <3> QED BY <2>5, <3>1, RowsTable DEF Answered
  <2>7. Numbered'
    <3>1. opened + 1 \notin finished
      BY <2>4 DEF Answered, Numbered
    <3>2. \A i \in finished : i <= opened + 1
      BY <2>4 DEF Answered, Numbered
    <3>3. \A s \in Slots : conn'[s].id <= opened + 1 /\ (conn'[s].state = "SYN_RECEIVED" => conn'[s].id \notin finished)
      <4> TAKE s \in Slots
      <4>1. CASE s = r
        BY <2>3, <2>4, <3>1, <4>1
      <4>2. CASE s # r
        BY <2>3, <2>4, <4>2 DEF Answered, Numbered
      <4> QED BY <4>1, <4>2
    <3> QED BY <2>2, <3>2, <3>3 DEF Numbered
  <2> QED BY <2>2, <2>5, <2>6, <2>7 DEF Answered, Untouched, Unanswered, OneAnswer
<1>2. ASSUME NEW s \in Slots, Ack(s) PROVE Answered'
  <2>1. /\ Listening /\ conn[s].state = "SYN_RECEIVED" /\ conn' = [conn EXCEPT ![s].state = "ESTABLISHED"]
        /\ UNCHANGED <<request, url, stack, peers, handled, out>>
    BY <1>2 DEF Ack
  <2>2. /\ conn'[s].state = "ESTABLISHED" /\ conn'[s].id = conn[s].id
        /\ \A r \in Slots \ {s} : conn'[r] = conn[r]
    BY <1>0, <2>1 DEF ConnOK
  <2>3. incomingRequestState # "REQUEST_HANDLING"
    BY <2>1, NotHandling
  <2>4. ASSUME stack # <<>>, Answerer(Last(stack)) PROVE FALSE
    <3>1. Established(Top.slot)
      BY <2>1, <2>4 DEF Listening, Running, Answerer, Top
    <3>2. Len(stack) \in Nat /\ Len(stack) > 0 /\ DOMAIN stack = 1..Len(stack) /\ Last(stack) = stack[Len(stack)]
      BY <1>0, <2>4, TopAndBelow
    <3>3. Len(stack) \in DOMAIN stack
      BY <3>2
    <3>4. Last(stack).slot \in Slots
      BY <2>4, <3>2, <3>3 DEF Answered, AnswersOK, Completes
    <3>5. conn[Last(stack).slot].state = "ESTABLISHED"
      BY <3>1 DEF Top, Established
    <3> QED BY <2>1, <3>4, <3>5 DEF Server, Served, Alive
  <2>5. AnswersOK(stack, conn', finished, out)
    BY <1>0, <2>4, AnswersTable DEF Answered
  <2>6. Rows(stack, conn', url)
    <3>1. \A r \in Slots : conn'[r].state = "ESTABLISHED" => conn'[r] = conn[r] \/ conn'[r].id \notin finished
      BY <2>1, <2>2 DEF Answered, Numbered
    <3> QED BY <2>5, <3>1, RowsTable DEF Answered
  <2>7. Numbered'
    <3>1. \A r \in Slots : conn'[r].id <= opened /\ (conn'[r].state = "SYN_RECEIVED" => conn'[r].id \notin finished)
      BY <2>2 DEF Answered, Numbered
    <3> QED BY <2>1, <3>1 DEF Answered, Numbered, peers
  <2> QED BY <2>1, <2>3, <2>5, <2>6, <2>7 DEF Answered, Untouched, Unanswered, OneAnswer, peers, request
<1>3. ASSUME NEW s \in Slots, Fin(s) PROVE Answered'
  <2>1. PICK stk \in Returning(s) : Dies(s, stk)
    BY <1>3 DEF Fin
  <2>2. Listening /\ Established(s) /\ UNCHANGED <<response, url, peers, handled, out>>
    BY <1>3 DEF Fin
  <2>3. NoCalls(stk) /\ StackOK(conn, stk)
    BY <2>1, ReturningNoCalls DEF Server
  <2>4. CASE stk = stack
    <3>1. stk # <<>> /\ Answerer(Last(stk)) => Last(stk).slot = s
      BY <2>2, <2>4, ServedTop DEF Top
    <3> QED BY <2>1, <2>2, <2>3, <2>4, <3>1, DiesAnswered DEF Answered
  <2>5. CASE Awaits(s) /\ stk = WithTop([Top EXCEPT !.hit = TRUE])
    <3> DEFINE f == [Top EXCEPT !.hit = TRUE]
    <3>1. stack # <<>> /\ Top.slot = s
      BY <2>5 DEF Awaits
    <3>2. Top \in Frames /\ Answerer(Top) /\ Below \in Seq(Frames)
      BY <2>5, <3>1, TopNoCalls DEF Awaits, Server, Answerer
    <3>3. /\ f \in Frames /\ Answerer(f) /\ f.slot = Top.slot /\ f.id = Top.id /\ f.hit /\ Rest(f) = Rest(Top)
      BY <3>2 DEF Frames, Frame, Answerer, Rest
    <3>4. stk = WithTop(f)
      BY <2>5
    <3> HIDE DEF f
    <3>5. Len(stack) \in DOMAIN stack /\ Top = stack[Len(stack)]
      <4>1. Len(stack) \in Nat /\ Len(stack) > 0 /\ DOMAIN stack = 1..Len(stack) /\ Last(stack) = stack[Len(stack)]
        BY <1>0, <3>1, TopAndBelow
      <4> QED BY <4>1 DEF Top
    <3>6. /\ Completes(f, finished, out)
          /\ conn[f.slot].state = "ESTABLISHED" => conn[f.slot].id = f.id
      BY <3>2, <3>3, <3>5 DEF Answered, AnswersOK, Completes
    <3>7. AnswersOK(stk, conn, finished, out)
      BY <1>0, <3>1, <3>2, <3>3, <3>4, <3>6, AnswerGoesOn DEF Answered
    <3>8. Rows(stk, conn, url)
      <4>1. Rows(Front(stack), conn, url)
        BY <1>0, <3>1, PopRows DEF Answered
      <4>2. Rows(Below, conn, url) /\ ~Row(f, conn)
        BY <3>3, <4>1 DEF Below, Row
      <4> QED BY <3>2, <3>3, <3>4, <4>2, PushRows DEF WithTop
    <3>9. stk # <<>> /\ Last(stk).slot = s
      <4>1. /\ Append(Below, f) # <<>> /\ Len(Below) \in Nat /\ Len(Append(Below, f)) = Len(Below) + 1
            /\ Append(Below, f)[Len(Below) + 1] = f
        BY <3>2, <3>3, Pushed
      <4> QED BY <3>1, <3>3, <3>4, <4>1 DEF WithTop, Last
    <3> QED BY <2>1, <2>2, <2>3, <3>7, <3>8, <3>9, DiesAnswered
  <2> QED BY <2>1, <2>4, <2>5 DEF Returning
<1> QED BY <1>1, <1>2, <1>3

LEMMA DataAnswered ==
  ASSUME Polite, Server, Answered, NEW s \in Slots, NEW parsed \in {"part", "rest", "error"}, Data(s, parsed)
  PROVE  Answered'
<1> DEFINE i == conn[s].id
<1>0. StackOK(conn, stack) /\ stack \in Seq(Frames) /\ ConnOK(conn)
  BY DEF Server, General, StackOK
<1>1. /\ s = incomingRequestConnectionId /\ conn[s].state = "ESTABLISHED" /\ i \in Ids /\ s # None
      /\ incomingRequestState # "REQUEST_HANDLING"
  BY DataIsRequest, Sizes
<1>2. /\ Listening /\ Established(s) /\ i \notin finished /\ UNCHANGED <<opened, out>>
      /\ finished' = IF parsed = "part" THEN finished ELSE finished \cup {i}
  BY DEF Data
<1>3. stack # <<>> => ~Answerer(Top)
  BY <1>2, ServedTop
<1>4. HttpParseRequest(s, parsed, stack)
  <2>1. ~Awaits(s)
    BY <1>3, TopNoCalls DEF Awaits, Answerer, Server
  <2>2. Returning(s) = {stack}
    BY <2>1 DEF Returning
  <2> QED BY <2>2, DataIsRequest
<1>5. url' = "url" /\ conn' = conn
  BY <1>4 DEF HttpParseRequest
<1>6. out[i] = <<>> /\ i \notin handled
  BY <1>1, <1>2 DEF Answered, Untouched
<1> HIDE DEF i
<1>7. AnswersOK(stack, conn, finished', out)
  BY <1>2, KeepsAnswers DEF Answered
<1>8. \A k \in DOMAIN stack : Answerer(stack[k]) => stack[k].id \in finished /\ stack[k].slot \in Slots
  BY DEF Answered, AnswersOK, Completes
<1>9. Rows(stack, conn, url')
  <2> SUFFICES ASSUME NEW k \in DOMAIN stack, Row(stack[k], conn) PROVE FALSE
    BY DEF Rows
  <2>1. stack[k].slot \in Slots /\ stack[k].id \in finished
    BY <1>8 DEF Row, Answerer
  <2>2. conn[stack[k].slot].state = "ESTABLISHED" /\ conn[stack[k].slot].id = stack[k].id
    BY DEF Row
  <2>3. stack[k].slot = s
    BY <1>1, <2>1, <2>2 DEF Server, Served, Alive
  <2> QED BY <1>2, <2>1, <2>2, <2>3 DEF i
<1>10. Numbered'
  <2>1. i <= opened
    BY DEF Answered, Numbered, i
  <2>2. \A r \in Slots : conn[r].state # "SYN_RECEIVED"
    BY <1>1 DEF Server, Served, Alive
  <2> QED BY <1>2, <1>5, <2>1, <2>2 DEF Answered, Numbered
<1>11. OneAnswer'
  BY <1>2 DEF Answered, OneAnswer
<1>12. CASE parsed = "part"
  <2>1. stack' = stack /\ incomingRequestState' = "PART" /\ handled' = handled /\ finished' = finished
    BY <1>1, <1>2, <1>4, <1>12 DEF HttpParseRequest
  <2>2. Untouched' /\ Unanswered'
    BY <1>2, <2>1 DEF Answered, Untouched, Unanswered
  <2> QED BY <1>2, <1>5, <1>7, <1>9, <1>10, <1>11, <2>1, <2>2 DEF Answered
<1>13. (i \in finished' /\ finished' = finished \cup {i}) \/ parsed = "part"
  BY <1>2
<1>14. CASE parsed = "error"
  <2> DEFINE f == Call("HttpSendResponse", "begin", s, ErrorAnswer)
  <2>1. f \in Frames
    BY <1>0, CallOK, Lists
  <2>2. f.fn = "HttpSendResponse" /\ f.pc = "begin" /\ f.slot = s /\ f.id = i /\ f.todo = ErrorAnswer
    BY <1>1 DEF Call, i
  <2>3. /\ stack' = Append(stack, f) /\ incomingRequestState' = "START_REQUEST" /\ handled' = handled
    BY <1>4, <1>14 DEF HttpParseRequest
  <2> HIDE DEF f
  <2>4. i \in finished' /\ finished' = finished \cup {i}
    BY <1>13, <1>14
  <2>5. Completes(f, finished', out)
    <3>1. <<>> \o ErrorAnswer = ErrorAnswer
      BY Lists, ConcatEmptySeq
    <3>2. out[f.id] \o Rest(f) = ErrorAnswer
      BY <1>6, <2>2, <3>1, Zenon DEF Rest
    <3> QED BY <2>2, <2>4, <3>2, Lists, Zenon DEF Completes
  <2>6. AnswersOK(stack', conn, finished', out)
    <3>1. \A k \in DOMAIN stack : Answerer(stack[k]) => stack[k].id # f.id
      BY <1>2, <1>8, <2>2
    <3>2. stack # <<>> => ~Answerer(Last(stack))
      BY <1>3 DEF Top
    <3>3. conn[f.slot].state = "ESTABLISHED" => conn[f.slot].id = f.id
      BY <2>2 DEF i
    <3> QED BY <1>0, <1>7, <2>1, <2>3, <2>5, <3>1, <3>2, <3>3, PushAnswerer
  <2>7. Rows(stack', conn, url')
    <3>1. ~Row(f, conn)
      BY <2>2 DEF Row
    <3> QED BY <1>0, <1>9, <2>1, <2>3, <3>1, PushRows
  <2>8. Untouched' /\ Unanswered'
    BY <1>2, <2>3, <2>4 DEF Answered, Untouched, Unanswered
  <2> QED BY <1>2, <1>5, <1>10, <1>11, <2>6, <2>7, <2>8 DEF Answered
<1>15. CASE parsed = "rest"
  <2> DEFINE f == Call("HttpOnIncomingRequest", "begin", s, <<>>)
  <2>1. f \in Frames
    BY <1>0, CallOK, Lists
  <2>2. f.fn = "HttpOnIncomingRequest" /\ f.slot = s /\ f.id = i /\ ~Answerer(f) /\ ~Row(f, conn)
    BY <1>1 DEF Call, i, Answerer, Row
  <2>3. /\ stack' = Append(stack, f) /\ handled' = handled \cup {i}
    BY <1>1, <1>4, <1>15 DEF HttpParseRequest, i
  <2> HIDE DEF f
  <2>4. i \in finished' /\ finished' = finished \cup {i}
    BY <1>13, <1>15
  <2>5. AnswersOK(stack', conn, finished', out)
    <3>1. stack # <<>> => ~Answerer(Last(stack))
      BY <1>3 DEF Top
    <3> QED BY <1>0, <1>7, <2>1, <2>2, <2>3, <3>1, PushOther
  <2>6. Rows(stack', conn, url')
    BY <1>0, <1>9, <2>1, <2>2, <2>3, PushRows
  <2>7. Untouched'
    BY <1>2, <2>3, <2>4 DEF Answered, Untouched
  <2>8. Unanswered'
    <3>1. /\ Len(stack) \in Nat /\ Len(stack') = Len(stack) + 1 /\ stack'[Len(stack) + 1] = f
          /\ DOMAIN stack = 1..Len(stack) /\ DOMAIN stack' = 1..(Len(stack) + 1)
          /\ \A k \in 1..Len(stack) : stack'[k] = stack[k]
      BY <1>0, <2>1, <2>3, Pushed
    <3>2. Top' = f
      BY <3>1 DEF Top, Last
    <3>3. \A k \in DOMAIN stack' : Answerer(stack'[k]) => k \in DOMAIN stack /\ stack'[k] = stack[k]
      BY <2>2, <3>1
    <3>4. \A k \in DOMAIN stack' : Answerer(stack'[k]) => stack'[k].id # i
      BY <1>2, <1>8, <3>3
    <3> QED BY <1>2, <1>6, <2>2, <2>4, <3>2, <3>4 DEF Unanswered
  <2> QED BY <1>2, <1>5, <1>10, <1>11, <2>5, <2>6, <2>7, <2>8 DEF Answered
<1> QED BY <1>12, <1>14, <1>15

LEMMA AnsweringAnswered == ASSUME Server, Answered, Answering PROVE Answered'
<1>0. StackOK(conn, stack) /\ stack \in Seq(Frames) /\ ConnOK(conn)
  BY DEF Server, General, StackOK
<1>1. ASSUME stack # <<>>, Top.fn = "HttpSendResponse"
      PROVE  /\ incomingRequestState # "REQUEST_HANDLING" /\ Top \in Frames /\ Answerer(Top) /\ Top.fn # "TcpClose"
             /\ Top.slot \in Slots \cup {None} /\ Top.todo # <<>> /\ Top.todo \in Seq(Pieces)
             /\ Completes(Top, finished, out) /\ Top.id \in Ids /\ Below \in Seq(Frames)
             /\ conn[Top.slot].state = "ESTABLISHED" => conn[Top.slot].id = Top.id
  <2>1. Len(stack) \in Nat /\ Len(stack) > 0 /\ DOMAIN stack = 1..Len(stack) /\ Last(stack) = stack[Len(stack)]
    BY <1>0, <1>1, TopAndBelow
  <2>2. Len(stack) \in DOMAIN stack /\ Top = stack[Len(stack)]
    BY <2>1 DEF Top
  <2>3. /\ Completes(Top, finished, out)
        /\ conn[Top.slot].state = "ESTABLISHED" => conn[Top.slot].id = Top.id
    BY <1>1, <2>2 DEF Answered, AnswersOK, Answerer
  <2>4. Top \in Frames /\ Below \in Seq(Frames)
    BY <1>1, TopNoCalls DEF Server
  <2>5. Top.id \in Ids
    BY <2>3 DEF Completes, Server, General, RecordsOK
  <2>6. Top.todo # <<>> /\ Top.todo \in Seq(Pieces) /\ Top.slot \in Slots \cup {None}
    BY <1>1, <2>4, Fields
  <2>7. incomingRequestState # "REQUEST_HANDLING"
    BY <1>1 DEF Server, Handling, InCallback, Running
  <2> QED BY <1>1, <2>3, <2>4, <2>5, <2>6, <2>7 DEF Answerer
<1>2. CASE SendPiece
  <2>1. /\ stack # <<>> /\ Top.fn = "HttpSendResponse" /\ Top.pc = "begin"
        /\ UNCHANGED <<request, response, conn, peers, handled>> /\ url' = Rewritten(Head(Top.todo))
    BY <1>2 DEF SendPiece, Running
  <2>2. /\ incomingRequestState # "REQUEST_HANDLING" /\ Top \in Frames /\ Answerer(Top) /\ Top.fn # "TcpClose"
        /\ Top.todo # <<>> /\ Top.todo \in Seq(Pieces)
        /\ Completes(Top, finished, out) /\ Top.id \in Ids /\ Below \in Seq(Frames)
        /\ conn[Top.slot].state = "ESTABLISHED" => conn[Top.slot].id = Top.id
    BY <1>1, <2>1
  <2>3. Numbered' /\ Unanswered'
    BY <2>1, <2>2 DEF Answered, Numbered, Unanswered, peers, request
  <2>4. Rows(Below, conn, url')
    <3>1. Rows(Front(stack), conn, url')
      BY <1>0, <2>1, NoRowsBelow DEF Answered
    <3> QED BY <3>1 DEF Below
  <2>5. CASE Established(Top.slot)
    <3> DEFINE f == [Top EXCEPT !.pc = "wait"]
               i == Top.id
    <3>1. conn[Top.slot].id = i
      BY <2>2, <2>5 DEF Established
    <3>2. stack' = WithTop(f) /\ out' = [out EXCEPT ![i] = Append(@, Head(Top.todo))]
      BY <1>2, <2>5, <3>1 DEF SendPiece
    <3>3. /\ f \in Frames /\ Answerer(f) /\ f.slot = Top.slot /\ f.id = i /\ f.todo = Top.todo /\ f.pc = "wait"
      BY <2>1, <2>2 DEF Frames, Frame, Answerer
    <3> HIDE DEF f
    <3>4. /\ out[i] \in Seq(Pieces) /\ Head(Top.todo) \in Pieces /\ Tail(Top.todo) \in Seq(Pieces)
          /\ i \in Ids /\ out \in [Ids -> Seq(Pieces)]
      BY <2>2, HeadTailProperties DEF Server, General, RecordsOK
    <3>5. out'[i] = Append(out[i], Head(Top.todo)) /\ \A j \in Ids \ {i} : out'[j] = out[j]
      BY <3>2, <3>4
    <3>6. out'[i] \in Seq(Pieces)
      BY <3>4, <3>5, AppendProperties
    <3>7. out'[i] \o Tail(Top.todo) = out[i] \o Top.todo
      <4>1. Append(out[i], Head(Top.todo)) \o Tail(Top.todo) = out[i] \o Top.todo
        BY <2>2, <3>4, Moves
      <4> QED BY <3>5, <4>1, Zenon
    <3>8. i \in finished /\ out[i] \o Top.todo \in Answers /\ Top.slot \in Slots
      BY <2>1, <2>2 DEF Completes, Rest
    <3>9. Completes(f, finished, out')
      <4>1. Rest(f) = Tail(Top.todo)
        BY <3>3 DEF Rest
      <4> QED BY <3>3, <3>7, <3>8, <4>1, Zenon DEF Completes
    <3>10. AnswersOK(stack', conn, finished, out')
      <4>1. \A j \in finished \ {f.id} : out'[j] = out[j]
        BY <3>3, <3>5 DEF Server, General, RecordsOK
      <4> QED BY <1>0, <2>1, <2>2, <3>2, <3>3, <3>9, <4>1, AnswerGoesOn DEF Answered
    <3>11. Rows(stack', conn, url')
      <4>1. Row(f, conn) => url' = Head(f.todo)
        BY <2>1, <3>3 DEF Row, Rewritten
      <4> QED BY <2>2, <2>4, <3>2, <3>3, <4>1, PushRows DEF WithTop
    <3>12. Untouched'
      BY <2>1, <3>5, <3>8 DEF Answered, Untouched, peers
    <3>13. OneAnswer'
      <4>1. IsPrefix(out'[i], out'[i] \o Tail(Top.todo))
        BY <3>4, <3>6, Begins
      <4>2. \E a \in Answers : IsPrefix(out'[i], a)
        BY <3>7, <3>8, <4>1, Zenon
      <4>3. \A j \in Ids \ {i} : \E a \in Answers : IsPrefix(out'[j], a)
        BY <3>5 DEF Answered, OneAnswer
      <4> QED BY <4>2, <4>3 DEF OneAnswer
    <3> QED BY <2>1, <2>3, <3>10, <3>11, <3>12, <3>13 DEF Answered, peers
  <2>6. CASE ~Established(Top.slot)
    <3>1. stack' = Below /\ UNCHANGED out
      BY <1>2, <2>6 DEF SendPiece
    <3>2. AnswersOK(Below, conn, finished, out)
      BY <2>1, <2>2, EndsAnswered
    <3> QED BY <2>1, <2>3, <2>4, <3>1, <3>2 DEF Answered, Untouched, OneAnswer, peers
  <2> QED BY <2>5, <2>6
<1>3. CASE TooLong \/ PieceFails
  <2>1. stack # <<>> /\ Top.fn = "HttpSendResponse" /\ TcpDisconnect(Top.slot, Below)
        /\ UNCHANGED <<response, url, peers, handled, out>>
    BY <1>3 DEF TooLong, PieceFails, Running
  <2> QED BY <1>1, <2>1, DisconnectAnswered
<1>4. CASE PieceSent
  <2>1. stack # <<>> /\ Top.fn = "HttpSendResponse" /\ Top.pc = "wait" /\ UNCHANGED <<response, url, peers, handled, out>>
    BY <1>4 DEF PieceSent, Running
  <2>2. /\ incomingRequestState # "REQUEST_HANDLING" /\ Top \in Frames /\ Answerer(Top) /\ Top.fn # "TcpClose"
        /\ Top.slot \in Slots \cup {None} /\ Top.todo # <<>> /\ Top.todo \in Seq(Pieces)
        /\ Completes(Top, finished, out) /\ Below \in Seq(Frames)
        /\ conn[Top.slot].state = "ESTABLISHED" => conn[Top.slot].id = Top.id
    BY <1>1, <2>1
  <2>3. CASE More(Top.todo)
    <3> DEFINE f == [Top EXCEPT !.pc = "begin", !.todo = Tail(@), !.hit = FALSE]
    <3>1. stack' = WithTop(f) /\ UNCHANGED <<conn, request>>
      BY <1>4, <2>3 DEF PieceSent
    <3>2. Tail(Top.todo) \in Seq(Pieces) /\ Tail(Top.todo) # <<>>
      BY <2>2, <2>3, HeadTail
    <3>3. /\ f \in Frames /\ Answerer(f) /\ f.slot = Top.slot /\ f.id = Top.id /\ f.pc = "begin"
          /\ f.todo = Tail(Top.todo)
      BY <2>1, <2>2, <3>2 DEF Frames, Frame, Answerer
    <3> HIDE DEF f
    <3>4. Completes(f, finished, out)
      <4>1. Rest(f) = Rest(Top)
        BY <2>1, <3>3 DEF Rest
      <4> QED BY <2>2, <3>3, <4>1, Zenon DEF Completes
    <3>5. AnswersOK(stack', conn, finished, out)
      BY <1>0, <2>1, <2>2, <3>1, <3>3, <3>4, AnswerGoesOn DEF Answered
    <3>6. Rows(stack', conn, url)
      <4>1. Rows(Below, conn, url) /\ ~Row(f, conn)
        BY <2>1, <2>2, <3>3, EndsAnswered DEF Row
      <4> QED BY <2>2, <3>1, <3>3, <4>1, PushRows DEF WithTop
    <3> QED BY <2>1, <2>2, <3>1, <3>5, <3>6
            DEF Answered, Untouched, Numbered, Unanswered, OneAnswer, peers, request
  <2>4. CASE ~More(Top.todo)
    <3>1. TcpDisconnect(Top.slot, Below)
      BY <1>4, <2>4 DEF PieceSent
    <3> QED BY <2>1, <2>2, <3>1, DisconnectAnswered
  <2> QED BY <2>3, <2>4
<1>5. CASE HttpSendResponse
  <2>1. /\ InCallback /\ incomingRequestState = "REQUEST_HANDLING" /\ incomingRequestState' = "START_REQUEST"
        /\ UNCHANGED <<url, conn, peers, handled, out>>
    BY <1>5 DEF HttpSendResponse, MayAnswer
  <2> DEFINE s == incomingRequestConnectionId
             i == Top.id
  <2>2. PICK todo \in Answers : stack' = Append(stack, Call("HttpSendResponse", "begin", s, todo))
    BY <1>5 DEF HttpSendResponse
  <2> DEFINE f == Call("HttpSendResponse", "begin", s, todo)
  <2>3. s \in Slots /\ s # None /\ conn[s].id = i /\ ~Answerer(Top)
    <3>1. Top.slot = s /\ Established(Top.slot) /\ i = conn[Top.slot].id /\ s \in Slots \cup {None}
      BY <2>1 DEF Server, Handling, General, RequestOK
    <3> QED BY <2>1, <3>1 DEF Established, Answerer, InCallback, Running
  <2>4. i \in finished /\ out[i] = <<>> /\ \A k \in DOMAIN stack : Answerer(stack[k]) => stack[k].id # i
    BY <2>1 DEF Answered, Unanswered
  <2>5. f \in Frames
    BY <1>0, <2>3, Lists, CallOK
  <2>6. f.fn = "HttpSendResponse" /\ f.pc = "begin" /\ f.slot = s /\ f.id = i /\ f.todo = todo
    BY <2>3 DEF Call
  <2>7. stack' = Append(stack, f)
    BY <2>2
  <2> HIDE DEF f
  <2>8. Completes(f, finished, out)
    <3>1. <<>> \o todo = todo
      BY Lists, ConcatEmptySeq
    <3>2. out[f.id] \o Rest(f) = todo
      BY <2>4, <2>6, <3>1, Zenon DEF Rest
    <3> QED BY <2>3, <2>4, <2>6, <3>2, Zenon DEF Completes
  <2>9. AnswersOK(stack', conn, finished, out)
    <3>1. stack # <<>> => ~Answerer(Last(stack))
      BY <2>3 DEF Top
    <3>2. /\ conn[f.slot].state = "ESTABLISHED" => conn[f.slot].id = f.id
          /\ \A k \in DOMAIN stack : Answerer(stack[k]) => stack[k].id # f.id
      BY <2>3, <2>4, <2>6
    <3> QED BY <1>0, <2>5, <2>7, <2>8, <3>1, <3>2, PushAnswerer DEF Answered
  <2>10. Rows(stack', conn, url)
    <3>1. ~Row(f, conn)
      BY <2>6 DEF Row
    <3> QED BY <1>0, <2>5, <2>7, <3>1, PushRows DEF Answered
  <2> QED BY <2>1, <2>9, <2>10 DEF Answered, Untouched, Numbered, Unanswered, OneAnswer, peers
<1>6. CASE CallbackReturns
  <2>1. /\ stack # <<>> /\ Top.fn # "TcpClose" /\ UNCHANGED <<response, url, peers, handled, out>>
    BY <1>6 DEF CallbackReturns, InCallback, Running
  <2>2. CASE incomingRequestState = "REQUEST_HANDLING"
    <3>1. TcpDisconnect(Top.slot, Below) /\ Established(Top.slot) /\ Top.slot \in Slots \cup {None}
      BY <1>6, <2>1, <2>2, TopOK DEF CallbackReturns, Server, Handling
    <3> QED BY <2>1, <3>1, DisconnectAnswered
  <2>3. CASE incomingRequestState # "REQUEST_HANDLING"
    <3>1. stack' = Below /\ UNCHANGED <<conn, request>>
      BY <1>6, <2>3 DEF CallbackReturns
    <3> QED BY <2>1, <2>3, <3>1, EndsAnswered
            DEF Answered, Untouched, Numbered, Unanswered, OneAnswer, peers, request
  <2> QED BY <2>2, <2>3
<1> QED BY <1>2, <1>3, <1>4, <1>5, <1>6 DEF Answering

LEMMA AnsweredInit == Init => Answered
<1> SUFFICES ASSUME Init PROVE Answered
  OBVIOUS
<1>1. AnswersOK(stack, conn, finished, out) /\ Rows(stack, conn, url)
  BY DEF Init, AnswersOK, Rows
<1>2. Untouched /\ Numbered /\ Unanswered
  BY DEF Init, Untouched, Numbered, Unanswered, Free
<1>3. OneAnswer
  <2>1. ErrorAnswer \in Answers /\ <<>> \in Seq(Pieces) /\ ErrorAnswer \in Seq(Pieces)
    BY Lists
  <2>2. IsPrefix(<<>>, <<>> \o ErrorAnswer) /\ <<>> \o ErrorAnswer = ErrorAnswer
    BY <2>1, Begins, ConcatEmptySeq
  <2>3. \A i \in Ids : out[i] = <<>>
    BY DEF Init
  <2> QED BY <2>1, <2>2, <2>3, Zenon DEF OneAnswer
<1> QED BY <1>1, <1>2, <1>3 DEF Answered

LEMMA AnsweredStep ==
  ASSUME MaxCalls = 0, Polite PROVE Server /\ Answered /\ [Next]_vars => (Server /\ Answered)'
<1> SUFFICES ASSUME Server, Answered, [Next]_vars PROVE Answered'
  BY ServerStep
<1>1. CASE UNCHANGED vars
  BY <1>1 DEF vars, request, peers, Answered, Untouched, Numbered, Unanswered, OneAnswer, Top
<1>2. CASE Next
  BY <1>2, NoClient, NetworkAnswered, DataAnswered, CloseAnswered, AnsweringAnswered DEF Next, Network, Library
<1> QED BY <1>1, <1>2

LEMMA AnsweredCorrect == ASSUME MaxCalls = 0, Polite PROVE Spec => [](Server /\ Answered)
<1>1. Server /\ Answered /\ [Next]_vars => (Server /\ Answered)'
  BY AnsweredStep
<1> QED BY ServerInit, AnsweredInit, <1>1, PTL DEF Spec

(* A client that waits for its answer gets one answer, of which the        *)
(* application's and the library's own on a fault are the choices.         *)
THEOREM AnsweredOnce == ASSUME MaxCalls = 0, Polite PROVE Spec => []OneAnswer
<1>1. Server /\ Answered => OneAnswer
  BY DEF Answered
<1> QED BY AnsweredCorrect, <1>1, PTL

(* A row stays in the buffer it was built in as long as it may have to be  *)
(* sent again, though a request's url is read into the same one.           *)
THEOREM RowsIntact == ASSUME MaxCalls = 0, Polite PROVE Spec => []RowIntact
<1>1. Server /\ Answered => RowIntact
  BY DEF Answered, Rows, Row, RowIntact
<1> QED BY AnsweredCorrect, <1>1, PTL

(***************************************************************************)
(* The listener implements HttpListener                                    *)
(***************************************************************************)
Serving == IF incomingRequestState = "NO_REQUEST" THEN 0 ELSE conn[incomingRequestConnectionId].id
Begun == {i \in Ids : out[i] # <<>>}
promise == <<Serving, handled, Begun>>

LEMMA ServesOne == ASSUME Server, incomingRequestState # "NO_REQUEST" PROVE Serving \in Ids /\ Serving # 0
<1>1. incomingRequestConnectionId \in Slots /\ conn[incomingRequestConnectionId].state # "NO_CONNECTION"
  BY DEF Server, Served, ListenerBound, General, RequestOK
<1>2. conn[incomingRequestConnectionId].id \in Ids
  BY <1>1 DEF Server, General, ConnOK
<1> QED BY <1>2, Sizes DEF Serving

(* The end of the connection that is served releases it. *)
LEMMA Releases ==
  ASSUME Server, NEW s \in Slots, Established(s), NEW st, StackOK(conn, st), NoCalls(st), Dies(s, st),
         UNCHANGED <<response, handled, out>>
  PROVE  Listener!Release
<1>1. incomingRequestState' = "NO_REQUEST"
  <2>1. UNCHANGED response
    OBVIOUS
  <2> QED BY <2>1, DiesServed
<1>2. s = incomingRequestConnectionId /\ s # None
  BY Sizes DEF Server, Served, Alive, Established
<1>3. incomingRequestState # "NO_REQUEST"
  BY <1>2 DEF Server, Served
<1>4. Serving # 0 /\ Serving' = 0
  BY <1>1, <1>3, ServesOne DEF Serving
<1> QED BY <1>4 DEF Listener!Release, Serving

LEMMA MayRelease ==
  ASSUME Server, NEW s \in Slots \cup {None}, NEW st, StackOK(conn, st), NoCalls(st), TcpDisconnect(s, st),
         UNCHANGED <<response, handled, out>>
  PROVE  Listener!Release \/ UNCHANGED promise
<1>1. CASE Established(s)
  <2>1. s \in Slots /\ Dies(s, st)
    BY <1>1 DEF Established, TcpDisconnect
  <2> QED BY <1>1, <2>1, Releases
<1>2. CASE ~Established(s)
  <2>1. UNCHANGED <<conn, request>>
    BY <1>2 DEF TcpDisconnect
  <2> QED BY <2>1 DEF promise, Serving, Begun, request
<1> QED BY <1>1, <1>2

LEMMA ListenerStep ==
  ASSUME MaxCalls = 0, Polite, Server, Answered, [Next]_vars
  PROVE  Listener!Next \/ UNCHANGED promise
<1>1. CASE UNCHANGED vars
  BY <1>1 DEF vars, request, promise, Serving, Begun
<1>2. CASE Syn
  <2> DEFINE r == FirstEmpty
  <2>1. r \in Slots /\ conn[r].state = "NO_CONNECTION"
    BY <1>2, FirstIsEmpty DEF Syn
  <2>2. /\ conn' = [conn EXCEPT ![r] = [state |-> "SYN_RECEIVED", id |-> opened + 1]]
        /\ opened - calls < MaxClients /\ incomingRequestState = "NO_REQUEST"
        /\ incomingRequestConnectionId' = r /\ incomingRequestState' = "START_REQUEST"
        /\ UNCHANGED <<handled, out>>
    BY <1>2 DEF Syn, HttpTcpOnNewConnection
  <2> HIDE DEF r
  <2>3. opened + 1 \in Ids
    BY <2>2, Sizes DEF Server, General, RecordsOK, Ids
  <2>4. Serving = 0 /\ Serving' = opened + 1 /\ Begun' = Begun
    BY <2>1, <2>2 DEF Serving, Begun, Server, General, ConnOK
  <2>5. Listener!Accept(opened + 1)
    BY <2>2, <2>4 DEF Listener!Accept, Serving, Begun
  <2> QED BY <2>3, <2>5 DEF Listener!Next
<1>3. ASSUME NEW s \in Slots, Ack(s) PROVE UNCHANGED promise
  <2>1. /\ conn' = [conn EXCEPT ![s].state = "ESTABLISHED"] /\ UNCHANGED <<request, handled, out>>
    BY <1>3 DEF Ack
  <2>2. \A r \in Slots : conn'[r].id = conn[r].id
    BY <2>1 DEF Server, General, ConnOK
  <2>3. incomingRequestState # "NO_REQUEST" => incomingRequestConnectionId \in Slots
    BY DEF Server, Served, General, RequestOK
  <2> QED BY <2>1, <2>2, <2>3 DEF promise, Serving, Begun, request
<1>4. ASSUME NEW s \in Slots, Fin(s) PROVE Listener!Next
  <2>1. PICK stk \in Returning(s) : Dies(s, stk)
    BY <1>4 DEF Fin
  <2>2. Established(s) /\ UNCHANGED <<response, handled, out>>
    BY <1>4 DEF Fin
  <2>3. NoCalls(stk) /\ StackOK(conn, stk)
    BY <2>1, ReturningNoCalls DEF Server
  <2>4. Listener!Release
    BY <2>1, <2>2, <2>3, Releases
  <2> QED BY <2>4 DEF Listener!Next
<1>5. ASSUME NEW s \in Slots, NEW parsed \in {"part", "rest", "error"}, Data(s, parsed)
      PROVE  Listener!Next \/ UNCHANGED promise
  <2>1. /\ s = incomingRequestConnectionId /\ conn[s].id \in Ids /\ s # None
        /\ incomingRequestState # "REQUEST_HANDLING"
    BY <1>5, DataIsRequest, Sizes
  <2>2. conn[s].id \notin finished /\ out' = out
    BY <1>5 DEF Data
  <2>3. PICK stk \in Returning(s) : HttpParseRequest(s, parsed, stk)
    BY <1>5, DataIsRequest
  <2>4. UNCHANGED <<conn, incomingRequestConnectionId>> /\ incomingRequestState' # "NO_REQUEST"
    BY <2>3 DEF HttpParseRequest
  <2>5. incomingRequestState # "NO_REQUEST"
    BY <2>1 DEF Server, Served
  <2>6. Serving = conn[s].id /\ Serving' = Serving /\ Begun' = Begun
    BY <2>1, <2>2, <2>4, <2>5 DEF Serving, Begun
  <2>7. CASE parsed = "rest"
    <3>1. handled' = handled \cup {conn[s].id}
      BY <2>1, <2>3, <2>7 DEF HttpParseRequest
    <3>2. Serving # 0 /\ Serving \notin handled \cup Begun
      BY <2>1, <2>2, <2>5, <2>6, ServesOne DEF Answered, Untouched, Begun
    <3>3. Listener!Handle
      BY <2>6, <3>1, <3>2 DEF Listener!Handle, Serving, Begun
    <3> QED BY <3>3 DEF Listener!Next
  <2>8. CASE parsed # "rest"
    <3>1. handled' = handled
      BY <2>1, <2>3, <2>8 DEF HttpParseRequest
    <3> QED BY <2>6, <3>1 DEF promise
  <2> QED BY <2>7, <2>8
<1>6. CASE TcpCloseEnds
  <2>1. /\ stack # <<>> /\ Top.fn = "TcpClose" /\ Holder(Top) /\ HeldAs(Top) = "DYEING"
        /\ conn' = [conn EXCEPT ![Top.slot] = Free] /\ UNCHANGED <<request, handled, out>>
    BY <1>6 DEF TcpCloseEnds, Running, Holder, HeldAs
  <2>2. Top.slot \in Slots /\ conn[Top.slot].state = "DYEING"
    <3>1. StackOK(conn, stack)
      BY DEF Server, General
    <3>2. Len(stack) \in Nat /\ Len(stack) > 0 /\ DOMAIN stack = 1..Len(stack) /\ Last(stack) = stack[Len(stack)]
      BY <2>1, <3>1, TopAndBelow
    <3>3. Len(stack) \in DOMAIN stack /\ Top = stack[Len(stack)]
      BY <3>2 DEF Top
    <3> QED BY <2>1, <3>1, <3>3 DEF StackOK, Holding
  <2>3. incomingRequestState # "NO_REQUEST" =>
          incomingRequestConnectionId \in Slots /\ incomingRequestConnectionId # Top.slot
    BY <2>2 DEF Server, Served, ListenerBound, General, RequestOK
  <2>4. \A r \in Slots \ {Top.slot} : conn'[r] = conn[r]
    BY <2>1 DEF Server, General, ConnOK
  <2> QED BY <2>1, <2>3, <2>4 DEF promise, Serving, Begun, request
<1>7. ASSUME stack # <<>>
      PROVE  StackOK(conn, Below) /\ NoCalls(Below) /\ Top.slot \in Slots \cup {None}
  BY <1>7, TopNoCalls, Fields DEF Server
<1>8. CASE SendPiece
  <2>1. /\ stack # <<>> /\ Top.fn = "HttpSendResponse" /\ UNCHANGED <<request, conn, handled>>
    BY <1>8 DEF SendPiece, Running
  <2>2. CASE Established(Top.slot)
    <3> DEFINE i == conn[Top.slot].id
    <3>1. out' = [out EXCEPT ![i] = Append(@, Head(Top.todo))]
      BY <1>8, <2>2 DEF SendPiece
    <3>2. Top.slot \in Slots /\ conn[Top.slot].state = "ESTABLISHED"
      BY <1>7, <2>1, <2>2 DEF Established
    <3>3. Top.slot = incomingRequestConnectionId /\ i \in Ids
      BY <3>2 DEF Server, Served, Alive, General, ConnOK
    <3>4. incomingRequestState # "NO_REQUEST"
      BY <3>2, <3>3, Sizes DEF Server, Served
    <3>5. Serving = i /\ Serving' = i /\ Serving # 0
      BY <2>1, <3>3, <3>4, ServesOne DEF Serving, request
    <3>6. out'[i] # <<>> /\ \A j \in Ids \ {i} : out'[j] = out[j]
      <4>1. Top \in Frames /\ Top.todo # <<>>
        <5>1. Top \in Frames /\ Top.pc = "begin"
          BY <1>8, <2>1, TopNoCalls DEF Server, SendPiece, Running
        <5> QED BY <2>1, <5>1, Fields
      <4>2. Head(Top.todo) \in Pieces /\ out[i] \in Seq(Pieces)
        BY <3>3, <4>1, HeadTail DEF Server, General, RecordsOK
      <4>3. \A o \in Seq(Pieces), p \in Pieces : Append(o, p) # <<>>
        BY AppendProperties
      <4>4. Append(out[i], Head(Top.todo)) # <<>>
        BY <4>2, <4>3, Zenon
      <4>5. out \in [Ids -> Seq(Pieces)]
        BY DEF Server, General, RecordsOK
      <4> QED BY <3>1, <3>3, <4>4, <4>5
    <3> HIDE DEF i
    <3>7. Begun' = Begun \cup {i}
      BY <3>3, <3>6 DEF Begun
    <3>8. CASE i \in Begun
      <4>1. Begun' = Begun
        BY <3>7, <3>8
      <4> QED BY <2>1, <3>5, <4>1 DEF promise
    <3>9. CASE i \notin Begun
      <4>1. Listener!Answer
        BY <2>1, <3>5, <3>7, <3>9 DEF Listener!Answer, Serving, Begun
      <4> QED BY <4>1 DEF Listener!Next
    <3> QED BY <3>8, <3>9
  <2>3. CASE ~Established(Top.slot)
    <3>1. UNCHANGED out
      BY <1>8, <2>3 DEF SendPiece
    <3> QED BY <2>1, <3>1 DEF promise, Serving, Begun, request
  <2> QED BY <2>2, <2>3
<1>9. CASE TooLong \/ PieceFails
  <2>1. stack # <<>> /\ TcpDisconnect(Top.slot, Below) /\ UNCHANGED <<response, handled, out>>
    BY <1>9 DEF TooLong, PieceFails, Running
  <2> QED BY <1>7, <2>1, MayRelease DEF Listener!Next
<1>10. CASE PieceSent
  <2>1. stack # <<>> /\ UNCHANGED <<response, handled, out>>
        /\ (TcpDisconnect(Top.slot, Below) \/ UNCHANGED <<conn, request>>)
    BY <1>10 DEF PieceSent, Running
  <2>2. CASE TcpDisconnect(Top.slot, Below)
    BY <1>7, <2>1, <2>2, MayRelease DEF Listener!Next
  <2>3. CASE UNCHANGED <<conn, request>>
    BY <2>1, <2>3 DEF promise, Serving, Begun, request
  <2> QED BY <2>1, <2>2, <2>3
<1>11. CASE HttpSendResponse
  <2>1. /\ incomingRequestState = "REQUEST_HANDLING" /\ incomingRequestState' = "START_REQUEST"
        /\ UNCHANGED <<incomingRequestConnectionId, conn, handled, out>>
    BY <1>11 DEF HttpSendResponse, MayAnswer
  <2> QED BY <2>1 DEF promise, Serving, Begun
<1>12. CASE CallbackReturns
  <2>1. stack # <<>> /\ UNCHANGED <<response, handled, out>>
        /\ (TcpDisconnect(Top.slot, Below) \/ UNCHANGED <<conn, request>>)
    BY <1>12 DEF CallbackReturns, InCallback, Running
  <2>2. CASE TcpDisconnect(Top.slot, Below)
    BY <1>7, <2>1, <2>2, MayRelease DEF Listener!Next
  <2>3. CASE UNCHANGED <<conn, request>>
    BY <2>1, <2>3 DEF promise, Serving, Begun, request
  <2> QED BY <2>1, <2>2, <2>3
<1>13. CASE Next
  BY <1>2, <1>3, <1>4, <1>5, <1>6, <1>8, <1>9, <1>10, <1>11, <1>12, <1>13, NoClient
     DEF Next, Network, Library, Answering
<1> QED BY <1>1, <1>13

(* The listener keeps its promise to polite clients: it serves one at a    *)
(* time, shows the application at most one request of it, and begins one   *)
(* answer.                                                                 *)
THEOREM KeepsPromise == ASSUME MaxCalls = 0, Polite PROVE Spec => IsListener
<1>1. Init => Listener!Init
  BY DEF Init, Listener!Init
<1>2. Server /\ Answered /\ [Next]_vars => [Listener!Next]_promise
  BY ListenerStep
<1>3. [Listener!Next]_promise => [Listener!Next]_<<IF incomingRequestState = "NO_REQUEST" THEN 0
          ELSE conn[incomingRequestConnectionId].id, handled, {i \in Ids : out[i] # <<>>}>>
  BY DEF promise, Serving, Begun
<1> QED BY AnsweredCorrect, <1>1, <1>2, <1>3, PTL DEF Spec, IsListener, Listener!Spec
=============================================================================
