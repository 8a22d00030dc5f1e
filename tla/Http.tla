------------------------------- MODULE Http -------------------------------
(***************************************************************************)
(* src/http.c over the connections of src/tcp.c.  The listener serves one  *)
(* connection at a time (incomingRequest...), HttpSendRequest is a client  *)
(* that blocks (incomingResponse...).                                      *)
(*                                                                         *)
(* A blocking function handles packets while it waits, and the callbacks   *)
(* it so runs may block again (see Tcp): `stack' holds the functions in    *)
(* progress, the running one last.  A segment of data is known by what the *)
(* parser makes of it: a part of a message, the rest of it, or an error.   *)
(* The connections behave as Tcp describes, but a connection that is being *)
(* opened by TcpConnect is only found by its answer.                       *)
(***************************************************************************)
EXTENDS SequencesExt, Integers

CONSTANTS
  MaxConnections, \* TCP_MAX_CONNECTIONS
  MaxClients,     \* connections that peers open
  MaxSegments,    \* segments of data in a connection
  MaxCalls,       \* calls of HttpSendRequest
  NestedCalls,    \* may they be made while one is in progress?
  Polite,         \* does a peer wait for the answer when its message is over or wrong?
  MaxDepth        \* functions in progress

None == 255  \* TCP_INVALID_CONNECTION_ID
Slots == 0..(MaxConnections - 1)
Ids == 1..(MaxClients + MaxCalls)  \* connections

ASSUME SizeAssumption ==
  /\ MaxConnections \in 1..None
  /\ {MaxClients, MaxSegments, MaxCalls, MaxDepth} \subseteq Nat
  /\ NestedCalls \in BOOLEAN /\ Polite \in BOOLEAN

VARIABLES
  incomingRequestConnectionId, incomingRequestState,
  incomingResponseConnectionId, incomingResponseState,
  url,       \* what incomingRequest.url holds
  conn,      \* the connections of tcp.c
  stack,     \* functions in progress
  opened,    \* connections so far
  segments,  \* segments of data received in each
  finished,  \* connections whose peer waits for an answer, if polite
  handled,   \* those whose request was given to HttpOnIncomingRequest
  out,       \* what was sent in each by the listener
  calls,     \* calls of HttpSendRequest
  from,      \* the connection whose data ended the response (0: what was left in the buffer)
  result     \* the last successful call: its connection, and that of its response

request == <<incomingRequestConnectionId, incomingRequestState>>
response == <<incomingResponseConnectionId, incomingResponseState, from>>
peers == <<opened, segments, finished>>
vars == <<request, response, url, conn, stack, peers, handled, out, calls, result>>

Free == [state |-> "NO_CONNECTION", id |-> 0]

(* What an answer is sent as: the rows of its header, which is what        *)
(* HttpSendResponseHeader sends, and its data.                             *)
ErrorAnswer == <<"status", "length">>
Answers == {<<"status">> \o h \o <<"length">> \o d : h \in {<<>>, <<"headers">>}, d \in {<<>>, <<"data">>}}
Requests == {<<"row">> \o h \o <<"length">> \o d : h \in {<<>>, <<"headers">>}, d \in {<<>>, <<"data">>}}
Pieces == {"status", "row", "headers", "length", "data"}

Frame == [fn : {"TcpClose", "HttpSendResponse", "HttpOnIncomingRequest", "HttpSendRequest"},
          pc : {"begin", "wait", "connect", "receive", "receiving", "end", "failed"},
          slot : Slots \cup {None}, id : Ids \cup {0}, todo : Seq(Pieces), hit : BOOLEAN]

Call(fn, pc, slot, todo) ==
  [fn |-> fn, pc |-> pc, slot |-> slot, todo |-> todo, hit |-> FALSE,
   id |-> IF slot = None THEN 0 ELSE conn[slot].id]

Top == Last(stack)
Below == Front(stack)
WithTop(f) == Append(Below, f)
Running(fn, pc) == stack # <<>> /\ Top.fn = fn /\ Top.pc = pc
Established(s) == s # None /\ conn[s].state = "ESTABLISHED"

(* HttpInit, TcpInit *)
Init ==
  /\ incomingRequestConnectionId = None /\ incomingRequestState = "NO_REQUEST"
  /\ incomingResponseConnectionId = None /\ incomingResponseState = "WAITING"
  /\ url = "nothing"
  /\ conn = [s \in Slots |-> Free]
  /\ stack = <<>>
  /\ opened = 0 /\ segments = [i \in Ids |-> 0] /\ finished = {}
  /\ handled = {} /\ out = [i \in Ids |-> <<>>]
  /\ calls = 0 /\ from = 0 /\ result = [own |-> 0, from |-> 0]

-----------------------------------------------------------------------------
(***************************************************************************)
(* Closing                                                                 *)
(***************************************************************************)
NoReset(s) == UNCHANGED request  \* mutant of HttpTcpOnDisconnect

HttpTcpOnDisconnect(s) ==
  IF s # incomingResponseConnectionId /\ s = incomingRequestConnectionId
  THEN incomingRequestConnectionId' = None /\ incomingRequestState' = "NO_REQUEST"
  ELSE UNCHANGED request

(* A connection begins to die: the callback, then TcpClose on top of stk. *)
Dies(s, stk) ==
  /\ conn' = [conn EXCEPT ![s].state = "DYEING"]
  /\ HttpTcpOnDisconnect(s)
  /\ stack' = Append(stk, Call("TcpClose", "wait", s, <<>>))

TcpDisconnect(s, stk) ==
  IF Established(s) THEN Dies(s, stk) ELSE UNCHANGED <<conn, request>> /\ stack' = stk

(* The FIN is acknowledged, or TcpClose gives up. *)
TcpCloseEnds ==
  /\ Running("TcpClose", "wait")
  /\ conn' = [conn EXCEPT ![Top.slot] = Free]
  /\ stack' = Below
  /\ UNCHANGED <<request, response, url, peers, handled, out, calls, result>>

-----------------------------------------------------------------------------
(***************************************************************************)
(* Packets.  They are handled by the main loop and by whatever waits.      *)
(***************************************************************************)
Awaits(s) ==
  stack # <<>> /\ Top.slot = s /\ Top.fn \in {"HttpSendResponse", "HttpSendRequest"}
  /\ Top.pc \in {"wait", "receiving"}

Listening ==
  \/ stack = <<>>
  \/ /\ Len(stack) < MaxDepth
     /\ \/ Running("TcpClose", "wait")
        \/ Running("HttpSendRequest", "connect")
        \/ Awaits(Top.slot) /\ ~Top.hit /\ Established(Top.slot)

(* What TcpWaitPacket returns to when a segment of slot s was handled: if  *)
(* the segment was the awaited one as well, its caller goes on.            *)
Returning(s) == {stack} \cup (IF Awaits(s) THEN {WithTop([Top EXCEPT !.hit = TRUE])} ELSE {})

EmptySlots == {s \in Slots : conn[s].state = "NO_CONNECTION"}
FirstEmpty == CHOOSE s \in EmptySlots : \A r \in EmptySlots : s <= r

AcceptAlways == TRUE  \* mutant of HttpTcpOnNewConnection: a request in progress is forgotten
HttpTcpOnNewConnection == incomingRequestState = "NO_REQUEST"

(* A SYN for HTTP_SERVER_PORT; it is dropped when there is no empty slot   *)
(* or the listener is busy.                                                *)
Syn ==
  /\ Listening /\ EmptySlots # {} /\ opened - calls < MaxClients
  /\ HttpTcpOnNewConnection
  /\ opened' = opened + 1
  /\ conn' = [conn EXCEPT ![FirstEmpty] = [state |-> "SYN_RECEIVED", id |-> opened + 1]]
  /\ incomingRequestConnectionId' = FirstEmpty
  /\ incomingRequestState' = "START_REQUEST"
  /\ UNCHANGED <<response, url, stack, segments, finished, handled, out, calls, result>>

Ack(s) ==
  /\ Listening /\ conn[s].state = "SYN_RECEIVED"
  /\ conn' = [conn EXCEPT ![s].state = "ESTABLISHED"]
  /\ UNCHANGED <<request, response, url, stack, peers, handled, out, calls, result>>

Fin(s) ==
  /\ Listening /\ Established(s)
  /\ \E stk \in Returning(s) : Dies(s, stk)
  /\ UNCHANGED <<response, url, peers, handled, out, calls, result>>

(* HttpParseResponse; stk is the stack without its caller. *)
HttpParseResponse(s, parsed, stk) ==
  /\ IF parsed = "error" /\ incomingResponseState # "END_MESSAGE"
     THEN TcpDisconnect(s, stk) /\ UNCHANGED <<incomingResponseState, from>>
     ELSE /\ CASE incomingResponseState = "END_MESSAGE" -> UNCHANGED <<incomingResponseState, from>>
               [] parsed = "rest" -> incomingResponseState' = "END_MESSAGE" /\ from' = conn[s].id
               [] OTHER -> incomingResponseState' = "PART" /\ UNCHANGED from
          /\ stack' = stk
          /\ UNCHANGED <<conn, request>>
  /\ UNCHANGED <<incomingResponseConnectionId, url, handled>>

(* HttpParseRequestHeader and the body; what is wrong, or comes while the  *)
(* request is handled, is answered with an error.                          *)
HttpParseRequest(s, parsed, stk) ==
  /\ url' = "url"
  /\ CASE parsed = "error" \/ incomingRequestState = "REQUEST_HANDLING" ->
            /\ incomingRequestState' = "START_REQUEST"
            /\ stack' = Append(stk, Call("HttpSendResponse", "begin", s, ErrorAnswer))
            /\ UNCHANGED handled
       [] parsed = "rest" /\ incomingRequestState # "REQUEST_HANDLING" ->
            /\ incomingRequestState' = "REQUEST_HANDLING"
            /\ stack' = Append(stk, Call("HttpOnIncomingRequest", "begin", s, <<>>))
            /\ handled' = handled \cup {conn[s].id}
       [] parsed = "part" /\ incomingRequestState # "REQUEST_HANDLING" ->
            /\ incomingRequestState' = "PART"
            /\ stack' = stk
            /\ UNCHANGED handled
  /\ UNCHANGED <<conn, incomingRequestConnectionId, response>>

HttpTcpOnIncomingData(s, parsed, stk) ==
  CASE s = incomingResponseConnectionId -> HttpParseResponse(s, parsed, stk)
    [] s = incomingRequestConnectionId /\ s # incomingResponseConnectionId ->
         HttpParseRequest(s, parsed, stk)
    [] OTHER -> stack' = stk /\ UNCHANGED <<conn, request, response, url, handled>>

Data(s, parsed) ==
  /\ Listening /\ Established(s)
  /\ segments[conn[s].id] < MaxSegments
  /\ Polite => conn[s].id \notin finished
  /\ segments' = [segments EXCEPT ![conn[s].id] = @ + 1]
  /\ finished' = IF parsed = "part" THEN finished ELSE finished \cup {conn[s].id}
  /\ \E stk \in Returning(s) : HttpTcpOnIncomingData(s, parsed, stk)
  /\ UNCHANGED <<opened, out, calls, result>>

-----------------------------------------------------------------------------
(***************************************************************************)
(* Answering: HttpSendResponse and HttpSendResponseHeader                  *)
(***************************************************************************)
Rewritten(piece) == IF piece \in {"status", "length"} THEN piece ELSE url

(* TcpSendData is called with the next piece.  A row is built in           *)
(* incomingRequest.url; one that does not fit ends the connection.         *)
SendPiece ==
  /\ Running("HttpSendResponse", "begin")
  /\ LET piece == Head(Top.todo) IN
     /\ url' = Rewritten(piece)
     /\ IF Established(Top.slot)
        THEN /\ out' = [out EXCEPT ![conn[Top.slot].id] = Append(@, piece)]
             /\ stack' = WithTop([Top EXCEPT !.pc = "wait"])
        ELSE stack' = Below /\ UNCHANGED out
  /\ UNCHANGED <<request, response, conn, peers, handled, calls, result>>

TooLong ==
  /\ Running("HttpSendResponse", "begin") /\ Head(Top.todo) = "status"
  /\ TcpDisconnect(Top.slot, Below)
  /\ UNCHANGED <<response, url, peers, handled, out, calls, result>>

More(todo) == Len(todo) > 1

(* TcpSendData returns 1, and after the last piece the connection is closed. *)
PieceSent ==
  /\ Running("HttpSendResponse", "wait") /\ (Top.hit \/ Established(Top.slot))
  /\ IF More(Top.todo)
     THEN /\ stack' = WithTop([Top EXCEPT !.pc = "begin", !.todo = Tail(@), !.hit = FALSE])
          /\ UNCHANGED <<conn, request>>
     ELSE TcpDisconnect(Top.slot, Below)
  /\ UNCHANGED <<response, url, peers, handled, out, calls, result>>

(* It returns 0: the connection is gone, or 60 s have passed. *)
PieceFails ==
  /\ Running("HttpSendResponse", "wait") /\ ~Top.hit
  /\ TcpDisconnect(Top.slot, Below)
  /\ UNCHANGED <<response, url, peers, handled, out, calls, result>>

(* The application, in HttpOnIncomingRequest. *)
InCallback == Running("HttpOnIncomingRequest", "begin")

AnswerAnyTime == incomingRequestState # "NO_REQUEST"  \* mutant of MayAnswer
MayAnswer == incomingRequestState = "REQUEST_HANDLING"

HttpSendResponse ==
  /\ InCallback /\ MayAnswer
  /\ incomingRequestState' = "START_REQUEST"
  /\ \E todo \in Answers :
       stack' = Append(stack, Call("HttpSendResponse", "begin", incomingRequestConnectionId, todo))
  /\ UNCHANGED <<incomingRequestConnectionId, response, url, conn, peers, handled, out, calls, result>>

NoAnswerKept == InCallback /\ stack' = Below  \* mutant of CallbackReturns: left open without an answer
                /\ UNCHANGED <<conn, request, response, url, peers, handled, out, calls, result>>

(* It returns, perhaps without an answer. *)
CallbackReturns ==
  /\ InCallback
  /\ IF incomingRequestState = "REQUEST_HANDLING"
     THEN TcpDisconnect(Top.slot, Below)
     ELSE stack' = Below /\ UNCHANGED <<conn, request>>
  /\ UNCHANGED <<response, url, peers, handled, out, calls, result>>

-----------------------------------------------------------------------------
(***************************************************************************)
(* HttpSendRequest                                                         *)
(***************************************************************************)
InCall == \E k \in DOMAIN stack : stack[k].fn = "HttpSendRequest"

MayCall == (stack = <<>> \/ InCallback) /\ calls < MaxCalls /\ (InCall => NestedCalls)

KeepResponse == UNCHANGED <<incomingResponseState, from>>  \* mutant of NoResponse
NoResponse == incomingResponseState' = "WAITING" /\ from' = 0

(* It is called, and calls TcpConnect, which takes a slot at once. *)
HttpSendRequest ==
  /\ MayCall /\ EmptySlots # {}
  /\ calls' = calls + 1 /\ opened' = opened + 1
  /\ NoResponse
  /\ conn' = [conn EXCEPT ![FirstEmpty] = [state |-> "NEW", id |-> opened + 1]]
  /\ \E todo \in Requests :
       stack' = Append(stack, [Call("HttpSendRequest", "connect", FirstEmpty, todo)
                                 EXCEPT !.id = opened + 1])
  /\ UNCHANGED <<incomingResponseConnectionId, request, url, segments, finished, handled, out, result>>

NoSlot ==
  /\ MayCall /\ EmptySlots = {}
  /\ calls' = calls + 1 /\ opened' = opened + 1
  /\ NoResponse
  /\ incomingResponseConnectionId' = None
  /\ UNCHANGED <<request, url, conn, stack, segments, finished, handled, out, result>>

Connected ==
  /\ Running("HttpSendRequest", "connect")
  /\ conn' = [conn EXCEPT ![Top.slot].state = "ESTABLISHED"]
  /\ incomingResponseConnectionId' = Top.slot
  /\ stack' = WithTop([Top EXCEPT !.pc = "begin"])
  /\ UNCHANGED <<incomingResponseState, from, request, url, peers, handled, out, calls, result>>

ConnectFails ==
  /\ Running("HttpSendRequest", "connect")
  /\ conn' = [conn EXCEPT ![Top.slot] = Free]
  /\ incomingResponseConnectionId' = None
  /\ stack' = Below
  /\ UNCHANGED <<incomingResponseState, from, request, url, peers, handled, out, calls, result>>


(* Whatever ends the call, it disconnects incomingResponseConnectionId. *)
GiveUp(pc) ==
  /\ TcpDisconnect(incomingResponseConnectionId, WithTop([Top EXCEPT !.pc = pc]))
  /\ UNCHANGED <<response, url, peers, handled, out, calls, result>>

(* A piece is sent in, or data awaited from, incomingResponseConnectionId. *)
CallWaits(pc, waiting) ==
  /\ Running("HttpSendRequest", pc) /\ Established(incomingResponseConnectionId)
  /\ stack' = WithTop([Top EXCEPT !.pc = waiting, !.slot = incomingResponseConnectionId])
  /\ UNCHANGED <<request, response, url, conn, peers, handled, out, calls, result>>

RequestPiece == CallWaits("begin", "wait")
TcpReceiveData == incomingResponseState # "END_MESSAGE" /\ CallWaits("receive", "receiving")

CannotWait ==
  /\ \/ Running("HttpSendRequest", "begin") /\ ~Established(incomingResponseConnectionId)
     \/ /\ Running("HttpSendRequest", "receive")
        /\ incomingResponseState = "END_MESSAGE" \/ ~Established(incomingResponseConnectionId)
  /\ GiveUp("end")

RequestTooLong ==
  /\ Running("HttpSendRequest", "begin") /\ Head(Top.todo) = "row"
  /\ GiveUp("failed")

(* TcpSendData returns 1 ... *)
RequestPieceSent ==
  /\ Running("HttpSendRequest", "wait") /\ (Top.hit \/ Established(Top.slot))
  /\ stack' = WithTop([Top EXCEPT !.pc = IF More(Top.todo) THEN "begin" ELSE "receive",
                                  !.todo = Tail(@), !.hit = FALSE])
  /\ UNCHANGED <<request, response, url, conn, peers, handled, out, calls, result>>

(* ... or TcpReceiveData does, with the data that lies in the shared       *)
(* buffer.  The segment that woke it has been through the callback and its *)
(* acknowledgment has taken its place, so there is none, except when other *)
(* functions have waited since (TcpClose, if the connection ended): then   *)
(* there is whatever they have left, and it is parsed as the response.     *)
OthersWaited ==
  Top.hit /\ ~(/\ Established(Top.slot) /\ conn[Top.slot].id = Top.id
               /\ Top.slot = incomingResponseConnectionId)
LeftIsParsed ==
  /\ OthersWaited /\ incomingResponseState # "END_MESSAGE"
  /\ \/ incomingResponseState' = "PART" /\ UNCHANGED from
     \/ incomingResponseState' = "END_MESSAGE" /\ from' = 0

Received ==
  /\ Running("HttpSendRequest", "receiving") /\ (Top.hit \/ Established(Top.slot))
  /\ stack' = WithTop([Top EXCEPT !.pc = "receive", !.hit = FALSE])
  /\ LeftIsParsed \/ UNCHANGED <<incomingResponseState, from>>
  /\ UNCHANGED <<incomingResponseConnectionId, request, url, conn, peers, handled, out, calls, result>>

LeftIsWrong ==
  /\ Running("HttpSendRequest", "receiving")
  /\ OthersWaited /\ incomingResponseState # "END_MESSAGE"
  /\ GiveUp("end")

(* ... or they return 0. *)
TransferFails ==
  /\ Running("HttpSendRequest", "wait") \/ Running("HttpSendRequest", "receiving")
  /\ ~Top.hit
  /\ GiveUp("end")

Return ==
  /\ Running("HttpSendRequest", "end") \/ Running("HttpSendRequest", "failed")
  /\ incomingResponseConnectionId' = None
  /\ stack' = Below
  /\ result' = IF Top.pc = "end" /\ incomingResponseState = "END_MESSAGE"
               THEN [own |-> Top.id, from |-> from] ELSE result
  /\ UNCHANGED <<incomingResponseState, from, request, url, conn, peers, handled, out, calls>>

-----------------------------------------------------------------------------
Answering == SendPiece \/ TooLong \/ PieceSent \/ PieceFails \/ HttpSendResponse \/ CallbackReturns
Calling == \/ Connected \/ ConnectFails \/ RequestPiece \/ TcpReceiveData \/ CannotWait \/ RequestTooLong
           \/ RequestPieceSent \/ Received \/ LeftIsWrong \/ TransferFails \/ Return
Library == TcpCloseEnds \/ Answering \/ Calling

Network ==
  \/ Syn
  \/ \E s \in Slots : Ack(s) \/ Fin(s) \/ \E parsed \in {"part", "rest", "error"} : Data(s, parsed)

Next == Network \/ Library \/ HttpSendRequest \/ NoSlot

Spec == Init /\ [][Next]_vars

(* Every wait of the library has a timeout and the application returns. *)
FairSpec == Spec /\ WF_vars(Library)
-----------------------------------------------------------------------------
(***************************************************************************)
(* Properties                                                              *)
(***************************************************************************)
RequestStates == {"NO_REQUEST", "START_REQUEST", "PART", "REQUEST_HANDLING"}
TypeOK ==
  /\ incomingRequestConnectionId \in Slots \cup {None} /\ incomingRequestState \in RequestStates
  /\ incomingResponseConnectionId \in Slots \cup {None}
  /\ incomingResponseState \in {"WAITING", "PART", "END_MESSAGE"}
  /\ url \in {"nothing", "url", "status", "length"}
  /\ conn \in [Slots -> [state : {"NO_CONNECTION", "NEW", "SYN_RECEIVED", "ESTABLISHED", "DYEING"},
                         id : Ids \cup {0}]]
  /\ stack \in Seq(Frame)
  /\ \A k \in DOMAIN stack :
       stack[k].pc = "begin" => (stack[k].todo = <<>>) = (stack[k].fn = "HttpOnIncomingRequest")
  /\ opened \in 0..(MaxClients + MaxCalls) /\ calls \in 0..MaxCalls
  /\ segments \in [Ids -> 0..MaxSegments] /\ finished \subseteq Ids /\ handled \subseteq Ids
  /\ out \in [Ids -> Seq(Pieces)]
  /\ from \in Ids \cup {0} /\ result \in [own : Ids \cup {0}, from : Ids \cup {0}]

(* A listener that is not ready for a new request has a connection that    *)
(* lives ("after handling request reset memory and be ready for another    *)
(* http request", http.c:726).                                             *)
ListenerBound ==
  incomingRequestState # "NO_REQUEST" =>
    /\ incomingRequestConnectionId # None
    /\ conn[incomingRequestConnectionId].state \in {"SYN_RECEIVED", "ESTABLISHED"}

(* Somebody is responsible for every connection that lives: the listener,  *)
(* or the call of HttpSendRequest that opened it.                          *)
NoOrphans ==
  \A s \in Slots : conn[s].state \in {"NEW", "SYN_RECEIVED", "ESTABLISHED"} =>
    \/ s = incomingRequestConnectionId
    \/ \E k \in DOMAIN stack : stack[k].fn = "HttpSendRequest" /\ stack[k].id = conn[s].id

(* What is sent to a client is the beginning of one answer ("can be used   *)
(* only once per request handling", http.c:578).                           *)
OneAnswer == \A i \in Ids : \E a \in Answers : IsPrefix(out[i], a)

(* While a row is being sent, and may have to be sent again, it stays in   *)
(* the buffer it was built in, which is also that of a request's url.      *)
RowIntact ==
  \A k \in DOMAIN stack :
    LET f == stack[k] IN
    /\ f.fn = "HttpSendResponse" /\ f.pc = "wait" /\ Head(f.todo) \in {"status", "length"}
    /\ ~f.hit /\ conn[f.slot] = [state |-> "ESTABLISHED", id |-> f.id]
    => url = Head(f.todo)

(* The response that HttpSendRequest returns came in no connection but the *)
(* one it opened ("send http request and synchronously wait for response", *)
(* README.md:323).                                                         *)
ResponseIsOwn == result.from \in {result.own, 0}

(* It came in that connection: none of it is what other packets have left  *)
(* in the shared buffer.                                                   *)
ResponseCame == result.from = result.own

(* A request that is handled is over some time, and the listener ready. *)
HandledEnds == incomingRequestState = "REQUEST_HANDLING" ~> incomingRequestState = "NO_REQUEST"

(* The listener serves one connection at a time. *)
Listener == INSTANCE HttpListener WITH
  Connections <- Ids,
  serving <- IF incomingRequestState = "NO_REQUEST" THEN 0 ELSE conn[incomingRequestConnectionId].id,
  answered <- {i \in Ids : out[i] # <<>>}
IsListener == Listener!Spec
=============================================================================
