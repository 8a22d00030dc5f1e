---------------------------- MODULE TcpCallbacks ----------------------------
(***************************************************************************)
(* What the application may rely on (README.md:153-184).  OnConnect is     *)
(* called when a connection becomes usable, data arrives only between      *)
(* OnConnect and OnDisconnect, and every connection that was announced by  *)
(* OnConnect ends with one OnDisconnect before its id is announced again.  *)
(* Callbacks nest: one may begin before another has returned.              *)
(***************************************************************************)
EXTENDS Naturals

CONSTANT Ids  \* connection ids

VARIABLES
  open,  \* ids between OnConnect and OnDisconnect
  calls  \* callbacks in progress: <<depth, callback, id>>

Init == open = {} /\ calls = {}

(* A callback begins deeper than every callback in progress. *)
Begin(cb, i) ==
  \E d \in {c[1] : c \in calls'} :
    /\ \A c \in calls : c[1] < d
    /\ calls' = calls \cup {<<d, cb, i>>}

OnConnect(i) == i \notin open /\ open' = open \cup {i} /\ Begin("onConnect", i)
OnIncomingData(i) == i \in open /\ UNCHANGED open /\ Begin("onIncomingData", i)
OnDisconnect(i) == i \in open /\ open' = open \ {i} /\ Begin("onDisconnect", i)

(* The deepest returns. *)
Return ==
  /\ \E c \in calls : (\A e \in calls : e[1] <= c[1]) /\ calls' = calls \ {c}
  /\ UNCHANGED open

Next == (\E i \in Ids : OnConnect(i) \/ OnIncomingData(i) \/ OnDisconnect(i)) \/ Return

Spec == Init /\ [][Next]_<<open, calls>>
=============================================================================
