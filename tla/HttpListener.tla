--------------------------- MODULE HttpListener ---------------------------
(***************************************************************************)
(* What the listener of src/http.c promises (README.md:205-226): it serves *)
(* one connection at a time; the application sees at most one request of   *)
(* it, and it is answered at most once.                                    *)
(***************************************************************************)
EXTENDS Naturals

CONSTANT Connections  \* every connection of the run, told apart from 0

VARIABLES
  serving,  \* the connection that is served, or 0
  handled,  \* connections whose request was given to the application
  answered  \* connections to which an answer was begun

Init == serving = 0 /\ handled = {} /\ answered = {}

Accept(c) ==
  /\ serving = 0
  /\ serving' = c
  /\ UNCHANGED <<handled, answered>>

Handle ==
  /\ serving # 0 /\ serving \notin handled \cup answered
  /\ handled' = handled \cup {serving}
  /\ UNCHANGED <<serving, answered>>

Answer ==
  /\ serving # 0 /\ serving \notin answered
  /\ answered' = answered \cup {serving}
  /\ UNCHANGED <<serving, handled>>

Release ==
  /\ serving # 0 /\ serving' = 0
  /\ UNCHANGED <<handled, answered>>

Next == (\E c \in Connections : Accept(c)) \/ Handle \/ Answer \/ Release

Spec == Init /\ [][Next]_<<serving, handled, answered>>
=============================================================================
