---------------------------- MODULE FrameQueue ----------------------------
(***************************************************************************)
(* What src/enc28j60.c promises to its callers about received frames: a    *)
(* queue.  A frame that the chip keeps is returned by a later call of      *)
(* enc28j60_packet_receive, once, whole and in the order of arrival; a     *)
(* frame with a bad status is passed over.                                 *)
(***************************************************************************)
EXTENDS Sequences

CONSTANT Frames  \* a frame says in "ok" whether its status is good

VARIABLES
  queue,  \* frames kept and not yet returned
  taken   \* frames returned

Init == queue = <<>> /\ taken = <<>>

Keep(f) == queue' = Append(queue, f) /\ UNCHANGED taken

Take ==
  /\ queue # <<>>
  /\ queue' = Tail(queue)
  /\ taken' = IF Head(queue).ok THEN Append(taken, Head(queue)) ELSE taken

Next == (\E f \in Frames : Keep(f)) \/ Take

Spec == Init /\ [][Next]_<<queue, taken>>
=============================================================================
