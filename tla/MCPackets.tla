---------------------------- MODULE MCPackets ----------------------------
(* Instances of Packets for TLC. *)
EXTENDS Packets

CONSTANTS h1, h2

NoOperations == <<"nops", 1>>

(* The sizes stand behind other options, or are more than fits, or none. *)
MCOptions(h) ==
  IF h = h1 THEN <<NoOperations, <<"sack", 1>>>> \o MaxSegmetSizeOption(1) ELSE MaxSegmetSizeOption(9)

MCNone == <<>>
Timestamp == <<NoOperations, <<"stamp", 2>>, <<"time">>>>
=============================================================================
