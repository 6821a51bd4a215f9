------------------------- MODULE MCPreemptiveLanes -------------------------
(***************************************************************************)
(* Two lanes of different priority beside the main loop; the low one is    *)
(* not stoppable, as a program started by exec is not.                     *)
(***************************************************************************)
EXTENDS PreemptiveLanes

CONSTANTS low, high

MCPrio == [l \in Lanes |-> IF l = high THEN 1 ELSE 0]
=============================================================================
