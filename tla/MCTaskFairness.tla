-------------------------- MODULE MCTaskFairness --------------------------
(* TaskFairness with the constants of src/src/config/Common.h. *)
EXTENDS TaskFairness

\* HIGH, MAX and a priority past the ceiling
MCPriorities == {74, 99, 255}
\* the default, and one past the end of the range
MCNices == {0, 100}
\* long enough that the heaviest task is charged
MCExecTimes == {150, 300}
=============================================================================
