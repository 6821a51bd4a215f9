---------------------------- MODULE TaskWeight ----------------------------
(***************************************************************************)
(* The weight a task carries and the charge it makes of a run, as pure     *)
(* operators: taskWeight() and the charge of handle_tasks                  *)
(* (src/src/utility/TaskScheduler.cpp).  Integer arithmetic is the code's: *)
(* every division truncates, at every step of the ladder.                  *)
(***************************************************************************)
EXTENDS Integers

CONSTANTS
    MaxPriority,   \* MAX_TASK_PRIORITY
    Nominal,       \* TASK_WEIGHT_NOMINAL
    Span,          \* TASK_WEIGHT_SPAN
    Boost          \* TASK_WEIGHT_DEADLINE_BOOST

ASSUME WeightAssumption ==
    /\ MaxPriority \in Nat \ {0}
    /\ {Nominal, Span, Boost} \subseteq Nat \ {0}

Levels == MaxPriority + 1   \* one ladder step per priority

Clamped(x, lo, hi) == IF x < lo THEN lo ELSE IF x > hi THEN hi ELSE x

\* n steps up the ladder from the nominal weight, and n steps down
Heavier[n \in 0 .. Levels] ==
    IF n = 0 THEN Nominal ELSE (Heavier[n - 1] * (Levels + Span)) \div Levels
Lighter[n \in 0 .. Levels] ==
    IF n = 0 THEN Nominal ELSE (Lighter[n - 1] * Levels) \div (Levels + Span)


Rung(effective) ==
    LET step == (effective * (Levels - 1)) \div MaxPriority - Levels \div 2
    IN IF step >= 0 THEN Heavier[step] ELSE Lighter[-step]

Effective(priority, nice) == Clamped(priority - nice, 0, MaxPriority)

Weight(priority, nice, policy) ==
    LET w == Rung(Effective(priority, nice))
        boosted == IF policy = "DEADLINE" THEN w * Boost ELSE w
    IN IF policy = "ROUNDROBIN" THEN Nominal
       ELSE IF boosted < 1 THEN 1 ELSE boosted

\* what handle_tasks adds to m_vruntime after a run
Charge(us, weight) == (us * Nominal) \div (IF weight > 0 THEN weight ELSE 1)
=============================================================================
