-------------------------- MODULE MCTaskScheduler --------------------------
(* TaskScheduler on the instances TLC checks. *)
EXTENDS TaskScheduler

MCAttempts == {-1, 1}   \* setInterval and setTimeout
=============================================================================
