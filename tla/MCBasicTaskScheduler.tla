----------------------- MODULE MCBasicTaskScheduler -----------------------
(* Instances of BasicTaskScheduler for TLC. *)
EXTENDS BasicTaskScheduler

Symmetric == Permutations(Tasks)
=============================================================================
