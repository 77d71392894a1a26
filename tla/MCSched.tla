------------------------------ MODULE MCSched -------------------------------
(* An instance of Sched; tasks are alike.                                  *)
EXTENDS Sched, TLC

CONSTANTS t1, t2, t3, t4, t5, t6, t7

SevenTasks == {t1, t2, t3, t4, t5, t6, t7}
TaskSymmetry == Permutations(Nodes)
=============================================================================
