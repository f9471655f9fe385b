----------------------------- MODULE MCWorkPool -----------------------------
(* Finite instances of WorkPool for TLC. *)
EXTENDS WorkPool, TLC

CONSTANTS s1, s2, t1, t2

OneSubmitter == {s1}
TwoSubmitters == {s1, s2}
TwoTasks == {t1, t2}
NoThreads == {}
TaskSymmetry == Permutations(TwoTasks)
=============================================================================
