---------------------------- MODULE MCWorkQueue ----------------------------
(* Model values for checking WorkQueue with TLC. *)
EXTENDS WorkQueue, TLC

CONSTANTS t1, t2, w1, w2

OneTask == {t1}
TwoTasks == {t1, t2}
OneWorker == {w1}
TwoWorkers == {w1, w2}

Symmetry == Permutations(TwoTasks) \cup Permutations(TwoWorkers)
=============================================================================
