------------------------ MODULE MCObservationBucket ------------------------
(* Model values and symmetry for checking ObservationBucket with TLC. *)
EXTENDS ObservationBucket, TLC

CONSTANTS h1, h2, h3, o1, o2, o3

OneThread == {h1}
TwoThreads == {h1, h2}
ThreeThreads == {h1, h2, h3}
TwoObservations == {o1, o2}
ThreeObservations == {o1, o2, o3}

Symmetry == Permutations(Threads) \cup Permutations(Observations)
=============================================================================
