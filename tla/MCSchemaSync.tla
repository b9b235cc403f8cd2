---------------------------- MODULE MCSchemaSync ----------------------------
(* Model values and symmetry for checking SchemaSync with TLC. *)
EXTENDS SchemaSync, TLC

CONSTANTS w1, w2, a, b, id

OneWorker == {w1}
TwoWorkers == {w1, w2}
OneAttr == {a}
TwoAttrs == {a, b}
OneBase == {id}

Deployed(backends, caches, faultSets) ==
    [backend : backends, cacheOn : caches, faults : faultSets]
Everything == Deployed({"crate", "timescale"}, {TRUE}, {FaultKinds})
Quiet == Deployed({"crate", "timescale"}, BOOLEAN, {{}, {"crash"}})
Flaky == Deployed({"timescale"}, {FALSE}, {{"transient"}})

Symmetry == Permutations(TwoWorkers) \cup Permutations(TwoAttrs)
=============================================================================
