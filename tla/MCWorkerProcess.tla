--------------------------- MODULE MCWorkerProcess ---------------------------
(* Model values for checking WorkerProcess with TLC. *)
EXTENDS WorkerProcess, TLC

CONSTANTS h1, h2

MCThreads == {h1, h2}
Deployed(b, k, T, r) == [backend |-> b, kind |-> k, threads |-> T, runtime |-> r]
MCDeployments ==
    {Deployed("timescale", "web", {h1, h2}, TRUE),
     Deployed("crate", "web", {h1, h2}, FALSE),
     Deployed("timescale", "rq", {h1}, FALSE), Deployed("crate", "rq", {h1}, FALSE)}
=============================================================================
