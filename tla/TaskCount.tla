------------------------------ MODULE TaskCount ------------------------------
(***************************************************************************)
(* count_all_tasks, answered while the work queue goes on: count_jobs asks *)
(* Redis for the length of the queue and of one registry after another, and*)
(* adds them up.  Tasks move from one to the other between two reads.      *)
(***************************************************************************)
EXTENDS WorkQueue

VARIABLES
    reads,  \* how many of the lengths it has read
    tally,  \* the sum of what it read
    moved   \* history: tasks that left or entered a registry since it began

countVars == <<vars, reads, tally, moved>>

(* What is counted, in the order in which it is read.  The registry of the *)
(* deferred jobs, read after the queue, is empty: no task waits for another*)
(* one.  The tasks that are running are not counted.                       *)
Found == <<{t \in Tasks : Queued(t) # {}}, scheduled, finished, failed>>

(* Mutant: the scheduled jobs are taken for the deferred ones, and counted *)
(* twice.                                                                  *)
SizesWithDeferred == <<Len(queue) + Cardinality(scheduled),
                       Cardinality(scheduled), Cardinality(finished),
                       Cardinality(failed)>>

Sizes == <<Len(queue), Cardinality(scheduled), Cardinality(finished),
           Cardinality(failed)>>

CountInit == Init /\ reads = 0 /\ tally = 0 /\ moved = {}

ReadNext ==
    /\ reads < 4
    /\ reads' = reads + 1
    /\ tally' = tally + Sizes[reads + 1]
    /\ UNCHANGED <<vars, moved>>

Answer ==
    /\ reads = 4
    /\ reads' = 0 /\ tally' = 0 /\ moved' = {}
    /\ UNCHANGED vars

Meanwhile ==
    /\ Next
    /\ moved' = IF reads = 0 THEN {}
                ELSE moved \cup {t \in Tasks : Registries(t)' # Registries(t)}
    /\ UNCHANGED <<reads, tally>>

CountNext == ReadNext \/ Answer \/ Meanwhile

CountSpec == CountInit /\ [][CountNext]_countVars

-----------------------------------------------------------------------------
FoundSoFar == UNION {Found[i] : i \in 1..reads}
Stayed == FoundSoFar \ moved

(* A task that stays where it is while count_jobs reads is counted once.   *)
(* The answer is off by the tasks that move meanwhile only, each counted at*)
(* most once per read, and by stopped tasks that were deleted: RQ looks for*)
(* them in the registry of their status, so they stay among the failed.    *)
CountOffByMoves ==
    /\ Cardinality(Stayed) <= tally
    /\ tally <= Cardinality(Stayed) + reads * Cardinality(moved)
    /\ Stayed \ Present \subseteq stopped
=============================================================================
