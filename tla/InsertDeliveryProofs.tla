------------------------ MODULE InsertDeliveryProofs ------------------------
(* Proofs about InsertDelivery, for any notifications, deployments, faults *)
(* and number of retries.                                                  *)
EXTENDS InsertDelivery, FiniteSetTheorems, SequenceTheorems, WellFoundedInduction, TLAPS

Accepted(t) == status[t] \notin {"new", "rejected"}
Entries == [type : EntityTypes, attr : Attributes, location : Attributes]

(* A notification of the deployment, and what the reporter has of it: one  *)
(* record for each entity read so far, then an entry for those it kept, to *)
(* which each belongs that brings something the reporter does not filter   *)
(* out.                                                                    *)
Positions == GivenLocations \cup {NoLocation}
Locatable(e) == IsReadable(e.location) \/ e.location.declared \in GeoJsonTypes
ReadAs(e, l) ==
    /\ l \in Positions
    /\ Locatable(e) => l = GeoJson
    /\ l = NoLocation => e.location = NoLocation
Brings(e) == e.name # "none" /\ Conforms(Attribute(e)) /\ ~FilteredOut(e)
Taken(e, p) == \E l : ReadAs(e, l) /\ p = [Validated(e) EXCEPT !.location = l]
InputInv ==
    /\ conf \in Deployment
    /\ note \in [Tasks -> Notifications]
    /\ \A t \in Tasks : DOMAIN note[t].entities \subseteq Places
    /\ geocache \in [AddressKeys -> Positions]
ReadInv(t) ==
    status[t] = "new" =>
        /\ payload[t] \in Seq(Entities)
        /\ Len(payload[t]) <= Len(note[t].entities)
        /\ \A i \in DOMAIN payload[t] : Taken(note[t].entities[i], payload[t][i])
EntryInv(t) ==
    Accepted(t) =>
        /\ DOMAIN payload[t] \subseteq DOMAIN note[t].entities
        /\ \A i \in DOMAIN payload[t] :
            /\ payload[t][i].type = note[t].entities[i].type
            /\ \A s \in Slots : payload[t][i][s] \in Attributes
        /\ \A i \in DOMAIN note[t].entities :
            /\ Brings(note[t].entities[i])
                 => i \in Due(t) /\ payload[t][i].attr = Sent(t, i)
            /\ Locatable(note[t].entities[i])
                 => i \in Due(t) /\ payload[t][i].location = GeoJson

(* How the stages of a run show in its variables.                          *)
FunctionInv ==
    /\ status \in [Tasks -> Statuses] /\ stage \in [Tasks -> Stages]
    /\ here \in [Tasks -> BOOLEAN] /\ struck \in [Tasks -> BOOLEAN]
    /\ answer \in [Tasks -> {"none", "200", "400", "500"}]
    /\ DOMAIN runs = Tasks /\ DOMAIN payload = Tasks /\ DOMAIN todo = Tasks
    /\ DOMAIN group = Tasks /\ DOMAIN left = Tasks /\ DOMAIN copies = Tasks
ColumnInv == columns \in [EntityTypes -> [Columns -> ColumnTypes]]
RunInv(t) ==
    /\ runs[t] \in 0..(MaxRetries + 1)
    /\ status[t] \in {"new", "rejected"} => runs[t] = 0
    /\ status[t] = "new" => answer[t] = "none"
    /\ status[t] = "queued" => runs[t] <= MaxRetries
    /\ here[t] => status[t] \notin {"new", "queued"}
    /\ stage[t] # "none" <=> status[t] = "running"
    /\ stage[t] \in {"none", "begin"} <=> group[t] = {}
    /\ stage[t] = "insert" <=> left[t] # {}
    /\ left[t] \subseteq group[t]
    /\ stage[t] = "insert" => \A i \in group[t] \ left[t], j \in left[t] : i < j

(* The groups are the classes of the payload by path and type: the one at  *)
(* work is one of them, and the entities to do are some of the others.     *)
GroupInv(t) ==
    /\ todo[t] \cup group[t] \subseteq DOMAIN payload[t]
    /\ group[t] \cap todo[t] = {}
    /\ \A i \in group[t] : GroupOf(t, i) = group[t]
    /\ \A i \in todo[t] : GroupOf(t, i) \subseteq todo[t]
    /\ group[t] = {} => todo[t] = {}
    /\ group[t] # {} => HeaderFits(t)

(* In this run, which is the last one counted, no row was stored yet of    *)
(* what is left to store.                                                  *)
CopyInv(t) ==
    /\ copies[t] \in [DOMAIN note[t].entities -> [full : Nat, raw : Nat]]
    /\ \A i \in DOMAIN copies[t] :
        /\ copies[t][i].full <= runs[t] /\ copies[t][i].raw <= runs[t]
        /\ stage[t] = "begin" \/ i \in todo[t] \/ (stage[t] = "prepare" /\ i \in group[t])
             \/ i \in left[t] => copies[t][i].full < runs[t]
        /\ stage[t] = "begin" \/ i \in todo[t] \cup group[t] => copies[t][i].raw < runs[t]

(* What is not to be done any more was stored.                             *)
StoredInv(t) ==
    /\ Stored(t) \subseteq IF Accepted(t) THEN DOMAIN payload[t] ELSE {}
    /\ Accepted(t) /\ ~HeaderFits(t) => Stored(t) = {}
    /\ stage[t] \in {"prepare", "insert", "raw"}
         => DOMAIN payload[t] \ (todo[t] \cup group[t]) \subseteq Stored(t)
    /\ stage[t] = "insert" => group[t] \ left[t] \subseteq Stored(t)
    /\ status[t] = "finished" => Stored(t) = DOMAIN payload[t]
    /\ Accepted(t) /\ answer[t] = "400" => ~HeaderFits(t)

(* A row depends on the notification, the deployment and, for its instance *)
(* id, the run.                                                            *)
RecordedIn(t, i, c) ==
    LET p == payload[t]
        from == {j \in GroupOf(t, i) : \E q \in Slots : IsOf(p[j][q], c)}
        last == {j \in from : \A k \in from : k <= j}
    IN  {a \in {p[j][q] : j \in last, q \in Slots} : IsOf(a, c)}
ValueIn(t, i, s) ==
    LET a == payload[t][i][s] IN
    IF a.name = "none" THEN "null"
    ELSE CHOOSE v \in {IF r.name = a.name THEN DbValue(conf.backend, AttrType(r), a)
                                          ELSE "null" :
                       r \in RecordedIn(t, i, Column[a.name])} : TRUE
RowOf(t, i, run) ==
    [task |-> t, ent |-> i, form |-> "full", instance |-> run, table |-> payload[t][i].type,
     path |-> PathOf(t, i), tix |-> payload[t][i].tix,
     value |-> ValueIn(t, i, "attr"), place |-> ValueIn(t, i, "location")]
RowInv(r) ==
    /\ r.task \in Tasks /\ Accepted(r.task) /\ HeaderFits(r.task)
    /\ r.ent \in DOMAIN payload[r.task]
    /\ r.table = payload[r.task][r.ent].type
    /\ r.form = "full" => r = RowOf(r.task, r.ent, r.instance)
RowsInv == \A r \in rows : RowInv(r)

Blamed(t) == Unparsable(t) \/ Shapeless(t) \/ OutOfRange(t) \/ UsesReserved(t)
CauseInv(t) == status[t] = "failed" => struck[t] \/ ~HeaderFits(t) \/ Blamed(t)

TaskInv(t) ==
    /\ ReadInv(t) /\ EntryInv(t) /\ RunInv(t) /\ GroupInv(t)
    /\ CopyInv(t) /\ StoredInv(t) /\ CauseInv(t)
IInv == FunctionInv /\ ColumnInv /\ InputInv /\ RowsInv /\ \A t \in Tasks : TaskInv(t)

-----------------------------------------------------------------------------
(* Min of a set of numbers is its least element.                           *)
LEMMA LeastNumber ==
    ASSUME NEW S, S \subseteq Nat, S # {}
    PROVE  Min(S) \in S /\ \A j \in S : Min(S) <= j
<1> DEFINE R == {p \in Nat \X Nat : p[1] < p[2]}
<1>1. IsWellFoundedOn(R, Nat)
  BY NatLessThanWellFounded DEF OpToRel
<1>2. PICK i \in S : \A j \in S : ~ <<j, i>> \in R
  <2> HIDE DEF R
  <2> QED
    BY <1>1, WFMin
<1>3. ASSUME NEW j \in S
      PROVE  i <= j
  <2>1. i \in Nat /\ j \in Nat /\ <<j, i>> \notin R
    BY <1>2
  <2> QED
    BY <2>1
<1> QED
  BY <1>3 DEF Min

(* A set of numbers that has a bound has a greatest element.               *)
LEMMA GreatestNumber ==
    ASSUME NEW n \in Nat, NEW S, S \subseteq 1..n, S # {}
    PROVE  \E i \in S : \A j \in S : j <= i
<1> DEFINE T == {n - j : j \in S}
<1>1. T \subseteq Nat /\ T # {}
  <2>1. ASSUME NEW j \in S
        PROVE  n - j \in Nat
    <3>1. j \in 1..n
      OBVIOUS
    <3> QED
      BY <3>1
  <2> QED
    BY <2>1
<1>2. PICK m \in T : \A k \in T : m <= k
  <2> HIDE DEF T
  <2> QED
    BY <1>1, LeastNumber
<1>3. PICK i \in S : m = n - i
  BY <1>2
<1>4. ASSUME NEW j \in S
      PROVE  j <= i
  <2>1. n - j \in T /\ i \in 1..n /\ j \in 1..n
    OBVIOUS
  <2>2. n - i <= n - j
    BY <1>2, <1>3, <2>1
  <2> QED
    BY <2>1, <2>2
<1> QED
  BY <1>4

(* The groups are classes: an entity's group is that of any of its members.*)
LEMMA GroupIsClass ==
    ASSUME NEW t, NEW i \in DOMAIN payload[t]
    PROVE  /\ i \in GroupOf(t, i)
           /\ GroupOf(t, i) \subseteq DOMAIN payload[t]
           /\ \A j \in GroupOf(t, i) : /\ GroupOf(t, j) = GroupOf(t, i)
                                       /\ PathOf(t, j) = PathOf(t, i)
                                       /\ payload[t][j].type = payload[t][i].type
BY DEF GroupOf, OnPath

(* The first group of some entities is the group of one of them.           *)
LEMMA FirstGroupOfSome ==
    ASSUME NEW t, DOMAIN payload[t] \subseteq Nat,
           NEW S, S \subseteq DOMAIN payload[t], S # {}
    PROVE  \E i \in S : FirstGroup(t, S) = GroupOf(t, i)
<1> DEFINE Firsts == {Min(OnPath(t, i)) : i \in S}
<1>1. \A i \in S : /\ OnPath(t, i) \subseteq Nat /\ i \in OnPath(t, i)
                   /\ Min(OnPath(t, i)) \in OnPath(t, i)
  <2> TAKE i \in S
  <2>1. OnPath(t, i) \subseteq Nat /\ i \in OnPath(t, i)
    BY DEF OnPath
  <2> QED
    BY <2>1, LeastNumber
<1>2. \A i, j \in S : Min(OnPath(t, i)) = Min(OnPath(t, j)) => OnPath(t, i) = OnPath(t, j)
  BY <1>1 DEF OnPath
<1>3. Firsts \subseteq Nat /\ Firsts # {}
  BY <1>1
<1>4. PICK k \in S : \A j \in S : Min(OnPath(t, k)) <= Min(OnPath(t, j))
  <2>1. PICK m \in Firsts : \A n \in Firsts : m <= n
    <3> HIDE DEF Firsts
    <3> QED
      BY <1>3, LeastNumber
  <2> QED
    BY <2>1
<1> DEFINE T == {i \in S : OnPath(t, i) = OnPath(t, k)}
<1>5. PICK i \in T : \A j \in T : i <= j
  <2>1. T \subseteq Nat /\ T # {}
    OBVIOUS
  <2> QED
    BY <2>1, LeastNumber
<1>6. \A j \in S : Precedes(t, i, j)
  <2> TAKE j \in S
  <2>1. CASE OnPath(t, i) = OnPath(t, j)
    BY <1>5, <2>1 DEF Precedes
  <2>2. CASE OnPath(t, i) # OnPath(t, j)
    <3>1. Min(OnPath(t, i)) <= Min(OnPath(t, j))
      BY <1>4, <1>5
    <3>2. Min(OnPath(t, i)) # Min(OnPath(t, j))
      BY <1>2, <1>5, <2>2
    <3>3. Min(OnPath(t, i)) \in Nat /\ Min(OnPath(t, j)) \in Nat
      BY <1>1, <1>5
    <3> QED
      BY <2>2, <3>1, <3>2, <3>3 DEF Precedes
  <2> QED
    BY <2>1, <2>2
<1>7. i \in S
  BY <1>5
<1> HIDE DEF T, Firsts
<1> QED
  BY <1>6, <1>7 DEF FirstGroup

-----------------------------------------------------------------------------
(* What the steps do to the task that takes them, and that they do nothing *)
(* to the others.                                                          *)
OtherTask(t) ==
    /\ status'[t] = status[t] /\ stage'[t] = stage[t] /\ here'[t] = here[t]
    /\ runs'[t] = runs[t] /\ payload'[t] = payload[t] /\ todo'[t] = todo[t]
    /\ group'[t] = group[t] /\ left'[t] = left[t] /\ answer'[t] = answer[t]
OtherStore(t) == copies'[t] = copies[t] /\ struck'[t] = struck[t]

Halted(t, s, code) ==
    /\ status'[t] = s /\ stage'[t] = "none"
    /\ todo'[t] = {} /\ group'[t] = {} /\ left'[t] = {}
    /\ answer'[t] = IF here[t] THEN code ELSE answer[t]
    /\ here'[t] = here[t] /\ runs'[t] = runs[t] /\ payload'[t] = payload[t]
Entered(t, others) ==
    /\ status'[t] = status[t] /\ stage'[t] = "prepare"
    /\ todo'[t] = others \ FirstGroup(t, others)
    /\ group'[t] = FirstGroup(t, others) /\ left'[t] = {}
    /\ answer'[t] = answer[t]
    /\ here'[t] = here[t] /\ runs'[t] = runs[t] /\ payload'[t] = payload[t]
Advanced(t, s, rest) ==
    /\ status'[t] = status[t] /\ stage'[t] = s /\ left'[t] = rest
    /\ todo'[t] = todo[t] /\ group'[t] = group[t]
    /\ answer'[t] = answer[t]
    /\ here'[t] = here[t] /\ runs'[t] = runs[t] /\ payload'[t] = payload[t]
TaskFunctions ==
    /\ status \in [Tasks -> Statuses] /\ stage \in [Tasks -> Stages]
    /\ here \in [Tasks -> BOOLEAN]
    /\ answer \in [Tasks -> {"none", "200", "400", "500"}]
    /\ DOMAIN runs = Tasks /\ DOMAIN payload = Tasks /\ DOMAIN todo = Tasks
    /\ DOMAIN group = Tasks /\ DOMAIN left = Tasks

(* How a run ends. *)
LEMMA LeaveEffect ==
    ASSUME FunctionInv, NEW t \in Tasks, NEW s \in Statuses,
           NEW code \in {"none", "200", "400", "500"}, Leave(t, s, code)
    PROVE  /\ Halted(t, s, code) /\ TaskFunctions'
           /\ \A u \in Tasks \ {t} : OtherTask(u)
BY DEF FunctionInv, Leave, Halted, OtherTask, TaskFunctions, Stages

(* How a run goes on to another group, or ends after the last. *)
LEMMA EnterEffect ==
    ASSUME FunctionInv, NEW t \in Tasks, NEW others, Enter(t, others)
    PROVE  /\ IF others = {} THEN Halted(t, "finished", "200") ELSE Entered(t, others)
           /\ TaskFunctions'
           /\ \A u \in Tasks \ {t} : OtherTask(u)
<1>1. CASE others = {}
  <2>1. Leave(t, "finished", "200")
    BY <1>1 DEF Enter
  <2> QED
    BY <1>1, <2>1, LeaveEffect DEF Statuses
<1>2. CASE others # {}
  BY <1>2 DEF FunctionInv, Enter, Entered, OtherTask, TaskFunctions, Stages
<1> QED
  BY <1>1, <1>2

(* How a run goes on to the raw rows. *)
LEMMA ToRawEffect ==
    ASSUME FunctionInv, NEW t \in Tasks, ToRaw(t)
    PROVE  /\ Advanced(t, "raw", {}) /\ TaskFunctions'
           /\ \A u \in Tasks \ {t} : OtherTask(u)
BY DEF FunctionInv, ToRaw, Advanced, OtherTask, TaskFunctions, Stages

(* Stored rows are counted for their entities. *)
Counted(t, full, raw) ==
    copies'[t] = [i \in DOMAIN copies[t] |->
                    [full |-> copies[t][i].full + (IF i \in full THEN 1 ELSE 0),
                     raw |-> copies[t][i].raw + (IF i \in raw THEN 1 ELSE 0)]]

(* Rows are stored for entities of one task. *)
LEMMA StoreEffect ==
    ASSUME FunctionInv, NEW t \in Tasks, CopyInv(t), NEW S, NEW new,
           NEW form \in {"full", "raw"}, StoreRows(t, S, new, form)
    PROVE  /\ DOMAIN copies' = Tasks /\ \A u \in Tasks \ {t} : copies'[u] = copies[u]
           /\ form = "full" => Counted(t, S, {})
           /\ form = "raw" => Counted(t, {}, S)
           /\ rows' = rows \cup new /\ columns' = columns
<1>1. /\ DOMAIN copies' = Tasks /\ \A u \in Tasks \ {t} : copies'[u] = copies[u]
      /\ rows' = rows \cup new /\ columns' = columns
  BY DEF FunctionInv, StoreRows
<1>2. copies'[t] = [i \in DOMAIN copies[t] |->
                    IF i \in S THEN OneMore(copies[t][i], form) ELSE copies[t][i]]
  BY DEF FunctionInv, StoreRows
<1>3. \A i \in DOMAIN copies[t] : copies[t][i] \in [full : Nat, raw : Nat]
  BY DEF CopyInv
<1>4. CASE form = "full"
  BY <1>1, <1>2, <1>3, <1>4 DEF Counted, OneMore
<1>5. CASE form = "raw"
  BY <1>1, <1>2, <1>3, <1>5 DEF Counted, OneMore
<1> QED
  BY <1>1, <1>4, <1>5

-----------------------------------------------------------------------------
(* What is said of a payload stays true as long as the payload stays.      *)
LEMMA SamePayload ==
    ASSUME NEW t, payload'[t] = payload[t], note' = note
    PROVE  /\ \A i : PathOf(t, i)' = PathOf(t, i)
           /\ \A i : GroupOf(t, i)' = GroupOf(t, i)
           /\ HeaderFits(t)' <=> HeaderFits(t)
<1>1. \A i : PathOf(t, i)' = PathOf(t, i)
  BY DEF PathOf
<1>2. \A i : OnPath(t, i)' = OnPath(t, i)
  BY <1>1 DEF OnPath
<1>3. \A i : GroupOf(t, i)' = GroupOf(t, i)
  BY <1>2 DEF GroupOf
<1> QED
  BY <1>1, <1>3 DEF HeaderFits

(* So does what a failure is blamed on. *)
LEMMA SameBlame ==
    ASSUME NEW t, payload'[t] = payload[t], conf' = conf
    PROVE  Blamed(t)' <=> Blamed(t)
<1>1. Brought(t)' = Brought(t)
  BY DEF Brought, Due
<1> QED
  BY <1>1 DEF Blamed, Unparsable, Shapeless, OutOfRange, UsesReserved

(* So do the entries. *)
LEMMA SameEntries ==
    ASSUME NEW t, payload'[t] = payload[t], note' = note, EntryInv(t),
           Accepted(t)' => Accepted(t)
    PROVE  EntryInv(t)'
<1>1. Due(t)' = Due(t) /\ \A i : Sent(t, i)' = Sent(t, i)
  BY DEF Due, Sent
<1> QED
  BY <1>1 DEF EntryInv

(* What is stored of a task depends on its counts only. *)
LEMMA SameStore ==
    ASSUME NEW t, copies'[t] = copies[t]
    PROVE  Stored(t)' = Stored(t)
BY DEF Stored

(* A step that leaves a task alone keeps what holds of it. *)
LEMMA OthersKept ==
    ASSUME NEW t \in Tasks, TaskInv(t), OtherTask(t), OtherStore(t), note' = note, conf' = conf
    PROVE  TaskInv(t)'
<1>1. /\ \A i : GroupOf(t, i)' = GroupOf(t, i)
      /\ HeaderFits(t)' <=> HeaderFits(t)
      /\ Blamed(t)' <=> Blamed(t)
      /\ Stored(t)' = Stored(t)
  BY SamePayload, SameBlame, SameStore DEF OtherTask, OtherStore
<1>2. ReadInv(t)' /\ EntryInv(t)' /\ RunInv(t)'
  BY SameEntries DEF TaskInv, ReadInv, RunInv, Accepted, OtherTask
<1>3. GroupInv(t)'
  BY <1>1 DEF TaskInv, GroupInv, OtherTask
<1>4. CopyInv(t)'
  BY DEF TaskInv, CopyInv, OtherTask, OtherStore
<1>5. StoredInv(t)' /\ CauseInv(t)'
  BY <1>1 DEF TaskInv, StoredInv, CauseInv, Accepted, OtherTask, OtherStore
<1> QED
  BY <1>2, <1>3, <1>4, <1>5 DEF TaskInv

(* The counts after some rows were stored. *)
LEMMA CountedFacts ==
    ASSUME NEW t \in Tasks, CopyInv(t), EntryInv(t), GroupInv(t), Accepted(t),
           NEW full \in SUBSET (todo[t] \cup group[t]),
           NEW raw \in SUBSET (todo[t] \cup group[t]),
           Counted(t, full, raw), note' = note, payload'[t] = payload[t]
    PROVE  /\ copies'[t] \in [DOMAIN note'[t].entities -> [full : Nat, raw : Nat]]
           /\ \A i \in DOMAIN copies[t] :
                /\ copies'[t][i].full = copies[t][i].full + (IF i \in full THEN 1 ELSE 0)
                /\ copies'[t][i].raw = copies[t][i].raw + (IF i \in raw THEN 1 ELSE 0)
           /\ DOMAIN copies'[t] = DOMAIN copies[t]
           /\ Stored(t)' = Stored(t) \cup full \cup raw
<1>1. copies[t] \in [DOMAIN note[t].entities -> [full : Nat, raw : Nat]]
  BY DEF CopyInv
<1>2. full \subseteq DOMAIN copies[t] /\ raw \subseteq DOMAIN copies[t]
  BY <1>1 DEF GroupInv, EntryInv
<1>3. \A i \in DOMAIN copies[t] :
        /\ copies[t][i].full \in Nat /\ copies[t][i].raw \in Nat
        /\ copies'[t][i] = [full |-> copies[t][i].full + (IF i \in full THEN 1 ELSE 0),
                            raw |-> copies[t][i].raw + (IF i \in raw THEN 1 ELSE 0)]
  BY <1>1 DEF Counted
<1>4. \A i \in DOMAIN copies[t] :
        /\ copies'[t][i].full = copies[t][i].full + (IF i \in full THEN 1 ELSE 0)
        /\ copies'[t][i].raw = copies[t][i].raw + (IF i \in raw THEN 1 ELSE 0)
  <2> TAKE i \in DOMAIN copies[t]
  <2> DEFINE f == copies[t][i].full + (IF i \in full THEN 1 ELSE 0)
             r == copies[t][i].raw + (IF i \in raw THEN 1 ELSE 0)
  <2>1. copies'[t][i] = [full |-> f, raw |-> r]
    BY <1>3
  <2> HIDE DEF f, r
  <2>2. copies'[t][i].full = f /\ copies'[t][i].raw = r
    BY <2>1
  <2> QED
    BY <2>2 DEF f, r
<1>5. copies'[t] \in [DOMAIN note'[t].entities -> [full : Nat, raw : Nat]]
  BY <1>1, <1>3 DEF Counted
<1>6. DOMAIN copies'[t] = DOMAIN copies[t]
  BY DEF Counted
<1>7. \A i \in DOMAIN copies[t] :
        copies'[t][i].full + copies'[t][i].raw > 0
        <=> copies[t][i].full + copies[t][i].raw > 0 \/ i \in full \/ i \in raw
  <2> TAKE i \in DOMAIN copies[t]
  <2>1. copies[t][i].full \in Nat /\ copies[t][i].raw \in Nat
    BY <1>3
  <2>2. /\ copies'[t][i].full = copies[t][i].full + (IF i \in full THEN 1 ELSE 0)
        /\ copies'[t][i].raw = copies[t][i].raw + (IF i \in raw THEN 1 ELSE 0)
    BY <1>4
  <2> QED
    BY <2>1, <2>2
<1>8. Stored(t)' = Stored(t) \cup full \cup raw
  BY <1>2, <1>6, <1>7 DEF Stored
<1> QED
  BY <1>4, <1>5, <1>6, <1>8

(* A run that ends before its time, whatever it stored until then.         *)
LEMMA HaltStep ==
    ASSUME NEW t \in Tasks, TaskInv(t), status[t] = "running", note' = note, conf' = conf,
           NEW s \in {"queued", "failed"}, s = "queued" => CanRetry(t),
           NEW code, code = "400" => ~HeaderFits(t), Halted(t, s, code),
           NEW full \in SUBSET left[t], NEW raw \in SUBSET group[t],
           raw # {} => stage[t] = "raw", Counted(t, full, raw),
           s = "failed" => struck'[t] \/ ~HeaderFits(t) \/ Blamed(t),
           runs[t] \in Nat
    PROVE  TaskInv(t)'
<1>1. /\ \A i : GroupOf(t, i)' = GroupOf(t, i)
      /\ HeaderFits(t)' <=> HeaderFits(t)
      /\ Blamed(t)' <=> Blamed(t)
  BY SamePayload, SameBlame DEF Halted
<1>2. ReadInv(t)' /\ EntryInv(t)' /\ GroupInv(t)' /\ CauseInv(t)'
  BY <1>1, SameEntries DEF TaskInv, ReadInv, GroupInv, CauseInv, Accepted, Halted
<1>3. RunInv(t)'
  BY RetriesAssumption DEF TaskInv, RunInv, Halted, CanRetry
<1>4. /\ full \subseteq todo[t] \cup group[t] /\ raw \subseteq todo[t] \cup group[t]
      /\ CopyInv(t) /\ EntryInv(t) /\ GroupInv(t) /\ Accepted(t)
      /\ payload'[t] = payload[t]
  BY DEF TaskInv, RunInv, Accepted, Halted
<1>5. /\ copies'[t] \in [DOMAIN note'[t].entities -> [full : Nat, raw : Nat]]
      /\ \A i \in DOMAIN copies[t] :
            /\ copies'[t][i].full = copies[t][i].full + (IF i \in full THEN 1 ELSE 0)
            /\ copies'[t][i].raw = copies[t][i].raw + (IF i \in raw THEN 1 ELSE 0)
      /\ DOMAIN copies'[t] = DOMAIN copies[t]
      /\ Stored(t)' = Stored(t) \cup full \cup raw
  BY <1>4, CountedFacts
<1>6. CopyInv(t)'
  <2>1. \A i \in DOMAIN copies[t] : copies[t][i] \in [full : Nat, raw : Nat]
    BY <1>4 DEF CopyInv
  <2> QED
    BY <1>5, <2>1 DEF TaskInv, RunInv, CopyInv, Halted
<1>7. StoredInv(t)'
  BY <1>1, <1>4, <1>5 DEF TaskInv, GroupInv, StoredInv, Accepted, Halted
<1> QED
  BY <1>2, <1>3, <1>6, <1>7 DEF TaskInv

(* The group was stored, one way or the other: the next one is begun, or   *)
(* the run has stored all of them.                                         *)
LEMMA NextGroupStep ==
    ASSUME NEW t \in Tasks, TaskInv(t), status[t] = "running", note' = note,
           DOMAIN payload[t] \subseteq Nat, HeaderFits(t),
           NEW others \in SUBSET DOMAIN payload[t],
           \A i \in others : GroupOf(t, i) \subseteq others,
           others # {} => Entered(t, others),
           others = {} => Halted(t, "finished", "200"),
           NEW full \in SUBSET left[t], NEW raw \in SUBSET group[t],
           raw # {} => stage[t] = "raw", Counted(t, full, raw),
           DOMAIN payload[t] \ others \subseteq Stored(t) \cup full \cup raw,
           stage[t] = "begin" \/ others = todo[t],
           struck'[t] = struck[t], runs[t] \in Nat
    PROVE  TaskInv(t)'
<1>1. payload'[t] = payload[t] /\ runs'[t] = runs[t] /\ here'[t] = here[t]
  BY DEF Entered, Halted
<1>2. /\ \A i : GroupOf(t, i)' = GroupOf(t, i)
      /\ HeaderFits(t)' <=> HeaderFits(t)
  BY <1>1, SamePayload
<1>3. /\ full \subseteq todo[t] \cup group[t] /\ raw \subseteq todo[t] \cup group[t]
      /\ CopyInv(t) /\ EntryInv(t) /\ GroupInv(t) /\ Accepted(t)
  BY DEF TaskInv, RunInv, Accepted
<1>4. /\ copies'[t] \in [DOMAIN note'[t].entities -> [full : Nat, raw : Nat]]
      /\ \A i \in DOMAIN copies[t] :
            /\ copies'[t][i].full = copies[t][i].full + (IF i \in full THEN 1 ELSE 0)
            /\ copies'[t][i].raw = copies[t][i].raw + (IF i \in raw THEN 1 ELSE 0)
      /\ DOMAIN copies'[t] = DOMAIN copies[t]
      /\ Stored(t)' = Stored(t) \cup full \cup raw
  BY <1>1, <1>3, CountedFacts
<1>5. \A i \in DOMAIN copies[t] :
        /\ copies[t][i].full \in Nat /\ copies[t][i].raw \in Nat
        /\ copies'[t][i].full <= runs[t] /\ copies'[t][i].raw <= runs[t]
        /\ i \in others => copies'[t][i].full < runs[t] /\ copies'[t][i].raw < runs[t]
  <2>1. \A i \in DOMAIN copies[t] : copies[t][i] \in [full : Nat, raw : Nat]
    BY <1>3 DEF CopyInv
  <2>2. \A i \in others : /\ stage[t] = "begin" \/ i \in todo[t]
                          /\ i \notin full /\ i \notin raw
    BY <1>3 DEF TaskInv, RunInv, GroupInv
  <2> QED
    BY <1>3, <1>4, <2>1, <2>2 DEF CopyInv
<1>6. \A i \in DOMAIN copies[t] :
        copies[t][i].full + copies[t][i].raw > 0 => i \in DOMAIN payload[t]
  BY <1>3 DEF TaskInv, StoredInv, Stored
<1>7. Stored(t)' \subseteq DOMAIN payload[t]
  BY <1>3, <1>4 DEF TaskInv, StoredInv, GroupInv
<1>8. CASE others = {}
  <2>1. Halted(t, "finished", "200")
    BY <1>8
  <2>2. ReadInv(t)' /\ EntryInv(t)' /\ RunInv(t)' /\ GroupInv(t)' /\ CauseInv(t)'
    BY <1>1, <2>1, SameEntries
       DEF TaskInv, ReadInv, RunInv, GroupInv, CauseInv, Accepted, Halted
  <2>3. CopyInv(t)'
    BY <1>4, <1>5, <2>1 DEF CopyInv, Halted
  <2>4. StoredInv(t)'
    BY <1>1, <1>2, <1>3, <1>4, <1>7, <1>8, <2>1 DEF TaskInv, StoredInv, Accepted, Halted
  <2> QED
    BY <2>2, <2>3, <2>4 DEF TaskInv
<1>9. CASE others # {}
  <2>1. Entered(t, others)
    BY <1>9
  <2>2. PICK i \in others : FirstGroup(t, others) = GroupOf(t, i)
    BY <1>9, FirstGroupOfSome
  <2>3. /\ group'[t] = GroupOf(t, i) /\ todo'[t] = others \ GroupOf(t, i)
        /\ status'[t] = "running" /\ stage'[t] = "prepare" /\ left'[t] = {}
        /\ answer'[t] = answer[t]
    BY <2>1, <2>2 DEF Entered
  <2>4. i \in GroupOf(t, i) /\ GroupOf(t, i) \subseteq others
    BY GroupIsClass
  <2>5. ReadInv(t)' /\ EntryInv(t)' /\ RunInv(t)' /\ CauseInv(t)'
    BY <1>1, <2>3, <2>4, SameEntries DEF TaskInv, ReadInv, RunInv, CauseInv, Accepted
  <2>6. GroupInv(t)'
    <3>1. \A j \in GroupOf(t, i) : GroupOf(t, j) = GroupOf(t, i)
      BY GroupIsClass
    <3>2. \A j \in others \ GroupOf(t, i) : GroupOf(t, j) \subseteq others \ GroupOf(t, i)
      <4> SUFFICES ASSUME NEW j \in others \ GroupOf(t, i), NEW k \in GroupOf(t, j)
                   PROVE  k \in others /\ k \notin GroupOf(t, i)
        OBVIOUS
      <4>1. GroupOf(t, k) = GroupOf(t, j) /\ j \in GroupOf(t, j)
        BY GroupIsClass
      <4> QED
        BY <3>1, <4>1
    <3> QED
      BY <1>1, <1>2, <2>3, <2>4, <3>1, <3>2 DEF GroupInv
  <2>7. CopyInv(t)'
    BY <1>1, <1>4, <1>5, <2>3, <2>4 DEF CopyInv
  <2>8. StoredInv(t)'
    BY <1>1, <1>2, <1>3, <1>4, <1>7, <2>3, <2>4 DEF TaskInv, StoredInv, Accepted
  <2> QED
    BY <2>5, <2>6, <2>7, <2>8 DEF TaskInv
<1> QED
  BY <1>8, <1>9

(* The run goes on with the rows of the same group.                        *)
LEMMA SameGroupStep ==
    ASSUME NEW t \in Tasks, TaskInv(t), status[t] = "running", note' = note,
           NEW full \in SUBSET left[t], Counted(t, full, {}),
           NEW s \in {"insert", "raw"}, NEW rest, Advanced(t, s, rest),
           s = "raw" => stage[t] = "insert" /\ rest = {},
           s = "insert" => \/ stage[t] = "prepare" /\ rest = group[t]
                           \/ /\ stage[t] = "insert" /\ rest = left[t] \ full /\ rest # {}
                              /\ \A i \in full, j \in rest : i < j,
           runs[t] \in Nat
    PROVE  TaskInv(t)'
<1>1. payload'[t] = payload[t] /\ runs'[t] = runs[t] /\ here'[t] = here[t]
  BY DEF Advanced
<1>2. /\ \A i : GroupOf(t, i)' = GroupOf(t, i)
      /\ HeaderFits(t)' <=> HeaderFits(t)
  BY <1>1, SamePayload
<1>3. /\ full \subseteq todo[t] \cup group[t] /\ group[t] # {}
      /\ full # {} => stage[t] = "insert"
      /\ CopyInv(t) /\ EntryInv(t) /\ GroupInv(t) /\ Accepted(t)
  BY DEF TaskInv, RunInv, Accepted
<1>4. /\ copies'[t] \in [DOMAIN note'[t].entities -> [full : Nat, raw : Nat]]
      /\ \A i \in DOMAIN copies[t] :
            /\ copies'[t][i].full = copies[t][i].full + (IF i \in full THEN 1 ELSE 0)
            /\ copies'[t][i].raw = copies[t][i].raw
      /\ DOMAIN copies'[t] = DOMAIN copies[t]
      /\ Stored(t)' = Stored(t) \cup full
  <2> DEFINE raw == {}
  <2>1. raw \in SUBSET (todo[t] \cup group[t]) /\ Counted(t, full, raw)
    OBVIOUS
  <2> HIDE DEF raw
  <2>2. /\ copies'[t] \in [DOMAIN note'[t].entities -> [full : Nat, raw : Nat]]
        /\ \A i \in DOMAIN copies[t] :
            /\ copies'[t][i].full = copies[t][i].full + (IF i \in full THEN 1 ELSE 0)
            /\ copies'[t][i].raw = copies[t][i].raw + (IF i \in raw THEN 1 ELSE 0)
        /\ DOMAIN copies'[t] = DOMAIN copies[t]
        /\ Stored(t)' = Stored(t) \cup full \cup raw
    BY <1>1, <1>3, <2>1, CountedFacts, ZenonT(30)
  <2>3. \A i \in DOMAIN copies[t] : copies[t][i].raw \in Nat
    BY <1>3 DEF CopyInv
  <2> QED
    BY <2>2, <2>3 DEF raw
<1>5. ReadInv(t)' /\ EntryInv(t)' /\ CauseInv(t)'
  BY <1>1, <1>3, SameEntries DEF TaskInv, ReadInv, CauseInv, Accepted, Advanced
<1>6. RunInv(t)'
  BY <1>1, <1>3 DEF TaskInv, RunInv, Advanced
<1>7. GroupInv(t)'
  BY <1>1, <1>2, <1>3 DEF GroupInv, Advanced
<1>8. CopyInv(t)'
  <2>1. \A i \in DOMAIN copies[t] : copies[t][i] \in [full : Nat, raw : Nat]
    BY <1>3 DEF CopyInv
  <2>2. \A i \in rest : i \notin full /\ (i \in left[t] \/ (stage[t] = "prepare" /\ i \in group[t]))
    <3>1. CASE s = "raw"
      BY <3>1
    <3>2. CASE stage[t] = "prepare" /\ rest = group[t]
      <4>1. full = {}
        BY <1>3, <3>2
      <4> QED
        BY <3>2, <4>1
    <3>3. CASE rest = left[t] \ full
      BY <3>3
    <3> QED
      BY <3>1, <3>2, <3>3
  <2>3. full \cap todo[t] = {}
    BY <1>3 DEF TaskInv, RunInv, GroupInv
  <2> QED
    BY <1>1, <1>3, <1>4, <2>1, <2>2, <2>3 DEF CopyInv, Advanced
<1>9. StoredInv(t)'
  BY <1>1, <1>2, <1>3, <1>4 DEF TaskInv, StoredInv, RunInv, GroupInv, Accepted, Advanced
<1> QED
  BY <1>5, <1>6, <1>7, <1>8, <1>9 DEF TaskInv

-----------------------------------------------------------------------------
(* The reporter. *)

(* Locations that are found and cached are positions, and so is what notify*)
(* makes of them: GeoJSON, of a location that was given as GeoJSON or can  *)
(* be read.                                                                *)
LEMMA LocationTypes ==
    ASSUME InputInv, NEW e \in Entities, NEW told \in Replies, NEW broken \in BOOLEAN
    PROVE  /\ Cached(e, LocationOf(e, told)) \in [AddressKeys -> Positions]
           /\ Normalized(LocationOf(e, told), broken) # Raises
                => ReadAs(e, Normalized(LocationOf(e, told), broken))
<1> DEFINE found == LocationOf(e, told)
           kind == KindOf(e.address)
<1>1. /\ NoLocation \in Positions /\ GeoPoint \in GivenLocations /\ GeoJson \in GivenLocations
      /\ GivenLocations \subseteq Positions
      /\ NoLocation \notin GivenLocations /\ Raises \notin Positions
  <2>1. "latlon" \in Kinds /\ "geojson" \in Kinds
    BY DEF Kinds, Strings, Dicts
  <2>2. GeoPoint \in Attributes /\ GeoJson \in Attributes
    BY <2>1, ColumnAssumption, NgsiTypesAssumption DEF GeoPoint, GeoJson, Location, Attributes
  <2>3. GeoPoint \in GivenLocations /\ GeoJson \in GivenLocations
    BY <2>2 DEF GeoPoint, GeoJson, Location, GivenLocations, GeoJsonTypes
  <2>4. \A l \in GivenLocations : l.name = "location"
    BY DEF GivenLocations
  <2>5. NoLocation.name = "none" /\ Raises.name = "raises"
    BY DEF NoLocation, Raises
  <2> QED
    BY <2>3, <2>4, <2>5 DEF Positions
<1>2. e.location \in Positions /\ e.address \in Addresses
  BY DEF Entities, Positions
<1>3. kind \notin {"none", "invalid"} => e.address.key \in AddressKeys
  BY <1>2 DEF Addresses, KindOf, NoAddress
<1>4. told \in Answers
  BY DEF Replies, Answers
<1>5. \A k : Extracted(k, told) \in {NoLocation, GeoPoint, GeoJson, Raises}
  BY <1>4 DEF Extracted, Answers
<1>6. geocache \in [AddressKeys -> Positions]
  BY DEF InputInv
<1>7. /\ found \in Positions \cup {Raises}
      /\ e.location # NoLocation => found = e.location
  <2> DEFINE cached == IF kind \in {"none", "invalid"} THEN NoLocation
                                                      ELSE geocache[e.address.key]
  <2>1. cached \in Positions
    BY <1>1, <1>3, <1>6
  <2>2. Located(kind, cached, told) \in Positions \cup {Raises}
    BY <1>1, <1>5, <2>1 DEF Located
  <2>3. found = IF e.location # NoLocation \/ conf.geocoding = "off" THEN e.location
                ELSE Located(kind, cached, told)
    BY DEF LocationOf
  <2> QED
    BY <1>2, <2>2, <2>3
<1>8. Cached(e, found) \in [AddressKeys -> Positions]
  <2>1. CASE conf.geocoding # "cached" \/ e.location # NoLocation \/ found \in {NoLocation, Raises}
    BY <1>6, <2>1 DEF Cached
  <2>2. CASE ~(conf.geocoding # "cached" \/ e.location # NoLocation
                 \/ found \in {NoLocation, Raises})
    <3>1. Cached(e, found) = [geocache EXCEPT ![e.address.key] = found]
      BY <2>2 DEF Cached
    <3> HIDE DEF found
    <3>2. found \in Positions
      BY <1>7, <2>2
    <3> QED
      BY <1>6, <3>1, <3>2
  <2> QED
    BY <2>1, <2>2
<1>9. ASSUME NEW l \in Positions \cup {Raises}
      PROVE  /\ Normalized(l, broken) \in {l, GeoJson, Raises}
             /\ IsReadable(l) \/ l.declared \in GeoJsonTypes
                  => Normalized(l, broken) \in {GeoJson, Raises}
  <2>1. CASE l.declared \in GeoJsonTypes
    <3>1. Normalized(l, broken) = [l EXCEPT !.declared = "geo:json"]
      BY <2>1 DEF Normalized, IsReadable, SlfTypes, GeoJsonTypes
    <3>2. l \in GivenLocations
      BY <2>1 DEF Positions, NoLocation, Raises, GeoJsonTypes
    <3>3. l \in Attributes /\ l.name = "location" /\ l.value = "geojson"
      BY <2>1, <3>2 DEF GivenLocations
    <3>4. [l EXCEPT !.declared = "geo:json"] = GeoJson
      BY <3>3 DEF Attributes, GeoJson, Location
    <3> QED
      BY <3>1, <3>4
  <2>2. CASE l.declared \notin GeoJsonTypes
    BY <2>2 DEF Normalized
  <2> QED
    BY <2>1, <2>2
<1>10. Normalized(found, broken) # Raises => ReadAs(e, Normalized(found, broken))
  <2> HIDE DEF found
  <2>1. Locatable(e) => e.location # NoLocation
    BY DEF Locatable, IsReadable, NoLocation, SlfTypes, GeoJsonTypes
  <2> QED
    BY <1>1, <1>2, <1>7, <1>9, <2>1 DEF ReadAs, Locatable, Positions
<1> QED
  BY <1>8, <1>10

(* What the reporter hands on of an entity. *)
LEMMA EntryTypes ==
    ASSUME NEW e \in Entities
    PROVE  /\ Entry(e).type = e.type
           /\ \A s \in Slots : Entry(e)[s] \in Attributes
<1>1. Stripped(e) \in Entities
  BY DEF Stripped, Entities
<1>2. Attribute(Stripped(e)) \in Attributes
  BY <1>1 DEF Attribute, Attributes, Entities
<1>3. e.location \in Attributes
  <2>1. NoLocation \in Attributes
    BY NgsiTypesAssumption DEF NoLocation, Attributes, Kinds
  <2> QED
    BY <2>1 DEF Entities, GivenLocations
<1>4. Entry(e).attr = Attribute(Stripped(e)) /\ Entry(e).location = e.location
      /\ Entry(e).type = e.type
  BY DEF Entry
<1> QED
  BY <1>2, <1>3, <1>4 DEF Slots

(* An entity that was read is one with its type; what it brings and is not *)
(* filtered out stays as it was sent.                                      *)
LEMMA TakenEntity ==
    ASSUME NEW e \in Entities, NEW p, Taken(e, p)
    PROVE  /\ p \in Entities /\ p.type = e.type
           /\ Brings(e) => ~IsEmpty(p) /\ Entry(p).attr = Attribute(e)
           /\ Locatable(e) => ~IsEmpty(p) /\ Entry(p).location = GeoJson
<1>1. PICK l : ReadAs(e, l) /\ p = [Validated(e) EXCEPT !.location = l]
  BY DEF Taken
<1>2. /\ Validated(e) \in Entities /\ Validated(e).type = e.type
      /\ Validated(e).name = e.name
  BY DEF Validated, Entities, Kinds
<1>3. /\ p \in Entities /\ p.type = e.type /\ p.location = l /\ p.name = e.name
      /\ p.value = Validated(e).value /\ p.declared = Validated(e).declared
      /\ p.address = Validated(e).address
  BY <1>1, <1>2 DEF ReadAs, Positions, Entities
<1>4. Entry(p).attr = Attribute(Stripped(p)) /\ Entry(p).location = p.location
  BY DEF Entry
<1>5. ASSUME Brings(e)
      PROVE  ~IsEmpty(p) /\ Entry(p).attr = Attribute(e)
  <2> DEFINE v == e.value
             d == e.declared
  <2>1. /\ Attribute(e).value = v /\ Attribute(e).declared = d
        /\ Conforms(Attribute(e)) /\ ~FilteredOut(e) /\ e.name # "none"
    BY <1>5 DEF Attribute, Brings
  <2>2. v # "null" /\ (v = "object" => d # "none")
    BY <2>1 DEF Conforms, Numbers, Fractions, Ints, Booleans, Strings, Dicts, DateTypes,
       GeoJsonTypes
  <2>3. v = "blank" => d \in {"Text", "Property", "none"}
    BY <2>1 DEF Conforms, Numbers, Fractions, Ints, Booleans, Dicts, DateTypes, GeoJsonTypes
  <2>4. v = "blank" => IsText(d)
    BY <2>3 DEF IsText, SupportedTypes, DateTypes, GeoJsonTypes, SlfTypes
  <2>5. Validated(e) = e
    BY <2>2, <2>4 DEF Validated, HasValue
  <2>6. Stripped(p) = p
    BY <1>3, <2>1, <2>2, <2>5 DEF Stripped, FilteredOut
  <2>7. Attribute(p) = Attribute(e)
    BY <1>3, <2>5 DEF Attribute
  <2>8. ~IsEmpty(p)
    BY <1>1, <1>3, <2>1, <2>2, <2>5 DEF IsEmpty, FilteredOut, ReadAs
  <2> QED
    BY <1>4, <2>6, <2>7, <2>8
<1>6. ASSUME Locatable(e)
      PROVE  ~IsEmpty(p) /\ Entry(p).location = GeoJson
  <2>1. l = GeoJson /\ GeoJson # NoLocation
    BY <1>1, <1>6 DEF ReadAs, GeoJson, Location, NoLocation
  <2> QED
    BY <1>3, <1>4, <2>1 DEF IsEmpty
<1> QED
  BY <1>3, <1>5, <1>6

(* The entities of a notification. *)
LEMMA NoteTypes ==
    ASSUME InputInv, NEW t \in Tasks
    PROVE  /\ note[t].entities \in Seq(Entities)
           /\ Len(note[t].entities) \in Nat
           /\ DOMAIN note[t].entities = 1..Len(note[t].entities)
           /\ \A i \in 1..Len(note[t].entities) : note[t].entities[i] \in Entities
<1>1. note[t].entities \in Seq(Entities)
  BY DEF InputInv, Notifications
<1> QED
  BY <1>1, LenProperties, ElementOfSeq

(* A notification that is refused before it was accepted stored nothing.   *)
LEMMA RejectStep ==
    ASSUME FunctionInv, NEW t \in Tasks, TaskInv(t), status[t] = "new", note' = note,
           NEW code \in {"400", "500"}, Reject(t, code), copies'[t] = copies[t]
    PROVE  TaskInv(t)' /\ TaskFunctions' /\ \A u \in Tasks \ {t} : OtherTask(u)
<1>1. TaskFunctions' /\ \A u \in Tasks \ {t} : OtherTask(u)
  BY DEF FunctionInv, Reject, TaskFunctions, OtherTask, Statuses
<1>2. /\ status'[t] = "rejected" /\ payload'[t] = <<>> /\ stage'[t] = stage[t]
      /\ here'[t] = here[t] /\ runs'[t] = runs[t] /\ todo'[t] = todo[t]
      /\ group'[t] = group[t] /\ left'[t] = left[t]
  BY DEF FunctionInv, Reject
<1>3. /\ stage[t] = "none" /\ group[t] = {} /\ todo[t] = {} /\ left[t] = {}
      /\ Stored(t) = {}
  BY DEF TaskInv, RunInv, GroupInv, StoredInv, Accepted
<1>4. ReadInv(t)' /\ EntryInv(t)' /\ RunInv(t)' /\ CauseInv(t)'
  BY <1>2, <1>3 DEF TaskInv, ReadInv, EntryInv, RunInv, CauseInv, Accepted
<1>5. GroupInv(t)'
  BY <1>2, <1>3 DEF GroupInv
<1>6. CopyInv(t)'
  BY <1>2, <1>3 DEF TaskInv, CopyInv
<1>7. StoredInv(t)'
  BY <1>2, <1>3, SameStore DEF StoredInv, Accepted
<1> QED
  BY <1>1, <1>4, <1>5, <1>6, <1>7 DEF TaskInv

(* The first loop of notify takes one more entity or refuses the           *)
(* notification.                                                           *)
LEMMA ReadStep ==
    ASSUME IInv, NEW t \in Tasks, Read(t)
    PROVE  /\ FunctionInv' /\ InputInv' /\ TaskInv(t)'
           /\ \A u \in Tasks \ {t} : OtherTask(u) /\ OtherStore(u)
           /\ conf' = conf /\ note' = note /\ UNCHANGED store
<1> DEFINE n == Len(payload[t]) + 1
           e == note[t].entities[n]
<1>1. /\ status[t] = "new" /\ Len(payload[t]) < Len(note[t].entities)
      /\ conf' = conf /\ note' = note /\ UNCHANGED store /\ TaskInv(t)
      /\ FunctionInv /\ InputInv
      /\ copies' = copies
  BY DEF IInv, Read, store
<1>2. /\ payload[t] \in Seq(Entities) /\ Len(payload[t]) \in Nat
      /\ DOMAIN payload[t] = 1..Len(payload[t])
      /\ \A i \in DOMAIN payload[t] : Taken(note[t].entities[i], payload[t][i])
  <2>1. payload[t] \in Seq(Entities)
    BY <1>1 DEF TaskInv, ReadInv
  <2> QED
    BY <1>1, <2>1, LenProperties DEF TaskInv, ReadInv
<1>3. n \in 1..Len(note[t].entities) /\ e \in Entities
  BY <1>1, <1>2, NoteTypes
<1> HIDE DEF n, e
<1>4. /\ \/ e.trouble \notin {"no type", "times"} /\ Locate(t, e)
         \/ \E code \in {"400", "500"} : Reject(t, code) /\ UNCHANGED <<geocache, struck>>
  BY DEF Read, n, e
<1>5. CASE \E code \in {"400", "500"} : Reject(t, code) /\ UNCHANGED <<geocache, struck>>
  <2>1. InputInv'
    BY <1>1, <1>5 DEF InputInv
  <2>2. TaskInv(t)' /\ TaskFunctions' /\ \A u \in Tasks \ {t} : OtherTask(u)
    BY <1>1, <1>5, RejectStep
  <2> QED
    BY <1>1, <1>5, <2>1, <2>2 DEF FunctionInv, TaskFunctions, OtherStore
<1>6. ASSUME UsesCache(e), Reject(t, "500"), Strike(t), UNCHANGED geocache
      PROVE  /\ FunctionInv' /\ InputInv' /\ TaskInv(t)'
             /\ \A u \in Tasks \ {t} : OtherTask(u) /\ OtherStore(u)
  <2>1. InputInv'
    BY <1>1, <1>6 DEF InputInv
  <2>2. TaskInv(t)' /\ TaskFunctions' /\ \A u \in Tasks \ {t} : OtherTask(u)
    BY <1>1, <1>6, RejectStep
  <2> QED
    BY <1>1, <1>6, <2>1, <2>2 DEF FunctionInv, TaskFunctions, OtherStore, Strike
<1>7. ASSUME NEW told \in Replies,
             geocache' = Cached(e, LocationOf(e, told)),
             NEW location,
             location = Normalized(LocationOf(e, told), e.trouble = "location"),
             IF location = Raises THEN Reject(t, "500")
             ELSE Take(t, [Validated(e) EXCEPT !.location = location]),
             UNCHANGED struck
      PROVE  /\ FunctionInv' /\ InputInv' /\ TaskInv(t)'
             /\ \A u \in Tasks \ {t} : OtherTask(u) /\ OtherStore(u)
  <2>1. /\ geocache' \in [AddressKeys -> Positions]
        /\ location # Raises => ReadAs(e, location)
    BY <1>1, <1>3, <1>7, LocationTypes
  <2>2. InputInv'
    BY <1>1, <2>1 DEF InputInv
  <2>3. CASE location = Raises
    <3>1. TaskInv(t)' /\ TaskFunctions' /\ \A u \in Tasks \ {t} : OtherTask(u)
      BY <1>1, <1>7, <2>3, RejectStep
    <3> QED
      BY <1>1, <1>7, <2>2, <3>1 DEF FunctionInv, TaskFunctions, OtherStore
  <2>4. CASE location # Raises
    <3> DEFINE read == [Validated(e) EXCEPT !.location = location]
    <3>1. Taken(e, read) /\ read \in Entities
      <4>1. Taken(e, read)
        BY <2>1, <2>4 DEF Taken
      <4> HIDE DEF read
      <4> QED
        BY <1>3, <4>1, TakenEntity
    <3>2. Take(t, read)
      BY <1>7, <2>4
    <3> HIDE DEF read
    <3>3. TaskFunctions' /\ \A u \in Tasks \ {t} : OtherTask(u)
      BY <1>1, <3>2 DEF FunctionInv, Take, TaskFunctions, OtherTask
    <3>4. /\ status' = status /\ stage' = stage /\ here' = here /\ runs' = runs
          /\ todo' = todo /\ group' = group /\ left' = left /\ answer' = answer
          /\ payload'[t] = Append(payload[t], read)
      BY <1>1, <3>2 DEF FunctionInv, Take
    <3>5. /\ payload'[t] \in Seq(Entities)
          /\ Len(payload'[t]) = n
          /\ \A i \in 1..Len(payload[t]) : payload'[t][i] = payload[t][i]
          /\ payload'[t][n] = read
          /\ DOMAIN payload'[t] = 1..n
      BY <1>2, <3>1, <3>4, AppendProperties, LenProperties DEF n
    <3>6. ReadInv(t)'
      <4>1. \A i \in DOMAIN payload'[t] : Taken(note[t].entities[i], payload'[t][i])
        BY <1>2, <3>1, <3>5, SMTT(30) DEF n, e
      <4> QED
        BY <1>1, <1>3, <3>5, <4>1, NoteTypes DEF ReadInv
    <3>7. /\ stage[t] = "none" /\ group[t] = {} /\ todo[t] = {} /\ left[t] = {}
          /\ Stored(t) = {}
      BY <1>1 DEF TaskInv, RunInv, GroupInv, StoredInv, Accepted
    <3>8. EntryInv(t)' /\ RunInv(t)' /\ CauseInv(t)' /\ CopyInv(t)'
      BY <1>1, <3>4 DEF TaskInv, EntryInv, RunInv, CauseInv, CopyInv, Accepted
    <3>9. GroupInv(t)'
      BY <3>4, <3>7 DEF GroupInv
    <3>10. StoredInv(t)'
      BY <1>1, <3>4, <3>7, SameStore DEF StoredInv, Accepted
    <3> QED
      BY <1>1, <1>7, <2>2, <3>3, <3>6, <3>8, <3>9, <3>10
         DEF FunctionInv, TaskFunctions, OtherStore, TaskInv
  <2> QED
    BY <2>3, <2>4
<1>8. CASE Locate(t, e)
  BY <1>1, <1>6, <1>7, <1>8 DEF Locate
<1> QED
  BY <1>1, <1>4, <1>5, <1>8

(* Notify hands on entries of the notification's entities, one of each that*)
(* brings something.                                                       *)
LEMMA ReportedTypes ==
    ASSUME NEW t \in Tasks, InputInv, ReadInv(t), status[t] = "new",
           Len(payload[t]) = Len(note[t].entities)
    PROVE  /\ DOMAIN Reported(t) \subseteq DOMAIN note[t].entities
           /\ \A i \in DOMAIN Reported(t) :
                /\ Reported(t)[i].type = note[t].entities[i].type
                /\ \A s \in Slots : Reported(t)[i][s] \in Attributes
           /\ \A i \in DOMAIN note[t].entities :
                /\ Brings(note[t].entities[i])
                     => i \in DOMAIN Reported(t) /\ Reported(t)[i].attr = Sent(t, i)
                /\ Locatable(note[t].entities[i])
                     => i \in DOMAIN Reported(t) /\ Reported(t)[i].location = GeoJson
<1>1. DOMAIN payload[t] = DOMAIN note[t].entities
  BY NoteTypes, LenProperties DEF ReadInv
<1>2. \A i \in DOMAIN payload[t] :
        note[t].entities[i] \in Entities /\ Taken(note[t].entities[i], payload[t][i])
  BY <1>1, NoteTypes DEF ReadInv
<1>3. /\ DOMAIN Reported(t) = {i \in DOMAIN payload[t] : ~IsEmpty(payload[t][i])}
      /\ \A i \in DOMAIN Reported(t) : Reported(t)[i] = Entry(payload[t][i])
  BY DEF Reported
<1>4. ASSUME NEW i \in DOMAIN payload[t]
      PROVE  /\ Entry(payload[t][i]).type = note[t].entities[i].type
             /\ \A s \in Slots : Entry(payload[t][i])[s] \in Attributes
             /\ Brings(note[t].entities[i])
                  => ~IsEmpty(payload[t][i]) /\ Entry(payload[t][i]).attr = Sent(t, i)
             /\ Locatable(note[t].entities[i])
                  => ~IsEmpty(payload[t][i]) /\ Entry(payload[t][i]).location = GeoJson
  <2> DEFINE e == note[t].entities[i]
             p == payload[t][i]
  <2>1. e \in Entities /\ Taken(e, p)
    BY <1>2
  <2> HIDE DEF e, p
  <2>2. /\ p \in Entities /\ p.type = e.type
        /\ Brings(e) => ~IsEmpty(p) /\ Entry(p).attr = Attribute(e)
        /\ Locatable(e) => ~IsEmpty(p) /\ Entry(p).location = GeoJson
    BY <2>1, TakenEntity
  <2>3. Entry(p).type = p.type /\ \A s \in Slots : Entry(p)[s] \in Attributes
    BY <2>2, EntryTypes
  <2> QED
    BY <2>2, <2>3 DEF Sent, e, p
<1> QED
  BY <1>1, <1>3, <1>4

(* A notification that is accepted has its entries for payload and         *)
(* stored nothing yet.                                                     *)
LEMMA AcceptStep ==
    ASSUME NEW t \in Tasks, InputInv, TaskInv(t), status[t] = "new", note' = note,
           Len(payload[t]) = Len(note[t].entities), payload'[t] = Reported(t), copies'[t] = copies[t],
           todo'[t] = todo[t], group'[t] = group[t], left'[t] = left[t],
           \/ /\ status'[t] = "running" /\ stage'[t] = "begin" /\ runs'[t] = runs[t] + 1
              /\ answer'[t] = answer[t]
           \/ /\ status'[t] = "queued" /\ stage'[t] = stage[t] /\ runs'[t] = runs[t]
              /\ answer'[t] = "200" /\ here'[t] = here[t] /\ ~here[t]
    PROVE  TaskInv(t)'
<1>1. /\ stage[t] = "none" /\ group[t] = {} /\ todo[t] = {} /\ left[t] = {}
      /\ Stored(t) = {} /\ runs[t] = 0 /\ answer[t] = "none"
  BY DEF TaskInv, RunInv, GroupInv, StoredInv, Accepted
<1>2. ReadInv(t)' /\ CauseInv(t)'
  BY DEF ReadInv, CauseInv
<1>3. EntryInv(t)'
  BY ReportedTypes DEF TaskInv, EntryInv, Accepted, Due, Sent
<1>4. RunInv(t)'
  BY <1>1, RetriesAssumption DEF TaskInv, RunInv
<1>5. GroupInv(t)'
  BY <1>1 DEF GroupInv
<1>6. CopyInv(t)'
  BY <1>1 DEF TaskInv, CopyInv
<1>7. StoredInv(t)'
  BY <1>1, SameStore DEF StoredInv, Accepted
<1> QED
  BY <1>2, <1>3, <1>4, <1>5, <1>6, <1>7 DEF TaskInv

(* The end of notify accepts the notification or refuses it. *)
LEMMA NotifyStep ==
    ASSUME IInv, NEW t \in Tasks, Notify(t)
    PROVE  /\ FunctionInv' /\ InputInv' /\ TaskInv(t)'
           /\ \A u \in Tasks \ {t} : OtherTask(u) /\ OtherStore(u)
           /\ conf' = conf /\ note' = note /\ UNCHANGED store
<1>1. /\ status[t] = "new" /\ conf' = conf /\ note' = note /\ geocache' = geocache
      /\ UNCHANGED store /\ copies' = copies
      /\ TaskInv(t) /\ FunctionInv /\ InputInv
      /\ Len(payload[t]) = Len(note[t].entities)
  BY DEF IInv, Notify, store
<1>2. InputInv'
  BY <1>1 DEF InputInv
<1>4. struck' = struck \/ Strike(t)
  BY DEF Notify
<1>5. /\ struck' \in [Tasks -> BOOLEAN]
      /\ \A u \in Tasks \ {t} : OtherStore(u)
  BY <1>1, <1>4 DEF FunctionInv, OtherStore, Strike
<1>6. CASE RunHere(t)
  <2>1. TaskFunctions' /\ \A u \in Tasks \ {t} : OtherTask(u)
    BY <1>1, <1>6 DEF FunctionInv, RunHere, TaskFunctions, OtherTask, Statuses, Stages
  <2>2. TaskInv(t)'
    BY <1>1, <1>6, AcceptStep DEF FunctionInv, RunHere
  <2> QED
    BY <1>1, <1>2, <1>5, <2>1, <2>2 DEF FunctionInv, TaskFunctions
<1>7. CASE Enqueue(t)
  <2>1. TaskFunctions' /\ \A u \in Tasks \ {t} : OtherTask(u)
    BY <1>1, <1>7 DEF FunctionInv, Enqueue, TaskFunctions, OtherTask, Statuses, Stages
  <2>2. ~here[t]
    BY <1>1 DEF TaskInv, RunInv
  <2>3. TaskInv(t)'
    BY <1>1, <1>7, <2>2, AcceptStep DEF FunctionInv, Enqueue
  <2> QED
    BY <1>1, <1>2, <1>5, <2>1, <2>3 DEF FunctionInv, TaskFunctions
<1>8. CASE Reject(t, "500")
  <2>1. TaskInv(t)' /\ TaskFunctions' /\ \A u \in Tasks \ {t} : OtherTask(u)
    BY <1>1, <1>8, RejectStep
  <2> QED
    BY <1>1, <1>2, <1>5, <2>1 DEF FunctionInv, TaskFunctions
<1> QED
  BY <1>6, <1>7, <1>8 DEF Notify

(* A worker takes a task from the queue, with no row of the new run        *)
(* stored.                                                                 *)
LEMMA WorkStep ==
    ASSUME IInv, NEW t \in Tasks, Work(t)
    PROVE  /\ FunctionInv' /\ InputInv' /\ TaskInv(t)'
           /\ \A u \in Tasks \ {t} : OtherTask(u) /\ OtherStore(u)
           /\ conf' = conf /\ note' = note /\ UNCHANGED store
<1>1. /\ status[t] = "queued" /\ status'[t] = "running" /\ stage'[t] = "begin"
      /\ runs'[t] = runs[t] + 1
      /\ here' = here /\ payload' = payload /\ todo' = todo /\ group' = group
      /\ left' = left /\ answer' = answer /\ struck' = struck
      /\ conf' = conf /\ note' = note /\ geocache' = geocache
      /\ UNCHANGED store /\ copies' = copies
      /\ TaskInv(t) /\ FunctionInv /\ InputInv
  BY DEF IInv, FunctionInv, Work, store
<1>2. FunctionInv' /\ \A u \in Tasks \ {t} : OtherTask(u) /\ OtherStore(u)
  BY <1>1 DEF Work, FunctionInv, OtherTask, OtherStore, Statuses, Stages
<1>3. InputInv'
  BY <1>1 DEF InputInv
<1>4. /\ \A i : GroupOf(t, i)' = GroupOf(t, i)
      /\ HeaderFits(t)' <=> HeaderFits(t)
      /\ Stored(t)' = Stored(t)
  BY <1>1, SamePayload, SameStore
<1>5. /\ stage[t] = "none" /\ group[t] = {} /\ todo[t] = {} /\ left[t] = {}
  BY <1>1 DEF TaskInv, RunInv, GroupInv
<1>6. ReadInv(t)' /\ EntryInv(t)' /\ RunInv(t)' /\ CauseInv(t)' /\ GroupInv(t)'
  BY <1>1, <1>5, SameEntries, RetriesAssumption
     DEF TaskInv, ReadInv, RunInv, CauseInv, GroupInv, Accepted
<1>7. CopyInv(t)'
  <2>1. \A i \in DOMAIN copies[t] : copies[t][i].full \in Nat /\ copies[t][i].raw \in Nat
    BY <1>1 DEF TaskInv, CopyInv
  <2> QED
    BY <1>1, <1>5, <2>1 DEF TaskInv, RunInv, CopyInv
<1>8. StoredInv(t)'
  BY <1>1, <1>4, <1>5 DEF TaskInv, StoredInv, Accepted
<1> QED
  BY <1>1, <1>2, <1>3, <1>6, <1>7, <1>8 DEF TaskInv

-----------------------------------------------------------------------------
(* The insert action. *)

(* A step that stores no row. *)
LEMMA NothingCounted ==
    ASSUME NEW t \in Tasks, CopyInv(t), copies'[t] = copies[t]
    PROVE  Counted(t, {}, {})
<1>1. copies[t] \in [DOMAIN note[t].entities -> [full : Nat, raw : Nat]]
  BY DEF CopyInv
<1>2. \A i \in DOMAIN copies[t] :
        copies[t][i] = [full |-> copies[t][i].full + (IF i \in {} THEN 1 ELSE 0),
                        raw |-> copies[t][i].raw + (IF i \in {} THEN 1 ELSE 0)]
  <2> TAKE i \in DOMAIN copies[t]
  <2>1. copies[t][i] \in [full : Nat, raw : Nat]
    BY <1>1
  <2> QED
    BY <2>1
<1> QED
  BY <1>1, <1>2 DEF Counted

(* A run that fails is tried again or has its cause. *)
LEMMA FailStep ==
    ASSUME IInv, NEW t \in Tasks, status[t] = "running", note' = note, conf' = conf,
           NEW kind \in {"transient", "header", "permanent"}, Fail(t, kind),
           NEW full \in SUBSET left[t], NEW raw \in SUBSET group[t],
           raw # {} => stage[t] = "raw", Counted(t, full, raw),
           kind = "transient" => struck'[t],
           kind = "header" => ~HeaderFits(t), kind = "permanent" => Blamed(t)
    PROVE  TaskInv(t)' /\ TaskFunctions' /\ \A u \in Tasks \ {t} : OtherTask(u)
<1>1. TaskInv(t) /\ FunctionInv
  BY DEF IInv
<1> DEFINE s == IF kind = "transient" /\ CanRetry(t) THEN "queued" ELSE "failed"
           code == IF kind = "header" /\ ~conf.offload THEN "400" ELSE "500"
<1>2. Leave(t, s, code)
  BY DEF Fail
<1>3. s \in Statuses /\ code \in {"none", "200", "400", "500"}
  BY DEF Statuses
<1>4. /\ s \in {"queued", "failed"} /\ (s = "queued" => CanRetry(t))
      /\ code = "400" => ~HeaderFits(t)
      /\ s = "failed" => struck'[t] \/ ~HeaderFits(t) \/ Blamed(t)
  OBVIOUS
<1>5. runs[t] \in Nat
  BY <1>1 DEF TaskInv, RunInv
<1> HIDE DEF s, code
<1>6. Halted(t, s, code) /\ TaskFunctions' /\ \A u \in Tasks \ {t} : OtherTask(u)
  BY <1>1, <1>2, <1>3, LeaveEffect
<1>7. TaskInv(t)'
  BY <1>1, <1>4, <1>5, <1>6, HaltStep
<1> QED
  BY <1>6, <1>7

(* A fault strikes one task. *)
LEMMA StrikeEffect ==
    ASSUME FunctionInv, NEW t \in Tasks, Strike(t)
    PROVE  struck' \in [Tasks -> BOOLEAN] /\ struck'[t]
           /\ \A u \in Tasks \ {t} : struck'[u] = struck[u]
BY DEF FunctionInv, Strike

(* What is shown of each step of a run.                                    *)
RunKeeps(t) ==
    /\ FunctionInv' /\ InputInv' /\ TaskInv(t)'
    /\ \A u \in Tasks \ {t} : OtherTask(u) /\ OtherStore(u)
    /\ conf' = conf /\ note' = note

(* A run that loses its connection before it stores rows. *)
LEMMA LoseConnectionStep ==
    ASSUME IInv, NEW t \in Tasks, status[t] = "running", LoseConnection(t)
    PROVE  RunKeeps(t)
<1>1. /\ Fail(t, "transient") /\ Strike(t) /\ UNCHANGED <<conf, note, geocache, store>>
      /\ copies' = copies /\ TaskInv(t) /\ FunctionInv /\ InputInv
  BY DEF LoseConnection, store, IInv
<1>2. Counted(t, {}, {})
  BY <1>1, NothingCounted DEF TaskInv
<1>3. TaskInv(t)' /\ TaskFunctions' /\ \A u \in Tasks \ {t} : OtherTask(u)
  BY <1>1, <1>2, FailStep, StrikeEffect
<1> QED
  BY <1>1, <1>3, StrikeEffect
     DEF RunKeeps, FunctionInv, TaskFunctions, InputInv, OtherStore

(* The death of a worker ends the run where it is. *)
LEMMA CrashStep ==
    ASSUME IInv, NEW t \in Tasks, Crash(t)
    PROVE  RunKeeps(t)
<1> DEFINE s == IF CanRetry(t) THEN "queued" ELSE "failed"
<1>1. /\ Leave(t, s, "none") /\ Strike(t) /\ UNCHANGED <<conf, note, geocache, store>>
      /\ status[t] = "running" /\ copies' = copies /\ TaskInv(t) /\ FunctionInv /\ InputInv
  BY DEF Crash, store, IInv
<1>2. /\ s \in {"queued", "failed"} /\ s \in Statuses /\ (s = "queued" => CanRetry(t))
  BY DEF Statuses
<1>3. Counted(t, {}, {}) /\ runs[t] \in Nat
  BY <1>1, NothingCounted DEF TaskInv, RunInv
<1> HIDE DEF s
<1>4. Halted(t, s, "none") /\ TaskFunctions' /\ \A u \in Tasks \ {t} : OtherTask(u)
  BY <1>1, <1>2, LeaveEffect
<1>5. struck'[t]
  BY <1>1, StrikeEffect
<1>6. TaskInv(t)'
  BY <1>1, <1>2, <1>3, <1>4, <1>5, HaltStep
<1> QED
  BY <1>1, <1>4, <1>6, StrikeEffect
     DEF RunKeeps, FunctionInv, TaskFunctions, InputInv, OtherStore

(* The places of a payload are finitely many numbers. *)
LEMMA PayloadPlaces ==
    ASSUME InputInv, NEW t \in Tasks, TaskInv(t), Accepted(t)
    PROVE  DOMAIN payload[t] \subseteq Nat /\ IsFiniteSet(DOMAIN payload[t])
<1>1. DOMAIN payload[t] \subseteq 1..Len(note[t].entities) /\ Len(note[t].entities) \in Nat
  BY NoteTypes DEF TaskInv, EntryInv
<1>2. IsFiniteSet(1..Len(note[t].entities))
  BY <1>1, FS_Interval
<1>3. IsFiniteSet(DOMAIN payload[t])
  BY <1>1, <1>2, FS_Subset
<1> QED
  BY <1>1, <1>3

(* A run begins with the first group, or refuses the header. *)
LEMMA BeginStep ==
    ASSUME IInv, NEW t \in Tasks, Begin(t)
    PROVE  RunKeeps(t)
<1>1. /\ status[t] = "running" /\ stage[t] = "begin"
      /\ TaskInv(t) /\ FunctionInv /\ InputInv
  BY DEF Begin, Running, IInv
<1>2. CASE LoseConnection(t)
  BY <1>1, <1>2, LoseConnectionStep
<1>3. ASSUME UNCHANGED <<conf, note, geocache, store, struck>>,
             TaskInv(t)' /\ TaskFunctions' /\ \A u \in Tasks \ {t} : OtherTask(u)
      PROVE  RunKeeps(t)
  BY <1>1, <1>3 DEF RunKeeps, FunctionInv, TaskFunctions, InputInv, OtherStore, store
<1>4. ASSUME UNCHANGED <<conf, note, geocache, store, struck>>
      PROVE  /\ copies' = copies /\ note' = note /\ struck' = struck
             /\ Counted(t, {}, {}) /\ runs[t] \in Nat
  BY <1>1, <1>4, NothingCounted DEF store, TaskInv, RunInv
<1>5. CASE /\ ~HeaderFits(t) /\ Fail(t, "header")
           /\ UNCHANGED <<conf, note, geocache, store, struck>>
  <2>1. TaskInv(t)' /\ TaskFunctions' /\ \A u \in Tasks \ {t} : OtherTask(u)
    BY <1>1, <1>4, <1>5, FailStep
  <2> QED
    BY <1>3, <1>5, <2>1
<1>6. CASE /\ HeaderFits(t) /\ Enter(t, DOMAIN payload[t])
           /\ UNCHANGED <<conf, note, geocache, store, struck>>
  <2> DEFINE others == DOMAIN payload[t]
  <2>1. /\ IF others = {} THEN Halted(t, "finished", "200") ELSE Entered(t, others)
        /\ TaskFunctions' /\ \A u \in Tasks \ {t} : OtherTask(u)
    BY <1>1, <1>6, EnterEffect
  <2>2. others \subseteq Nat
    BY <1>1, PayloadPlaces DEF Accepted
  <2>3. \A i \in others : GroupOf(t, i) \subseteq others
    BY GroupIsClass
  <2>4. TaskInv(t)'
    BY <1>1, <1>4, <1>6, <2>1, <2>2, <2>3, NextGroupStep
  <2> QED
    BY <1>3, <1>6, <2>1, <2>4
<1> QED
  BY <1>2, <1>5, <1>6 DEF Begin

(* The translators raise only on simple locations, numbers out of range    *)
(* and, on Timescale, what is recorded as GeoJSON and is none.             *)
LEMMA RaisingValues ==
    ASSUME NEW backend \in {"crate", "timescale"}, NEW type, NEW a \in Attributes,
           DbValue(backend, type, a) = "raises"
    PROVE  \/ a.declared \in SlfTypes /\ ~SlfParses(a)
           \/ a.value \in {"huge", "hugenumeral", "infinite"}
           \/ backend = "timescale" /\ type \in GeoJsonTypes /\ a.value # "geojson"
<1>1. a.value \in Kinds
  BY DEF Attributes
<1>2. a.value # "raises"
  BY <1>1 DEF Kinds, Strings, Numbers, Ints, Fractions, Booleans, Dicts
<1>3. CASE a.declared \in SlfTypes
  <2>1. SlfToDb(backend, a) = "raises"
    BY <1>3 DEF DbValue, SlfTypes
  <2> QED
    BY <1>3, <2>1 DEF SlfToDb
<1>4. CASE a.declared \notin SlfTypes /\ type \in GeoJsonTypes
  <2>1. GeoJsonToDb(backend, a.value) = "raises"
    BY <1>4 DEF DbValue
  <2> QED
    BY <1>2, <1>4, <2>1 DEF GeoJsonToDb, DefaultToDb
<1>5. CASE a.declared \notin SlfTypes /\ type \notin GeoJsonTypes
  <2>1. \A v : v # "raises" => /\ TextToDb(v) # "raises" /\ DateToDb(v) # "raises"
                               /\ ArrayToDb(v) # "raises" /\ StructuredToDb(v) # "raises"
                               /\ DefaultToDb(v) # "raises" /\ LdDateToDb(v) # "raises"
                               /\ BooleanToDb(v) # "raises" /\ RelationshipToDb(v) # "raises"
    BY DEF TextToDb, DateToDb, ArrayToDb, StructuredToDb, DefaultToDb, LdDateToDb,
       BooleanToDb, RelationshipToDb
  <2>2. \A v : v # "raises" /\ v \notin {"huge", "hugenumeral", "infinite"}
                 => NumberToDb(v) # "raises" /\ IntegerToDb(v) # "raises"
    BY DEF NumberToDb, IntegerToDb
  <2> QED
    BY <1>2, <1>5, <2>1, <2>2 DEF DbValue
<1> QED
  BY <1>3, <1>4, <1>5

(* Only what is declared as GeoJSON is recorded as GeoJSON. *)
LEMMA GeoJsonDeclared ==
    ASSUME NEW r, AttrType(r) \in GeoJsonTypes
    PROVE  r.declared \in GeoJsonTypes
BY DEF AttrType, GeoJsonTypes

(* An attribute of the group has one recorded for its column, and what is  *)
(* recorded is an attribute of the group.                                  *)
LEMMA RecordedInGroup ==
    ASSUME IInv, NEW t \in Tasks, Accepted(t), NEW c
    PROVE  /\ \A r \in Recorded(t, c) :
                IsOf(r, c) /\ \E j \in group[t], q \in Slots : r = payload[t][j][q]
           /\ \A i \in group[t], s \in Slots :
                IsOf(payload[t][i][s], c) => Recorded(t, c) # {}
<1> DEFINE from == {i \in group[t] : \E s \in Slots : IsOf(payload[t][i][s], c)}
           last == {i \in from : \A j \in from : j <= i}
<1>1. Recorded(t, c) = {a \in {payload[t][i][s] : i \in last, s \in Slots} : IsOf(a, c)}
  BY DEF Recorded
<1>2. \A r \in Recorded(t, c) :
        IsOf(r, c) /\ \E j \in group[t], q \in Slots : r = payload[t][j][q]
  BY <1>1
<1>3. ASSUME NEW i \in group[t], NEW s \in Slots, IsOf(payload[t][i][s], c)
      PROVE  Recorded(t, c) # {}
  <2>1. /\ group[t] \subseteq 1..Len(note[t].entities)
        /\ Len(note[t].entities) \in Nat
    BY NoteTypes DEF IInv, TaskInv, GroupInv, EntryInv
  <2>2. from \subseteq 1..Len(note[t].entities) /\ i \in from
    BY <1>3, <2>1
  <2>3. PICK j \in from : \A k \in from : k <= j
    <3> HIDE DEF from
    <3> QED
      BY <2>1, <2>2, GreatestNumber
  <2>4. j \in last
    BY <2>3
  <2>5. PICK q \in Slots : IsOf(payload[t][j][q], c)
    BY <2>3
  <2> QED
    BY <1>1, <2>4, <2>5
<1> QED
  BY <1>2, <1>3

(* What a row gets for an attribute is the value that the database has for *)
(* it under the type that was recorded, or nothing.                        *)
LEMMA RowValueIs ==
    ASSUME IInv, NEW t \in Tasks, Accepted(t), NEW i \in group[t], NEW s \in Slots,
           payload[t][i][s].name # "none"
    PROVE  \E j \in group[t], q \in Slots :
              LET a == payload[t][i][s]
                  r == payload[t][j][q]
              IN  /\ IsOf(r, Column[a.name])
                  /\ RowValue(t, i, s) = IF r.name = a.name
                                         THEN DbValue(conf.backend, AttrType(r), a)
                                         ELSE "null"
<1> DEFINE a == payload[t][i][s]
           value(r) == IF r.name = a.name THEN DbValue(conf.backend, AttrType(r), a)
                                          ELSE "null"
           c == Column[a.name]
           values == {value(r) : r \in Recorded(t, c)}
<1>1. RowValue(t, i, s) = CHOOSE v \in values : TRUE
  BY DEF RowValue
<1>2. IsOf(a, c)
  BY DEF IsOf
<1>3. Recorded(t, c) # {}
  <2> HIDE DEF c
  <2> QED
    BY <1>2, RecordedInGroup
<1>4. values # {}
  <2>1. PICK r \in Recorded(t, c) : TRUE
    BY <1>3
  <2>2. value(r) \in values
    OBVIOUS
  <2> QED
    BY <2>2
<1>5. RowValue(t, i, s) \in values
  <2> HIDE DEF values
  <2> QED
    BY <1>1, <1>4
<1>6. PICK r \in Recorded(t, c) : RowValue(t, i, s) = value(r)
  BY <1>5
<1>7. IsOf(r, c) /\ \E j \in group[t], q \in Slots : r = payload[t][j][q]
  <2> HIDE DEF c
  <2> QED
    BY RecordedInGroup
<1> QED
  BY <1>6, <1>7

(* What an entity of the group brings is among what its task brings. *)
LEMMA BroughtByGroup ==
    ASSUME IInv, NEW t \in Tasks, Accepted(t), NEW i \in group[t], NEW s \in Slots,
           payload[t][i][s].name # "none"
    PROVE  payload[t][i][s] \in Brought(t) /\ payload[t][i][s] \in Attributes
<1>1. i \in Due(t) /\ payload[t][i][s] \in Attributes
  BY DEF IInv, TaskInv, GroupInv, EntryInv, Due
<1>2. payload[t][i][s] \in {payload[t][j][q] : j \in Due(t), q \in Slots}
  BY <1>1
<1> QED
  BY <1>1, <1>2 DEF Brought

(* A row that cannot be built has something to blame. *)
LEMMA RaisingRow ==
    ASSUME IInv, NEW t \in Tasks, Accepted(t), NEW i \in group[t], NEW s \in Slots,
           RowValue(t, i, s) = "raises"
    PROVE  Blamed(t)
<1> DEFINE a == payload[t][i][s]
<1>1. a.name # "none"
  BY DEF RowValue
<1>2. PICK j \in group[t], q \in Slots :
        /\ IsOf(payload[t][j][q], Column[a.name])
        /\ RowValue(t, i, s) = IF payload[t][j][q].name = a.name
                               THEN DbValue(conf.backend, AttrType(payload[t][j][q]), a)
                               ELSE "null"
  BY <1>1, RowValueIs
<1> DEFINE r == payload[t][j][q]
<1>3. r.name = a.name /\ DbValue(conf.backend, AttrType(r), a) = "raises"
  BY <1>2
<1>4. a \in Brought(t) /\ a \in Attributes
  BY <1>1, BroughtByGroup
<1>5. r \in Brought(t)
  BY <1>1, <1>3, BroughtByGroup
<1>6. conf.backend \in {"crate", "timescale"}
  BY DEF IInv, InputInv, Deployment
<1> HIDE DEF a, r
<1>7. \/ a.declared \in SlfTypes /\ ~SlfParses(a)
      \/ a.value \in {"huge", "hugenumeral", "infinite"}
      \/ conf.backend = "timescale" /\ r.declared \in GeoJsonTypes /\ a.value # "geojson"
  BY <1>3, <1>4, <1>6, RaisingValues, GeoJsonDeclared
<1> QED
  BY <1>3, <1>4, <1>5, <1>7 DEF Blamed, Unparsable, OutOfRange, Shapeless

(* Preparing a group stores no row and changes one table. *)
LEMMA PrepareStep ==
    ASSUME IInv, NEW t \in Tasks, Prepare(t)
    PROVE  /\ RunKeeps(t) /\ rows' = rows
           /\ columns' \in {columns,
                    [columns EXCEPT ![Table(t)] = ExtendedTable(t, columns[Table(t)])]}
<1>1. /\ status[t] = "running" /\ stage[t] = "prepare"
      /\ TaskInv(t) /\ FunctionInv /\ InputInv
  BY DEF Prepare, Running, IInv
<1>2. CASE LoseConnection(t)
  BY <1>1, <1>2, LoseConnectionStep DEF LoseConnection, store
<1> DEFINE bad == \E i \in group[t], s \in Slots : RowValue(t, i, s) = "raises"
           goOn == /\ stage' = [stage EXCEPT ![t] = "insert"]
                   /\ left' = [left EXCEPT ![t] = group[t]]
                   /\ UNCHANGED <<status, here, runs, payload, todo, group, answer>>
<1>3. CASE /\ columns' = [columns EXCEPT ![Table(t)] = ExtendedTable(t, columns[Table(t)])]
           /\ IF bad THEN Fail(t, "permanent") ELSE goOn
           /\ UNCHANGED <<conf, note, geocache, rows, copies, struck>>
  <2>1. Counted(t, {}, {}) /\ runs[t] \in Nat /\ copies' = copies /\ note' = note
    BY <1>1, <1>3, NothingCounted DEF TaskInv, RunInv
  <2>2. ASSUME TaskInv(t)' /\ TaskFunctions' /\ \A u \in Tasks \ {t} : OtherTask(u)
        PROVE  RunKeeps(t) /\ rows' = rows
    BY <1>1, <1>3, <2>2 DEF RunKeeps, FunctionInv, TaskFunctions, InputInv, OtherStore
  <2>3. ASSUME NEW i \in group[t], NEW s \in Slots, RowValue(t, i, s) = "raises",
               Fail(t, "permanent")
        PROVE  RunKeeps(t) /\ rows' = rows
    <3>1. Blamed(t) /\ conf' = conf
      BY <1>1, <1>3, <2>3, RaisingRow DEF Accepted
    <3>2. TaskInv(t)' /\ TaskFunctions' /\ \A u \in Tasks \ {t} : OtherTask(u)
      BY <1>1, <2>1, <2>3, <3>1, FailStep
    <3> QED
      BY <2>2, <3>2
  <2>4. ASSUME goOn
        PROVE  RunKeeps(t) /\ rows' = rows
    <3>1. /\ Advanced(t, "insert", group[t]) /\ TaskFunctions'
          /\ \A u \in Tasks \ {t} : OtherTask(u)
      BY <1>1, <2>4 DEF FunctionInv, Advanced, OtherTask, TaskFunctions, Stages
    <3>2. TaskInv(t)'
      BY <1>1, <2>1, <3>1, SameGroupStep
    <3> QED
      BY <2>2, <3>1, <3>2
  <2>5. RunKeeps(t) /\ rows' = rows
    <3>1. CASE bad
      <4>1. Fail(t, "permanent")
        <5> HIDE DEF bad, goOn
        <5> QED
          BY <1>3, <3>1
      <4> QED
        BY <2>3, <3>1, <4>1
    <3>2. CASE ~bad
      <4>1. goOn
        <5> HIDE DEF bad, goOn
        <5> QED
          BY <1>3, <3>2
      <4> HIDE DEF goOn
      <4> QED
        BY <2>4, <4>1
    <3> QED
      BY <3>1, <3>2
  <2> QED
    BY <1>3, <2>5
<1>4. CASE /\ NamesReserved(t) /\ Fail(t, "permanent")
           /\ UNCHANGED <<conf, note, geocache, store, struck>>
  <2>1. PICK i \in group[t] : payload[t][i].attr.name = Reserved
    BY <1>4 DEF NamesReserved
  <2>2. Accepted(t) /\ "attr" \in Slots /\ payload[t][i]["attr"].name # "none"
    BY <1>1, <2>1 DEF Accepted, Slots, Reserved
  <2>3. payload[t][i]["attr"] \in Brought(t)
    BY <2>2, BroughtByGroup
  <2>4. Blamed(t)
    BY <2>1, <2>3 DEF Blamed, UsesReserved
  <2>5. Counted(t, {}, {}) /\ copies' = copies /\ note' = note /\ conf' = conf
        /\ rows' = rows /\ columns' = columns /\ struck' = struck /\ geocache' = geocache
    BY <1>1, <1>4, NothingCounted DEF TaskInv, store
  <2>6. TaskInv(t)' /\ TaskFunctions' /\ \A u \in Tasks \ {t} : OtherTask(u)
    BY <1>1, <1>4, <2>4, <2>5, FailStep
  <2> QED
    BY <1>1, <2>5, <2>6 DEF RunKeeps, FunctionInv, TaskFunctions, InputInv, OtherStore
<1> QED
  BY <1>2, <1>3, <1>4 DEF Prepare

(* The rows of a batch that are inserted. *)
LEMMA InsertedFrom ==
    ASSUME InputInv, NEW t \in Tasks, NEW batch
    PROVE  /\ Inserted(t, batch) \subseteq batch
           /\ (\A i \in batch : RowFits(t, i)) => Inserted(t, batch) = batch
<1>1. conf.backend \in {"crate", "timescale"}
  BY DEF InputInv, Deployment
<1>2. \A i : RowFits(t, i) => ~Unsendable(t, i)
  BY DEF RowFits
<1> QED
  BY <1>1, <1>2 DEF Inserted, Before

(* Full rows are stored and counted. *)
LEMMA StoreFullEffect ==
    ASSUME IInv, NEW t \in Tasks, NEW S, StoreFull(t, S)
    PROVE  /\ DOMAIN copies' = Tasks /\ \A u \in Tasks \ {t} : copies'[u] = copies[u]
           /\ Counted(t, S, {})
           /\ rows' = rows \cup {FullRow(t, i) : i \in S} /\ columns' = columns
<1> DEFINE new == {FullRow(t, i) : i \in S}
<1>1. StoreRows(t, S, new, "full") /\ FunctionInv /\ CopyInv(t)
  BY DEF StoreFull, IInv, TaskInv
<1> HIDE DEF new
<1>2. /\ DOMAIN copies' = Tasks /\ \A u \in Tasks \ {t} : copies'[u] = copies[u]
      /\ Counted(t, S, {})
      /\ rows' = rows \cup new /\ columns' = columns
  BY <1>1, StoreEffect
<1> QED
  BY <1>2 DEF new

(* Raw rows are stored and counted. *)
LEMMA StoreRawEffect ==
    ASSUME IInv, NEW t \in Tasks, NEW S, StoreRaw(t, S)
    PROVE  /\ DOMAIN copies' = Tasks /\ \A u \in Tasks \ {t} : copies'[u] = copies[u]
           /\ Counted(t, {}, S)
           /\ rows' = rows \cup {RawRow(t, i) : i \in S} /\ columns' = columns
<1> DEFINE new == {RawRow(t, i) : i \in S}
<1>1. StoreRows(t, S, new, "raw") /\ FunctionInv /\ CopyInv(t)
  BY DEF StoreRaw, IInv, TaskInv
<1> HIDE DEF new
<1>2. /\ DOMAIN copies' = Tasks /\ \A u \in Tasks \ {t} : copies'[u] = copies[u]
      /\ Counted(t, {}, S)
      /\ rows' = rows \cup new /\ columns' = columns
  BY <1>1, StoreEffect
<1> QED
  BY <1>2 DEF new

(* A batch, whether it goes in or breaks, adds full rows of the group. *)
LEMMA InsertRowsStep ==
    ASSUME IInv, NEW t \in Tasks, InsertRows(t)
    PROVE  /\ RunKeeps(t) /\ columns' = columns
           /\ \E S \in SUBSET group[t] : rows' = rows \cup {FullRow(t, i) : i \in S}
<1>1. /\ status[t] = "running" /\ stage[t] = "insert" /\ Accepted(t)
      /\ TaskInv(t) /\ FunctionInv /\ InputInv
      /\ conf' = conf /\ note' = note /\ geocache' = geocache
  BY DEF InsertRows, Running, IInv, Accepted
<1>2. PICK cut \in left[t] :
        LET batch == UpTo(cut, left[t]) IN
        \/ InsertBatch(t, batch, left[t] \ batch)
        \/ \E kind \in FaultKinds : BreakBatch(t, batch, kind)
  BY DEF InsertRows
<1> DEFINE batch == UpTo(cut, left[t])
           rest == left[t] \ batch
<1>3. /\ batch \subseteq left[t] /\ left[t] \subseteq group[t]
      /\ group[t] \subseteq DOMAIN payload[t] /\ DOMAIN payload[t] \subseteq Nat
      /\ group[t] # {} /\ runs[t] \in Nat
      /\ \A i \in batch, j \in rest : i < j
  <2>1. /\ batch \subseteq left[t] /\ left[t] \subseteq group[t]
        /\ group[t] \subseteq DOMAIN payload[t] /\ group[t] # {} /\ runs[t] \in Nat
    BY <1>1 DEF TaskInv, RunInv, GroupInv, UpTo
  <2>2. DOMAIN payload[t] \subseteq Nat
    BY <1>1, PayloadPlaces
  <2> QED
    BY <2>1, <2>2 DEF UpTo
<1>4. ASSUME NEW S \in SUBSET left[t], StoreFull(t, S),
             struck' = struck \/ Strike(t),
             TaskInv(t)' /\ TaskFunctions' /\ \A u \in Tasks \ {t} : OtherTask(u)
      PROVE  /\ RunKeeps(t) /\ columns' = columns
             /\ \E R \in SUBSET group[t] : rows' = rows \cup {FullRow(t, i) : i \in R}
  <2>1. /\ DOMAIN copies' = Tasks /\ \A u \in Tasks \ {t} : copies'[u] = copies[u]
        /\ rows' = rows \cup {FullRow(t, i) : i \in S} /\ columns' = columns
    BY <1>4, StoreFullEffect
  <2>2. struck' \in [Tasks -> BOOLEAN] /\ \A u \in Tasks \ {t} : struck'[u] = struck[u]
    BY <1>1, <1>4, StrikeEffect DEF FunctionInv
  <2>3. RunKeeps(t)
    BY <1>1, <1>4, <2>1, <2>2 DEF RunKeeps, FunctionInv, TaskFunctions, InputInv, OtherStore
  <2> QED
    BY <1>3, <2>1, <2>3
<1> HIDE DEF batch
<1>5. CASE InsertBatch(t, batch, rest)
  <2> DEFINE S == Inserted(t, batch)
  <2>1. /\ StoreFull(t, S) /\ S \in SUBSET left[t] /\ Counted(t, S, {})
        /\ struck' = struck
        /\ (\A i \in batch : RowFits(t, i)) => S = batch
    BY <1>1, <1>3, <1>5, InsertedFrom, StoreFullEffect DEF InsertBatch
  <2> HIDE DEF S
  <2>2. CASE \E i \in batch : ~RowFits(t, i)
    <3>1. ToRaw(t)
      BY <1>5, <2>2 DEF InsertBatch
    <3>2. /\ Advanced(t, "raw", {}) /\ TaskFunctions'
          /\ \A u \in Tasks \ {t} : OtherTask(u)
      BY <1>1, <3>1, ToRawEffect
    <3>3. TaskInv(t)'
      BY <1>1, <1>3, <2>1, <3>2, SameGroupStep
    <3> QED
      BY <1>4, <2>1, <3>2, <3>3
  <2>3. CASE (\A i \in batch : RowFits(t, i)) /\ rest = {}
    <3>1. Enter(t, todo[t]) /\ S = left[t]
      BY <1>3, <1>5, <2>1, <2>3 DEF InsertBatch
    <3>2. /\ IF todo[t] = {} THEN Halted(t, "finished", "200") ELSE Entered(t, todo[t])
          /\ TaskFunctions' /\ \A u \in Tasks \ {t} : OtherTask(u)
      BY <1>1, <3>1, EnterEffect
    <3>3. /\ todo[t] \in SUBSET DOMAIN payload[t] /\ HeaderFits(t)
          /\ \A i \in todo[t] : GroupOf(t, i) \subseteq todo[t]
          /\ DOMAIN payload[t] \ todo[t] \subseteq Stored(t) \cup S \cup {}
      BY <1>1, <1>3, <3>1 DEF TaskInv, GroupInv, StoredInv
    <3>4. struck'[t] = struck[t] /\ {} \in SUBSET group[t]
      BY <2>1
    <3>5. TaskInv(t)'
      BY <1>1, <1>3, <2>1, <3>2, <3>3, <3>4, NextGroupStep
    <3> QED
      BY <1>4, <2>1, <3>2, <3>5
  <2>4. CASE (\A i \in batch : RowFits(t, i)) /\ rest # {}
    <3>1. /\ left' = [left EXCEPT ![t] = rest] /\ S = batch
          /\ UNCHANGED <<status, stage, here, runs, payload, todo, group, answer>>
      BY <1>5, <2>1, <2>4 DEF InsertBatch
    <3>2. /\ Advanced(t, "insert", rest) /\ TaskFunctions'
          /\ \A u \in Tasks \ {t} : OtherTask(u)
      BY <1>1, <3>1 DEF FunctionInv, Advanced, OtherTask, TaskFunctions
    <3>3. rest = left[t] \ S /\ \A i \in S, j \in rest : i < j
      BY <1>3, <3>1
    <3>4. TaskInv(t)'
      BY <1>1, <1>3, <2>1, <2>4, <3>2, <3>3, SameGroupStep
    <3> QED
      BY <1>4, <2>1, <3>2, <3>4
  <2> QED
    BY <2>2, <2>3, <2>4
<1>6. ASSUME NEW kind \in FaultKinds, BreakBatch(t, batch, kind)
      PROVE  /\ RunKeeps(t) /\ columns' = columns
             /\ \E R \in SUBSET group[t] : rows' = rows \cup {FullRow(t, i) : i \in R}
  <2>1. PICK last \in {0} \cup batch : StoreFull(t, UpTo(last, Inserted(t, batch)))
    BY <1>6 DEF BreakBatch
  <2> DEFINE S == UpTo(last, Inserted(t, batch))
  <2>2. /\ StoreFull(t, S) /\ S \in SUBSET left[t] /\ Counted(t, S, {}) /\ Strike(t)
        /\ struck'[t]
    BY <1>1, <1>3, <1>6, <2>1, InsertedFrom, StoreFullEffect, StrikeEffect DEF BreakBatch, UpTo
  <2> HIDE DEF S
  <2>3. CASE ShouldInsertRaw(kind)
    <3>1. ToRaw(t)
      BY <1>6, <2>3 DEF BreakBatch
    <3>2. /\ Advanced(t, "raw", {}) /\ TaskFunctions'
          /\ \A u \in Tasks \ {t} : OtherTask(u)
      BY <1>1, <3>1, ToRawEffect
    <3>3. TaskInv(t)'
      BY <1>1, <1>3, <2>2, <3>2, SameGroupStep
    <3> QED
      BY <1>4, <2>2, <3>2, <3>3
  <2>4. CASE ~ShouldInsertRaw(kind)
    <3>1. Fail(t, "transient") /\ {} \in SUBSET group[t]
      BY <1>6, <2>4 DEF BreakBatch
    <3>2. TaskInv(t)' /\ TaskFunctions' /\ \A u \in Tasks \ {t} : OtherTask(u)
      BY <1>1, <2>2, <3>1, FailStep
    <3> QED
      BY <1>4, <2>2, <3>2
  <2> QED
    BY <2>3, <2>4
<1> QED
  BY <1>2, <1>5, <1>6 DEF batch

(* The raw fallback adds raw rows of the group. *)
LEMMA InsertRawStep ==
    ASSUME IInv, NEW t \in Tasks, InsertRaw(t)
    PROVE  /\ RunKeeps(t) /\ columns' = columns
           /\ \E S \in SUBSET group[t] : rows' = rows \cup {RawRow(t, i) : i \in S}
<1>1. /\ status[t] = "running" /\ stage[t] = "raw" /\ Accepted(t)
      /\ TaskInv(t) /\ FunctionInv /\ InputInv
      /\ conf' = conf /\ note' = note /\ geocache' = geocache
  BY DEF InsertRaw, Running, IInv, Accepted
<1>2. /\ group[t] \subseteq DOMAIN payload[t] /\ DOMAIN payload[t] \subseteq Nat
      /\ group[t] # {} /\ runs[t] \in Nat /\ {} \in SUBSET left[t]
  BY <1>1, PayloadPlaces DEF TaskInv, RunInv, GroupInv
<1>3. ASSUME NEW S \in SUBSET group[t], StoreRaw(t, S),
             struck' = struck \/ Strike(t),
             TaskInv(t)' /\ TaskFunctions' /\ \A u \in Tasks \ {t} : OtherTask(u)
      PROVE  /\ RunKeeps(t) /\ columns' = columns
             /\ \E R \in SUBSET group[t] : rows' = rows \cup {RawRow(t, i) : i \in R}
  <2>1. /\ DOMAIN copies' = Tasks /\ \A u \in Tasks \ {t} : copies'[u] = copies[u]
        /\ rows' = rows \cup {RawRow(t, i) : i \in S} /\ columns' = columns
    BY <1>3, StoreRawEffect
  <2>2. struck' \in [Tasks -> BOOLEAN] /\ \A u \in Tasks \ {t} : struck'[u] = struck[u]
    BY <1>1, <1>3, StrikeEffect DEF FunctionInv
  <2>3. RunKeeps(t)
    BY <1>1, <1>3, <2>1, <2>2 DEF RunKeeps, FunctionInv, TaskFunctions, InputInv, OtherStore
  <2> QED
    BY <2>1, <2>3
<1> DEFINE written == Before(Unwritable(t), group[t])
<1>4. CASE StoreRaw(t, group[t]) /\ Enter(t, todo[t]) /\ UNCHANGED struck
  <2>1. /\ IF todo[t] = {} THEN Halted(t, "finished", "200") ELSE Entered(t, todo[t])
        /\ TaskFunctions' /\ \A u \in Tasks \ {t} : OtherTask(u)
    BY <1>1, <1>4, EnterEffect
  <2>2. Counted(t, {}, group[t]) /\ struck'[t] = struck[t] /\ group[t] \in SUBSET group[t]
    BY <1>4, StoreRawEffect
  <2>3. /\ todo[t] \in SUBSET DOMAIN payload[t] /\ HeaderFits(t)
        /\ \A i \in todo[t] : GroupOf(t, i) \subseteq todo[t]
        /\ DOMAIN payload[t] \ todo[t] \subseteq Stored(t) \cup {} \cup group[t]
    BY <1>1, <1>2 DEF TaskInv, GroupInv, StoredInv
  <2>4. TaskInv(t)'
    BY <1>1, <1>2, <2>1, <2>2, <2>3, NextGroupStep
  <2> QED
    BY <1>3, <1>4, <2>1, <2>2, <2>4
<1>5. ASSUME NEW last \in {0} \cup group[t], StoreRaw(t, UpTo(last, written)),
             Fail(t, "transient"), Strike(t)
      PROVE  /\ RunKeeps(t) /\ columns' = columns
             /\ \E R \in SUBSET group[t] : rows' = rows \cup {RawRow(t, i) : i \in R}
  <2> DEFINE S == UpTo(last, written)
  <2>1. S \in SUBSET group[t] /\ StoreRaw(t, S) /\ struck'[t]
    BY <1>1, <1>5, StrikeEffect DEF UpTo, Before
  <2> HIDE DEF S
  <2>2. Counted(t, {}, S)
    BY <2>1, StoreRawEffect
  <2>3. TaskInv(t)' /\ TaskFunctions' /\ \A u \in Tasks \ {t} : OtherTask(u)
    BY <1>1, <1>2, <1>5, <2>1, <2>2, FailStep
  <2> QED
    BY <1>3, <1>5, <2>1, <2>3
<1>6. CASE /\ Unwritable(t) # {} /\ StoreRaw(t, written)
           /\ Fail(t, "permanent") /\ UNCHANGED struck
  <2>1. written \in SUBSET group[t]
    BY DEF Before
  <2> HIDE DEF written
  <2>2. Counted(t, {}, written)
    BY <1>6, StoreRawEffect
  <2>3. PICK i \in group[t], s \in Slots :
            payload[t][i][s].name # "none" /\ payload[t][i][s].value = "infinite"
    BY <1>6 DEF Unwritable
  <2>4. payload[t][i][s] \in Brought(t)
    BY <1>1, <2>3, BroughtByGroup
  <2>5. Blamed(t)
    BY <2>3, <2>4 DEF Blamed, OutOfRange
  <2>6. TaskInv(t)' /\ TaskFunctions' /\ \A u \in Tasks \ {t} : OtherTask(u)
    BY <1>1, <1>2, <1>6, <2>1, <2>2, <2>5, FailStep
  <2> QED
    BY <1>3, <1>6, <2>1, <2>6
<1> QED
  BY <1>4, <1>5, <1>6 DEF InsertRaw
-----------------------------------------------------------------------------
(* The rows and the tables. *)

(* The columns a table gets have one of the types. *)
LEMMA ColumnStep ==
    ASSUME ColumnInv, NEW t \in Tasks,
           columns' \in {columns,
                [columns EXCEPT ![Table(t)] = ExtendedTable(t, columns[Table(t)])]}
    PROVE  ColumnInv'
<1>1. \A type : NgsiToSql(type) \in ColumnTypes \/ \A b : type \notin SupportedTypes(b)
  BY DEF NgsiToSql, ColumnTypes, SupportedTypes, SlfTypes, GeoJsonTypes, DateTypes
<1>2. \A b, type, a : ColumnType(b, type, a) \in ColumnTypes
  <2> TAKE b, type, a
  <2>1. CASE type \in SupportedTypes(b)
    BY <1>1, <2>1 DEF ColumnType, ColumnTypes
  <2>2. CASE type \notin SupportedTypes(b)
    BY <2>2 DEF ColumnType, ColumnTypes
  <2> QED
    BY <2>1, <2>2
<1>3. ASSUME NEW c \in Columns, Recorded(t, c) # {}
      PROVE  CreatedType(t, c) \in ColumnTypes
  <2> DEFINE types == {ColumnType(conf.backend, AttrType(a), a) : a \in Recorded(t, c)}
  <2>1. types # {} /\ types \subseteq ColumnTypes
    BY <1>2, <1>3
  <2>2. CreatedType(t, c) = CHOOSE k \in types : TRUE
    BY DEF CreatedType
  <2> HIDE DEF types
  <2> QED
    BY <2>1, <2>2
<1>4. CASE Table(t) \in EntityTypes
  <2> DEFINE old == columns[Table(t)]
  <2>1. old \in [Columns -> ColumnTypes]
    BY <1>4 DEF ColumnInv
  <2> HIDE DEF old
  <2>2. ExtendedTable(t, old) \in [Columns -> ColumnTypes]
    BY <1>3, <2>1 DEF ExtendedTable
  <2> QED
    BY <2>2 DEF ColumnInv, old
<1>5. CASE Table(t) \notin EntityTypes
  BY <1>5 DEF ColumnInv
<1> QED
  BY <1>4, <1>5

(* A row of the group at work is the one its notification makes.           *)
LEMMA RowsOfGroup ==
    ASSUME IInv, NEW t \in Tasks, Accepted(t), NEW i \in group[t]
    PROVE  /\ FullRow(t, i) = RowOf(t, i, runs[t])
           /\ Table(t) = payload[t][i].type
           /\ i \in DOMAIN payload[t] /\ HeaderFits(t)
<1>1. /\ InputInv /\ TaskInv(t) /\ group[t] \subseteq DOMAIN payload[t]
      /\ GroupOf(t, i) = group[t] /\ HeaderFits(t)
  BY DEF IInv, TaskInv, GroupInv
<1>2. Min(group[t]) \in group[t]
  BY <1>1, PayloadPlaces, LeastNumber
<1>3. /\ PathOf(t, Min(group[t])) = PathOf(t, i)
      /\ payload[t][Min(group[t])].type = payload[t][i].type
  BY <1>1, <1>2, GroupIsClass
<1>4. \A s : RowValue(t, i, s) = ValueIn(t, i, s)
  BY <1>1 DEF RowValue, ValueIn, Recorded, RecordedIn
<1> QED
  BY <1>1, <1>3, <1>4 DEF FullRow, RowOf, Table, Path

(* What a row should be stays as long as the payload stays.                *)
LEMMA SameRow ==
    ASSUME NEW t, payload'[t] = payload[t], note' = note, conf' = conf
    PROVE  \A i, n : RowOf(t, i, n)' = RowOf(t, i, n)
<1>1. /\ \A i : PathOf(t, i)' = PathOf(t, i)
      /\ \A i : GroupOf(t, i)' = GroupOf(t, i)
  BY SamePayload
<1>2. \A i, c : RecordedIn(t, i, c)' = RecordedIn(t, i, c)
  BY <1>1 DEF RecordedIn
<1>3. ASSUME NEW i, NEW s
      PROVE  ValueIn(t, i, s)' = ValueIn(t, i, s)
  <2> DEFINE a == payload[t][i][s]
             recorded == RecordedIn(t, i, Column[a.name])
             value(r) == IF r.name = a.name THEN DbValue(conf.backend, AttrType(r), a)
                                            ELSE "null"
             values == {value(r) : r \in recorded}
  <2>1. a' = a
    OBVIOUS
  <2>2. recorded' = recorded
    BY <1>2, <2>1
  <2>3. values' = values
    BY <2>1, <2>2
  <2>4. ValueIn(t, i, s) = IF a.name = "none" THEN "null" ELSE CHOOSE v \in values : TRUE
    BY DEF ValueIn
  <2>5. ValueIn(t, i, s)' = IF a'.name = "none" THEN "null"
                                                ELSE CHOOSE v \in values' : TRUE
    BY DEF ValueIn
  <2> HIDE DEF values, a
  <2> QED
    BY <2>1, <2>3, <2>4, <2>5
<1> QED
  BY <1>1, <1>3 DEF RowOf

(* Rows stay what their notifications make as long as those stay.          *)
LEMMA RowsKept ==
    ASSUME RowsInv, conf' = conf, note' = note,
           \A u \in Tasks : Accepted(u) => Accepted(u)' /\ payload'[u] = payload[u],
           NEW r \in rows
    PROVE  RowInv(r)'
<1>1. RowInv(r)
  BY DEF RowsInv
<1> DEFINE t == r.task
<1>2. t \in Tasks /\ Accepted(t)' /\ payload'[t] = payload[t]
  BY <1>1 DEF RowInv
<1> HIDE DEF t
<1>3. /\ HeaderFits(t)' <=> HeaderFits(t)
      /\ \A i, n : RowOf(t, i, n)' = RowOf(t, i, n)
  BY <1>2, SamePayload, SameRow
<1> QED
  BY <1>1, <1>2, <1>3 DEF RowInv, t

(* Rows that are added for the group at work are as RowInv says. *)
LEMMA RowsStep ==
    ASSUME IInv, conf' = conf, note' = note, NEW t \in Tasks, Accepted(t),
           \A u \in Tasks : Accepted(u) => Accepted(u)' /\ payload'[u] = payload[u],
           NEW S \in SUBSET group[t],
           \/ rows' = rows \cup {FullRow(t, i) : i \in S}
           \/ rows' = rows \cup {RawRow(t, i) : i \in S}
    PROVE  RowsInv'
<1>1. \A r \in rows : RowInv(r)'
  BY RowsKept DEF IInv
<1>2. /\ HeaderFits(t)' <=> HeaderFits(t)
      /\ \A i, n : RowOf(t, i, n)' = RowOf(t, i, n)
  BY SamePayload, SameRow
<1>3. Accepted(t)' /\ payload'[t] = payload[t]
  OBVIOUS
<1>4. ASSUME NEW i \in S, NEW x, x = FullRow(t, i) \/ x = RawRow(t, i)
      PROVE  RowInv(x)'
  <2>1. /\ FullRow(t, i) = RowOf(t, i, runs[t]) /\ Table(t) = payload[t][i].type
        /\ i \in DOMAIN payload[t] /\ HeaderFits(t)
    BY RowsOfGroup
  <2>2. /\ x.task = t /\ x.ent = i /\ x.table = Table(t)
        /\ x.form = "full" => x = FullRow(t, i) /\ x.instance = runs[t]
    BY <1>4 DEF FullRow, RawRow
  <2> QED
    BY <1>2, <1>3, <2>1, <2>2 DEF RowInv
<1>5. \A r \in rows' : RowInv(r)'
  <2>1. \A r \in rows' : \/ r \in rows
                        \/ \E i \in S : r = FullRow(t, i) \/ r = RawRow(t, i)
    OBVIOUS
  <2> QED
    BY <1>1, <1>4, <2>1
<1> QED
  BY <1>5 DEF RowsInv
-----------------------------------------------------------------------------
(* The invariant. *)

(* The invariant holds at first. *)
LEMMA InitialStep == Init => IInv
<1> SUFFICES ASSUME Init
             PROVE  IInv
  OBVIOUS
<1>1. PICK s \in Scenarios :
        /\ conf = s.conf
        /\ note \in {n \in [Tasks -> (UNION {s.notes[t] : t \in Tasks})] :
                        \A t \in Tasks : n[t] \in s.notes[t]}
  BY DEF Init
<1>2. /\ note \in [Tasks -> Notifications] /\ conf \in Deployment
      /\ \A t \in Tasks : note[t] \in s.notes[t]
  BY <1>1, ScenariosAssumption
<1>3. \A t \in Tasks : DOMAIN note[t].entities \subseteq Places
  BY <1>2 DEF Places
<1>4. InputInv
  <2>1. NoLocation \in Positions
    BY DEF Positions
  <2> QED
    BY <1>2, <1>3, <2>1 DEF InputInv, Init
<1>5. FunctionInv
  BY DEF FunctionInv, Init, Statuses, Stages
<1>6. ColumnInv
  BY DEF ColumnInv, Init, ColumnTypes
<1>7. RowsInv
  BY DEF RowsInv, Init
<1>8. ASSUME NEW t \in Tasks
      PROVE  TaskInv(t)
  <2>1. /\ status[t] = "new" /\ stage[t] = "none" /\ ~here[t] /\ runs[t] = 0
        /\ payload[t] = <<>> /\ todo[t] = {} /\ group[t] = {} /\ left[t] = {}
        /\ answer[t] = "none"
        /\ copies[t] = [e \in DOMAIN note[t].entities |-> [full |-> 0, raw |-> 0]]
    BY DEF Init
  <2>2. ReadInv(t)
    BY <1>4, <2>1, NoteTypes DEF ReadInv
  <2>3. EntryInv(t) /\ RunInv(t) /\ CauseInv(t)
    BY <2>1, RetriesAssumption DEF EntryInv, RunInv, CauseInv, Accepted
  <2>4. GroupInv(t) /\ CopyInv(t)
    BY <2>1 DEF GroupInv, CopyInv
  <2>5. StoredInv(t)
    BY <2>1 DEF StoredInv, Stored, Accepted
  <2> QED
    BY <2>2, <2>3, <2>4, <2>5 DEF TaskInv
<1> QED
  BY <1>4, <1>5, <1>6, <1>7, <1>8 DEF IInv

(* A run never touches the payload, and its task stays accepted.           *)
LEMMA RunEffect ==
    ASSUME IInv, NEW t \in Tasks, Run(t) \/ Crash(t)
    PROVE  /\ status[t] = "running" /\ payload' = payload
           /\ status'[t] \in {"running", "queued", "finished", "failed"}
           /\ \/ copies' = copies
              \/ \E S : StoreFull(t, S) \/ StoreRaw(t, S)
<1>1. FunctionInv
  BY DEF IInv
<1>2. \A s, code : s \in {"queued", "failed", "finished"} /\ Leave(t, s, code)
        => /\ payload' = payload
           /\ status'[t] \in {"queued", "finished", "failed"}
  BY <1>1 DEF Leave, FunctionInv
<1>3. \A kind : Fail(t, kind) => /\ payload' = payload
                                 /\ status'[t] \in {"queued", "finished", "failed"}
  BY <1>2 DEF Fail
<1>4. \A others : Enter(t, others)
        => payload' = payload /\ status'[t] \in {status[t], "finished"}
  <2> TAKE others
  <2>1. CASE others = {}
    <3>1. Leave(t, "finished", "200") => payload' = payload /\ status'[t] = "finished"
      BY <1>1 DEF Leave, FunctionInv
    <3> QED
      BY <2>1, <3>1 DEF Enter
  <2>2. CASE others # {}
    BY <2>2 DEF Enter
  <2> QED
    BY <2>1, <2>2
<1>5. ToRaw(t) => payload' = payload /\ status'[t] = status[t]
  BY DEF ToRaw
<1>6. CASE Crash(t)
  BY <1>2, <1>6 DEF Crash, store
<1>7. LoseConnection(t) => /\ payload' = payload /\ copies' = copies
                           /\ status'[t] \in {"queued", "finished", "failed"}
  BY <1>3 DEF LoseConnection, store
<1>8. CASE Begin(t)
  BY <1>3, <1>4, <1>7, <1>8 DEF Begin, Running, store
<1>9. CASE Prepare(t)
  BY <1>3, <1>7, <1>9 DEF Prepare, Running, store
<1>10. CASE InsertRows(t)
  <2>1. PICK cut \in left[t] :
            LET batch == UpTo(cut, left[t]) IN
            \/ InsertBatch(t, batch, left[t] \ batch)
            \/ \E kind \in FaultKinds : BreakBatch(t, batch, kind)
    BY <1>10 DEF InsertRows
  <2> DEFINE batch == UpTo(cut, left[t])
  <2>2. status[t] = "running"
    BY <1>10 DEF InsertRows, Running
  <2> HIDE DEF batch
  <2>3. CASE InsertBatch(t, batch, left[t] \ batch)
    BY <1>4, <1>5, <2>2, <2>3 DEF InsertBatch
  <2>4. ASSUME NEW kind, BreakBatch(t, batch, kind)
        PROVE  /\ payload' = payload /\ \E S : StoreFull(t, S)
               /\ status'[t] \in {"running", "queued", "finished", "failed"}
    BY <1>3, <1>5, <2>2, <2>4 DEF BreakBatch
  <2> QED
    BY <2>1, <2>2, <2>3, <2>4 DEF batch
<1>11. CASE InsertRaw(t)
  BY <1>3, <1>4, <1>11 DEF InsertRaw, Running
<1> QED
  BY <1>6, <1>8, <1>9, <1>10, <1>11 DEF Run

(* A step of one task, with what it does to the task, keeps the invariant. *)
LEMMA TaskStep ==
    ASSUME IInv, NEW t \in Tasks,
           Read(t) \/ Notify(t) \/ Work(t) \/ Run(t) \/ Crash(t)
    PROVE  /\ IInv'
           /\ \A u \in Tasks \ {t} : OtherTask(u) /\ OtherStore(u)
           /\ note' = note
<1>1. RowsInv /\ ColumnInv /\ FunctionInv /\ (\A u \in Tasks : TaskInv(u))
  BY DEF IInv
<1>2. CASE Read(t) \/ Notify(t) \/ Work(t)
  <2>1. /\ FunctionInv' /\ InputInv' /\ TaskInv(t)'
        /\ \A u \in Tasks \ {t} : OtherTask(u) /\ OtherStore(u)
        /\ conf' = conf /\ note' = note /\ rows' = rows /\ columns' = columns
    BY <1>2, ReadStep, NotifyStep, WorkStep DEF store
  <2>2. Accepted(t) => Accepted(t)' /\ payload'[t] = payload[t]
    BY <1>1, <1>2 DEF Accepted, Read, Notify, Work, FunctionInv
  <2>3. \A u \in Tasks : Accepted(u) => Accepted(u)' /\ payload'[u] = payload[u]
    BY <2>1, <2>2 DEF OtherTask, Accepted
  <2>4. RowsInv'
    BY <1>1, <2>1, <2>3, RowsKept DEF RowsInv
  <2>5. \A u \in Tasks \ {t} : TaskInv(u)'
    BY <1>1, <2>1, OthersKept
  <2> QED
    BY <1>1, <2>1, <2>4, <2>5 DEF IInv, ColumnInv
<1>3. CASE Run(t) \/ Crash(t)
  <2>1. /\ RunKeeps(t)
        /\ columns' \in {columns,
                [columns EXCEPT ![Table(t)] = ExtendedTable(t, columns[Table(t)])]}
        /\ \/ rows' = rows
           \/ \E S \in SUBSET group[t] : rows' = rows \cup {FullRow(t, i) : i \in S}
           \/ \E S \in SUBSET group[t] : rows' = rows \cup {RawRow(t, i) : i \in S}
    <3>1. CASE Begin(t)
      <4>1. rows' = rows /\ columns' = columns
        BY <3>1 DEF Begin, LoseConnection, store
      <4> QED
        BY <3>1, <4>1, BeginStep
    <3>2. CASE Crash(t)
      <4>1. rows' = rows /\ columns' = columns
        BY <3>2 DEF Crash, store
      <4> QED
        BY <3>2, <4>1, CrashStep
    <3>3. CASE Prepare(t)
      BY <3>3, PrepareStep
    <3>4. CASE InsertRows(t)
      BY <3>4, InsertRowsStep
    <3>5. CASE InsertRaw(t)
      BY <3>5, InsertRawStep
    <3> QED
      BY <1>3, <3>1, <3>2, <3>3, <3>4, <3>5 DEF Run
  <2>2. /\ FunctionInv' /\ InputInv' /\ TaskInv(t)'
        /\ \A u \in Tasks \ {t} : OtherTask(u) /\ OtherStore(u)
        /\ conf' = conf /\ note' = note
    BY <2>1 DEF RunKeeps
  <2>3. Accepted(t) /\ \A u \in Tasks : Accepted(u) => Accepted(u)' /\ payload'[u] = payload[u]
    BY <1>3, <2>2, RunEffect DEF OtherTask, Accepted
  <2>4. RowsInv'
    <3>1. CASE rows' = rows
      BY <1>1, <2>2, <2>3, <3>1, RowsKept DEF RowsInv
    <3> QED
      BY <2>1, <2>2, <2>3, <3>1, RowsStep
  <2>5. ColumnInv'
    BY <1>1, <2>1, ColumnStep
  <2>6. \A u \in Tasks \ {t} : TaskInv(u)'
    BY <1>1, <2>2, OthersKept
  <2> QED
    BY <2>2, <2>4, <2>5, <2>6 DEF IInv
<1> QED
  BY <1>2, <1>3

(* The invariant of the insert pipeline. *)
LEMMA DeliveryInvariant == Spec => []IInv
<1>1. Init => IInv
  BY InitialStep
<1>2. IInv /\ [Next]_vars => IInv'
  <2> SUFFICES ASSUME IInv, [Next]_vars
               PROVE  IInv'
    OBVIOUS
  <2>1. CASE Next
    BY <2>1, TaskStep DEF Next
  <2>2. CASE UNCHANGED vars
    <3>1. /\ conf' = conf /\ note' = note /\ geocache' = geocache /\ status' = status
          /\ stage' = stage /\ here' = here /\ runs' = runs /\ payload' = payload
          /\ todo' = todo /\ group' = group /\ left' = left /\ answer' = answer
          /\ columns' = columns /\ rows' = rows /\ copies' = copies /\ struck' = struck
      BY <2>2 DEF vars, task, store
    <3>2. FunctionInv' /\ ColumnInv' /\ InputInv'
      BY <3>1 DEF IInv, FunctionInv, ColumnInv, InputInv
    <3>3. \A t \in Tasks : TaskInv(t)'
      BY <3>1, OthersKept DEF IInv, OtherTask, OtherStore
    <3>4. RowsInv'
      <4>1. \A u \in Tasks : Accepted(u) => Accepted(u)' /\ payload'[u] = payload[u]
        BY <3>1 DEF Accepted
      <4> QED
        BY <3>1, <4>1, RowsKept DEF IInv, RowsInv
    <3> QED
      BY <3>2, <3>3, <3>4 DEF IInv
  <2> QED
    BY <2>1, <2>2
<1> QED
  BY <1>1, <1>2, PTL DEF Spec
-----------------------------------------------------------------------------
(* What the invariant says of rows. *)

(* The rank of an entity that no other was dropped before is its place.    *)
LEMMA RankOfPlace ==
    ASSUME NEW n \in Nat, NEW i \in 1..n
    PROVE  Cardinality({j \in 1..n : j <= i}) = i
<1>1. {j \in 1..n : j <= i} = 1..i
  OBVIOUS
<1>2. Cardinality(1..i) = i
  BY FS_Interval
<1> QED
  BY <1>1, <1>2

(* When an entity has a path of its own, that is the one it is stored under.*)
LEMMA OwnPath ==
    ASSUME InputInv, NEW t \in Tasks, TaskInv(t), Accepted(t), HeaderFits(t),
           Len(note[t].paths) = Len(note[t].entities), NEW i \in DOMAIN payload[t]
    PROVE  PathOf(t, i) = note[t].paths[i]
<1> DEFINE n == Len(note[t].entities)
           places == DOMAIN payload[t]
<1>1. n \in Nat /\ places \subseteq 1..n
  BY NoteTypes DEF TaskInv, EntryInv
<1>2. CASE n = 1
  <2>1. i = 1
    BY <1>1, <1>2
  <2> QED
    BY <1>2, <2>1 DEF PathOf
<1>3. CASE n # 1
  <2>1. Cardinality(places) = n
    BY <1>3 DEF HeaderFits
  <2>2. IsFiniteSet(1..n) /\ Cardinality(1..n) = n
    <3> HIDE DEF n
    <3> QED
      BY <1>1, FS_Interval
  <2>3. places = 1..n
    BY <1>1, <2>1, <2>2, FS_Subset
  <2>4. Cardinality({j \in places : j <= i}) = i
    BY <1>1, <2>3, RankOfPlace
  <2> QED
    BY <1>3, <2>4 DEF PathOf
<1> QED
  BY <1>2, <1>3

(* A value that fits its type is converted to something. *)
LEMMA ConformingIsConverted ==
    ASSUME NEW backend \in {"crate", "timescale"}, NEW a \in Attributes, Conforms(a)
    PROVE  DbValue(backend, AttrType(a), a) # "null"
<1>1. a.value \in Kinds
  BY DEF Attributes
<1>2. CASE a.declared = "geo:point"
  BY <1>2 DEF Conforms, DbValue, SlfToDb, SlfParses, SlfTypes, GeoJsonTypes, DateTypes
<1>3. CASE a.declared \in GeoJsonTypes
  BY <1>3 DEF Conforms, DbValue, AttrType, GeoJsonToDb, SlfTypes, GeoJsonTypes, DateTypes
<1>4. CASE a.declared \in {"Number", "Integer", "Boolean", "Text", "DateTime", "ISO8601",
                           "Array", "StructuredValue", "Relationship"}
  <2>1. AttrType(a) = a.declared
    BY <1>4 DEF AttrType
  <2>2. CASE a.declared \in {"Number", "Integer"}
    BY <2>1, <2>2 DEF Conforms, DbValue, NumberToDb, IntegerToDb, Numbers, Ints, Fractions,
       SlfTypes, GeoJsonTypes, DateTypes
  <2>3. CASE a.declared \in {"Boolean", "Text", "DateTime", "ISO8601"}
    BY <2>1, <2>3 DEF Conforms, DbValue, BooleanToDb, TextToDb, DateToDb, Booleans, Strings,
       SlfTypes, GeoJsonTypes, DateTypes
  <2>4. CASE a.declared \in {"Array", "StructuredValue", "Relationship"}
    BY <2>1, <2>4 DEF Conforms, DbValue, ArrayToDb, StructuredToDb, RelationshipToDb, Dicts,
       Falsy, SlfTypes, GeoJsonTypes, DateTypes
  <2> QED
    BY <1>4, <2>2, <2>3, <2>4
<1>5. CASE a.declared \in {"Property", "none"}
  <2>1. a.value \in Kinds \ {"null", "object"}
    BY <1>1, <1>5 DEF Conforms, DateTypes, GeoJsonTypes
  <2> DEFINE v == a.value
             type == AttrType(a)
  <2>2. a.declared \notin SlfTypes
    BY <1>5 DEF SlfTypes
  <2>3. CASE v = "lddate" /\ a.declared = "Property"
    BY <2>2, <2>3 DEF AttrType, DbValue, LdDateToDb, GeoJsonTypes
  <2>4. CASE ~(v = "lddate" /\ a.declared = "Property")
    <3>1. type = CASE v = "list" -> "Array"
                   [] v \in Dicts -> "StructuredValue"
                   [] v \in Booleans -> "Boolean"
                   [] v \in Ints -> "Integer"
                   [] v \in Fractions -> "Number"
                   [] v = "date" -> "DateTime"
                   [] OTHER -> "Text"
      BY <1>5, <2>4 DEF AttrType
    <3>2. \/ v = "list" /\ type = "Array"
          \/ v \in Dicts /\ type = "StructuredValue"
          \/ v \in Booleans /\ type = "Boolean"
          \/ v \in Ints /\ type = "Integer"
          \/ v \in Fractions /\ type = "Number"
          \/ v = "date" /\ type = "DateTime"
          \/ v \in Strings /\ type = "Text"
      <4> HIDE DEF type
      <4> QED
        BY <2>1, <3>1 DEF Kinds, Strings, Numbers, Booleans, Dicts
    <3> HIDE DEF type
    <3>3. DbValue(backend, type, a) # "null"
      BY <2>2, <2>4, <3>2 DEF DbValue, ArrayToDb, StructuredToDb, BooleanToDb, IntegerToDb,
         NumberToDb, DateToDb, TextToDb, Ints, Fractions, Dicts, Booleans, Strings,
         GeoJsonTypes, DateTypes
    <3> QED
      BY <3>3 DEF type
  <2> QED
    BY <2>3, <2>4
<1> QED
  BY <1>2, <1>3, <1>4, <1>5 DEF Conforms, DateTypes, GeoJsonTypes

(* A row has a value for an attribute that conforms and on whose name and  *)
(* type the entities agree.                                                *)
LEMMA ConformingInRow ==
    ASSUME IInv, NEW t \in Tasks, Accepted(t), NEW i \in DOMAIN payload[t],
           NEW s \in Slots, payload[t][i][s].name # "none", Conforms(payload[t][i][s]),
           Uniform(t, payload[t][i].type, payload[t][i][s])
    PROVE  ValueIn(t, i, s) # "null"
<1> DEFINE a == payload[t][i][s]
           c == Column[a.name]
           value(r) == IF r.name = a.name THEN DbValue(conf.backend, AttrType(r), a)
                                          ELSE "null"
           values == {value(r) : r \in RecordedIn(t, i, c)}
           from == {j \in GroupOf(t, i) : \E q \in Slots : IsOf(payload[t][j][q], c)}
           last == {j \in from : \A k \in from : k <= j}
<1>1. /\ InputInv /\ TaskInv(t) /\ a \in Attributes /\ conf.backend \in {"crate", "timescale"}
      /\ DOMAIN payload[t] \subseteq 1..Len(note[t].entities)
      /\ Len(note[t].entities) \in Nat
  BY NoteTypes DEF IInv, TaskInv, EntryInv, InputInv, Deployment
<1>2. i \in from /\ from \subseteq 1..Len(note[t].entities)
  BY <1>1, GroupIsClass DEF IsOf
<1>3. PICK j \in last : TRUE
  <2> HIDE DEF from
  <2> QED
    BY <1>1, <1>2, GreatestNumber
<1>4. PICK q \in Slots : IsOf(payload[t][j][q], c)
  OBVIOUS
<1>5. RecordedIn(t, i, c) = {b \in {payload[t][k][r] : k \in last, r \in Slots} : IsOf(b, c)}
  BY DEF RecordedIn
<1>6. RecordedIn(t, i, c) # {}
  <2> HIDE DEF last, c
  <2>1. payload[t][j][q] \in {payload[t][k][r] : k \in last, r \in Slots}
    BY <1>3, SMTT(30)
  <2> QED
    BY <1>4, <1>5, <2>1
<1>7. ASSUME NEW r \in RecordedIn(t, i, c)
      PROVE  r.name = a.name /\ AttrType(r) = AttrType(a)
  <2>1. PICK k \in GroupOf(t, i), p \in Slots : r = payload[t][k][p] /\ IsOf(r, c)
    BY <1>5
  <2>2. k \in Due(t) /\ payload[t][k].type = payload[t][i].type
    BY <2>1, GroupIsClass DEF Due
  <2> QED
    BY <2>1, <2>2 DEF Uniform
<1>8. DbValue(conf.backend, AttrType(a), a) # "null"
  <2> HIDE DEF a
  <2> QED
    BY <1>1, ConformingIsConverted DEF a
<1>9. values # {} /\ "null" \notin values
  <2> HIDE DEF c
  <2> QED
    BY <1>6, <1>7, <1>8
<1>10. ValueIn(t, i, s) = CHOOSE v \in values : TRUE
  BY DEF ValueIn
<1> HIDE DEF values
<1> QED
  BY <1>9, <1>10

-----------------------------------------------------------------------------
(* Every variable has its type, and the variables of a run show its stage. *)
THEOREM TypeCorrect == Spec => []TypeOK
<1>1. IInv => TypeOK
  BY DEF IInv, FunctionInv, ColumnInv, TaskInv, RunInv, TypeOK
<1> QED
  BY <1>1, DeliveryInvariant, PTL

(* However often a task is retried and wherever a run of it is cut off, no *)
(* entity has more full rows or more raw rows than the task had runs.      *)
THEOREM CopiesAreWithinRuns == Spec => []CopiesWithinRuns
<1>1. IInv => CopiesWithinRuns
  BY DEF IInv, TaskInv, CopyInv, CopiesWithinRuns
<1> QED
  BY <1>1, DeliveryInvariant, PTL

(* Rows are stored in their type's table and, when the notification names a*)
(* path for each of its entities, under the path given for their entity.   *)
THEOREM RowsAreUnderOwnPath == Spec => []RowsUnderOwnPath
<1>1. ASSUME IInv, NEW r \in rows
      PROVE  /\ r.table = note[r.task].entities[r.ent].type
             /\ /\ r.form = "full"
                /\ Len(note[r.task].paths) = Len(note[r.task].entities)
                => r.path = note[r.task].paths[r.ent]
  <2>1. RowInv(r)
    BY <1>1 DEF IInv, RowsInv
  <2> DEFINE t == r.task
             i == r.ent
  <2>2. /\ t \in Tasks /\ Accepted(t) /\ HeaderFits(t) /\ i \in DOMAIN payload[t]
        /\ r.table = payload[t][i].type /\ (r.form = "full" => r = RowOf(t, i, r.instance))
    BY <2>1 DEF RowInv
  <2>3. InputInv /\ TaskInv(t)
    BY <1>1, <2>2 DEF IInv
  <2>4. r.table = note[t].entities[i].type
    BY <2>2, <2>3 DEF TaskInv, EntryInv
  <2>5. RowOf(t, i, r.instance).path = PathOf(t, i)
    BY DEF RowOf
  <2> HIDE DEF t, i
  <2>6. r.form = "full" /\ Len(note[t].paths) = Len(note[t].entities) => r.path = note[t].paths[i]
    BY <2>2, <2>3, <2>5, OwnPath
  <2> QED
    BY <2>4, <2>6 DEF t, i
<1>2. IInv => RowsUnderOwnPath
  BY <1>1 DEF RowsUnderOwnPath
<1> QED
  BY <1>2, DeliveryInvariant, PTL

(* A retry stores the row that an earlier run stored, but for the id of the*)
(* instance: values, place, path, table and time index are functions of the*)
(* payload and the deployment, whatever else was stored in between.        *)
THEOREM RetriesStoreTheSame == Spec => []RetriesStoreTheSameRow
<1>1. ASSUME IInv, NEW r \in rows, NEW q \in rows,
             r.task = q.task, r.ent = q.ent, r.form = "full", q.form = "full"
      PROVE  q = [r EXCEPT !.instance = q.instance]
  <2>1. /\ r = RowOf(r.task, r.ent, r.instance)
        /\ q = RowOf(r.task, r.ent, q.instance)
    BY <1>1 DEF IInv, RowsInv, RowInv
  <2>2. \A t, i, n, m : RowOf(t, i, m) = [RowOf(t, i, n) EXCEPT !.instance = m]
    BY DEF RowOf
  <2> QED
    BY <2>1, <2>2
<1>2. IInv => RetriesStoreTheSameRow
  BY <1>1 DEF RetriesStoreTheSameRow
<1> QED
  BY <1>2, DeliveryInvariant, PTL

(* A task fails only when a fault struck it, its header does not match, a  *)
(* simple location or (on Timescale) a GeoJSON value of its cannot be      *)
(* encoded, a number of its is out of range or an attribute has the        *)
(* reserved name.                                                          *)
THEOREM FailuresAreCaused == Spec => []FailuresHaveACause
<1>1. IInv => FailuresHaveACause
  BY DEF IInv, TaskInv, CauseInv, Blamed, FailuresHaveACause
<1> QED
  BY <1>1, DeliveryInvariant, PTL

(* A value that a notification brings, that fits its type and that the     *)
(* reporter does not filter out reaches its column when the entities of its*)
(* type agree on the name and the type of the attribute, and so does a     *)
(* location, be it brought or found.                                       *)
THEOREM ConformingValuesAreKept == Spec => []ConformingValueKept
<1>1. ASSUME IInv, NEW t \in Tasks, Accepted(t), NEW i \in Due(t), NEW s \in Slots,
             NEW a, a = payload[t][i][s], a.name # "none", Conforms(a),
             Uniform(t, note[t].entities[i].type, a)
      PROVE  /\ status[t] = "finished" => i \in Stored(t)
             /\ \A r \in FullRows(t, i) :
                    IF s = "attr" THEN r.value # "null" ELSE r.place # "null"
  <2>1. /\ status[t] = "finished" => i \in Stored(t)
        /\ payload[t][i].type = note[t].entities[i].type
    BY <1>1 DEF IInv, TaskInv, StoredInv, EntryInv, Due
  <2>2. ValueIn(t, i, s) # "null"
    BY <1>1, <2>1, ConformingInRow DEF Due
  <2>3. \A r \in FullRows(t, i) : r = RowOf(t, i, r.instance)
    BY <1>1 DEF FullRows, IInv, RowsInv, RowInv
  <2>4. \A n : /\ RowOf(t, i, n).value = ValueIn(t, i, "attr")
               /\ RowOf(t, i, n).place = ValueIn(t, i, "location")
    BY DEF RowOf
  <2>5. s \in {"attr", "location"}
    BY DEF Slots
  <2> QED
    BY <2>1, <2>2, <2>3, <2>4, <2>5
<1>2. ASSUME IInv, NEW t \in Tasks, Accepted(t), NEW i \in DOMAIN note[t].entities
      PROVE  LET e == note[t].entities[i]
                 done == status[t] = "finished" => i \in Stored(t)
             IN  /\ e.name # "none" /\ Conforms(Sent(t, i)) /\ ~FilteredOut(e)
                      /\ Uniform(t, e.type, Sent(t, i))
                    => done /\ \A r \in FullRows(t, i) : r.value # "null"
                 /\ \A l \in Told(t, i) : Uniform(t, e.type, l)
                    => done /\ \A r \in FullRows(t, i) : r.place # "null"
  <2> DEFINE e == note[t].entities[i]
             done == status[t] = "finished" => i \in Stored(t)
  <2>1. EntryInv(t)
    BY <1>2 DEF IInv, TaskInv
  <2>2. "attr" \in Slots /\ "location" \in Slots
    BY DEF Slots
  <2>3. ASSUME e.name # "none", Conforms(Sent(t, i)), ~FilteredOut(e),
               Uniform(t, e.type, Sent(t, i))
        PROVE  done /\ \A r \in FullRows(t, i) : r.value # "null"
    <3> DEFINE a == payload[t][i]["attr"]
    <3>1. i \in Due(t) /\ a = Sent(t, i)
      BY <1>2, <2>1, <2>3 DEF EntryInv, Brings, Sent
    <3>2. a.name # "none"
      BY <2>3, <3>1 DEF Sent, Attribute
    <3> HIDE DEF a
    <3>3. Conforms(a) /\ Uniform(t, e.type, a)
      BY <2>3, <3>1
    <3> QED
      BY <1>1, <1>2, <2>2, <3>1, <3>2, <3>3 DEF a
  <2>4. ASSUME NEW l \in Told(t, i), Uniform(t, e.type, l)
        PROVE  done /\ \A r \in FullRows(t, i) : r.place # "null"
    <3>1. i \in Due(t) /\ l = payload[t][i]["location"]
      BY <1>2, <2>1, <2>4 DEF Told, EntryInv, Locatable
    <3>2. l \in {GeoJson, GeoPoint}
      BY DEF Told
    <3>3. l.name # "none" /\ Conforms(l)
      BY <3>2 DEF GeoJson, GeoPoint, Location, Conforms, DateTypes, GeoJsonTypes
    <3> QED
      BY <1>1, <1>2, <2>2, <2>4, <3>1, <3>3
  <2> QED
    BY <2>3, <2>4
<1>3. IInv => ConformingValueKept
  BY <1>2 DEF ConformingValueKept, Accepted
<1> QED
  BY <1>3, DeliveryInvariant, PTL
-----------------------------------------------------------------------------
(* The refinement of Delivery. *)

(* A step of one task changes the abstract state of that task only.        *)
LEMMA OneTask ==
    ASSUME NEW t \in Tasks, note' = note,
           \A u \in Tasks \ {t} : OtherTask(u) /\ OtherStore(u)
    PROVE  /\ StateMap' = [StateMap EXCEPT ![t] = StateOf(t)']
           /\ DueMap' = [DueMap EXCEPT ![t] = DueOf(t)']
           /\ StoredMap' = [StoredMap EXCEPT ![t] = Stored(t)']
<1>1. \A u \in Tasks \ {t} : /\ StateOf(u)' = StateOf(u) /\ DueOf(u)' = DueOf(u)
                             /\ Stored(u)' = Stored(u)
  BY SameStore DEF OtherTask, OtherStore, StateOf, DueOf, Due
<1> QED
  BY <1>1 DEF StateMap, DueMap, StoredMap

(* The moves of Delivery, in the terms of the model. *)
LEMMA AbstractMove ==
    ASSUME NEW t \in Tasks, note' = note,
           \A u \in Tasks \ {t} : OtherTask(u) /\ OtherStore(u),
           \/ /\ StateOf(t)' = StateOf(t) /\ DueOf(t)' = DueOf(t) /\ Stored(t)' = Stored(t)
           \/ /\ StateOf(t) = "new" /\ StateOf(t)' = "pending"
              /\ DueOf(t)' \subseteq Places /\ Stored(t)' = Stored(t)
           \/ /\ StateOf(t) \in {"new", "pending"} /\ StateOf(t)' = "refused"
              /\ Stored(t) = {} /\ Stored(t)' = {} /\ DueOf(t)' = DueOf(t)
           \/ /\ StateOf(t) = "pending" /\ DueOf(t)' = DueOf(t)
              /\ Stored(t) \subseteq Stored(t)' /\ Stored(t)' \subseteq DueOf(t)
              /\ \/ StateOf(t)' \in {"pending", "lost"}
                 \/ StateOf(t)' = "done" /\ Stored(t)' = DueOf(t)
    PROVE  [Abstract!DeliveryNext]_(Abstract!deliveryVars)
<1> DEFINE s == StateOf(t)'
           d == DueOf(t)'
           E == Stored(t)'
<1>1. /\ StateMap' = [StateMap EXCEPT ![t] = s]
      /\ DueMap' = [DueMap EXCEPT ![t] = d]
      /\ StoredMap' = [StoredMap EXCEPT ![t] = E]
  BY OneTask
<1>2. /\ StateMap[t] = StateOf(t) /\ DueMap[t] = DueOf(t) /\ StoredMap[t] = Stored(t)
      /\ DOMAIN StateMap = Tasks /\ DOMAIN DueMap = Tasks /\ DOMAIN StoredMap = Tasks
  BY DEF StateMap, DueMap, StoredMap
<1>3. /\ s = StateOf(t) => StateMap' = StateMap
      /\ d = DueOf(t) => DueMap' = DueMap
      /\ E = Stored(t) => StoredMap' = StoredMap
  BY <1>1, <1>2, ZenonT(60) DEF StateMap, DueMap, StoredMap
<1>4. E = StoredMap[t] \cup E <=> Stored(t) \subseteq E
  BY <1>2
<1> HIDE DEF s, d, E
<1>5. CASE s = StateOf(t) /\ d = DueOf(t) /\ E = Stored(t)
  BY <1>3, <1>5 DEF Abstract!deliveryVars
<1>6. CASE /\ StateOf(t) = "new" /\ s = "pending"
           /\ d \subseteq Places /\ E = Stored(t)
  <2>1. Abstract!Accept(t)
    BY <1>1, <1>2, <1>3, <1>6 DEF Abstract!Accept, Abstract!Move
  <2> QED
    BY <2>1 DEF Abstract!DeliveryNext
<1>7. CASE /\ StateOf(t) \in {"new", "pending"} /\ s = "refused"
           /\ Stored(t) = {} /\ E = {} /\ d = DueOf(t)
  <2>1. Abstract!Refuse(t)
    BY <1>1, <1>2, <1>3, <1>7 DEF Abstract!Refuse, Abstract!Move
  <2> QED
    BY <2>1 DEF Abstract!DeliveryNext
<1>8. CASE /\ StateOf(t) = "pending" /\ d = DueOf(t)
           /\ Stored(t) \subseteq E /\ E \subseteq DueOf(t)
           /\ \/ s \in {"pending", "lost"}
              \/ s = "done" /\ E = DueOf(t)
  <2>1. Abstract!Grow(t) /\ DueMap' = DueMap /\ StoredMap'[t] = E
    <3>1. E \in SUBSET DueMap[t]
      BY <1>2, <1>8
    <3>2. StoredMap' = [StoredMap EXCEPT ![t] = @ \cup E]
      BY <1>1, <1>4, <1>8
    <3>3. StoredMap'[t] = E
      BY <1>1, <1>2
    <3> QED
      BY <1>3, <1>8, <3>1, <3>2, <3>3 DEF Abstract!Grow
  <2>2. Abstract!Move(t, {"pending"}, s)
    BY <1>1, <1>2, <1>8 DEF Abstract!Move
  <2>3. Abstract!Store(t) \/ Abstract!GiveUp(t) \/ Abstract!Complete(t)
    BY <1>2, <1>8, <2>1, <2>2 DEF Abstract!Store, Abstract!GiveUp, Abstract!Complete
  <2> QED
    BY <2>3 DEF Abstract!DeliveryNext
<1> QED
  BY <1>5, <1>6, <1>7, <1>8 DEF s, d, E

(* What was stored stays stored.                                           *)
LEMMA StoredGrows ==
    ASSUME IInv, NEW t \in Tasks,
           copies' = copies \/ \E S : StoreFull(t, S) \/ StoreRaw(t, S)
    PROVE  Stored(t) \subseteq Stored(t)'
<1>1. CopyInv(t)
  BY DEF IInv, TaskInv
<1>2. \A i \in DOMAIN copies[t] : copies[t][i].full \in Nat /\ copies[t][i].raw \in Nat
  BY <1>1 DEF CopyInv
<1>3. CASE copies' = copies
  BY <1>3 DEF Stored
<1>4. ASSUME NEW full, NEW raw, Counted(t, full, raw)
      PROVE  Stored(t) \subseteq Stored(t)'
  <2>1. DOMAIN copies'[t] = DOMAIN copies[t]
    BY <1>4 DEF Counted
  <2>2. \A i \in DOMAIN copies[t] :
            /\ copies'[t][i].full = copies[t][i].full + (IF i \in full THEN 1 ELSE 0)
            /\ copies'[t][i].raw = copies[t][i].raw + (IF i \in raw THEN 1 ELSE 0)
    BY <1>4 DEF Counted
  <2>3. \A i \in DOMAIN copies[t] : copies[t][i].full + copies[t][i].raw > 0
                                    => copies'[t][i].full + copies'[t][i].raw > 0
    BY <1>2, <2>2
  <2> QED
    BY <2>1, <2>3 DEF Stored
<1>5. \A S : StoreFull(t, S) \/ StoreRaw(t, S) => Counted(t, S, {}) \/ Counted(t, {}, S)
  BY StoreFullEffect, StoreRawEffect
<1> QED
  BY <1>3, <1>4, <1>5

(* Each step of the pipeline is one of Delivery's or none. *)
LEMMA RefinementStep ==
    ASSUME IInv, [Next]_vars
    PROVE  [Abstract!DeliveryNext]_(Abstract!deliveryVars)
<1>1. CASE UNCHANGED vars
  <2>1. /\ note' = note /\ status' = status /\ answer' = answer /\ payload' = payload
        /\ copies' = copies
    BY <1>1 DEF vars, task, store
  <2>2. StateMap' = StateMap /\ DueMap' = DueMap /\ StoredMap' = StoredMap
    BY <2>1 DEF StateMap, DueMap, StoredMap, StateOf, DueOf, Due, Stored
  <2> QED
    BY <2>2 DEF Abstract!deliveryVars
<1>2. ASSUME NEW t \in Tasks, Read(t) \/ Notify(t) \/ Work(t) \/ Run(t) \/ Crash(t)
      PROVE  [Abstract!DeliveryNext]_(Abstract!deliveryVars)
  <2>1. /\ IInv' /\ note' = note
        /\ \A u \in Tasks \ {t} : OtherTask(u) /\ OtherStore(u)
    BY <1>2, TaskStep
  <2>2. /\ TaskInv(t) /\ TaskInv(t)' /\ InputInv' /\ FunctionInv /\ FunctionInv'
    BY <2>1 DEF IInv
  <2>3. CASE Read(t) \/ Notify(t)
    <3>1. /\ status[t] = "new" /\ copies' = copies
          /\ status'[t] \in {"new", "rejected", "running", "queued"}
      <4>1. /\ status[t] = "new" /\ copies' = copies
            /\ \/ status' = status
               \/ \E s \in {"rejected", "running", "queued"} :
                    status' = [status EXCEPT ![t] = s]
        BY <2>3 DEF Read, Locate, Take, Notify, Reject, RunHere, Enqueue, store
      <4> QED
        BY <2>2, <4>1, SMTT(30) DEF FunctionInv
    <3>2. StateOf(t) = "new" /\ DueOf(t) = {} /\ Stored(t) = {} /\ Stored(t)' = Stored(t)
      BY <2>2, <3>1, SameStore DEF StateOf, DueOf, TaskInv, StoredInv, Accepted
    <3>3. CASE status'[t] \in {"new", "rejected"}
      <4>1. DueOf(t)' = {} /\ StateOf(t)' \in {"new", "refused"}
        BY <3>3 DEF StateOf, DueOf
      <4> QED
        BY <2>1, <3>2, <4>1, AbstractMove
    <3>4. CASE status'[t] \in {"running", "queued"}
      <4>1. StateOf(t)' = "pending" /\ DueOf(t)' = DOMAIN payload'[t]
        BY <3>4 DEF StateOf, DueOf, Due
      <4>2. DOMAIN payload'[t] \subseteq DOMAIN note'[t].entities
        BY <2>2, <3>4 DEF TaskInv, EntryInv, Accepted
      <4>3. DOMAIN note'[t].entities \subseteq Places
        BY <2>2 DEF InputInv
      <4> QED
        BY <2>1, <3>2, <4>1, <4>2, <4>3, AbstractMove
    <3> QED
      BY <3>1, <3>3, <3>4
  <2>4. CASE Work(t)
    <3>1. /\ status[t] = "queued" /\ status'[t] = "running" /\ payload' = payload
          /\ copies' = copies
      BY <2>2, <2>4 DEF Work, store, FunctionInv
    <3>2. StateOf(t)' = StateOf(t) /\ DueOf(t)' = DueOf(t) /\ Stored(t)' = Stored(t)
      BY <3>1, SameStore DEF StateOf, DueOf, Due
    <3> QED
      BY <2>1, <3>2, AbstractMove
  <2>5. CASE Run(t) \/ Crash(t)
    <3>1. /\ status[t] = "running" /\ payload' = payload
          /\ status'[t] \in {"running", "queued", "finished", "failed"}
          /\ Stored(t) \subseteq Stored(t)'
      BY <2>5, RunEffect, StoredGrows
    <3>2. /\ StateOf(t) = "pending" /\ DueOf(t) = DOMAIN payload[t]
          /\ DueOf(t)' = DueOf(t)
      BY <3>1 DEF StateOf, DueOf, Due
    <3>3. Stored(t)' \subseteq DueOf(t)
      BY <2>2, <3>1, <3>2 DEF TaskInv, StoredInv, Accepted
    <3>4. CASE status'[t] \in {"running", "queued"}
      <4>1. StateOf(t)' = "pending"
        BY <3>4 DEF StateOf
      <4> QED
        BY <2>1, <3>1, <3>2, <3>3, <4>1, AbstractMove
    <3>5. CASE status'[t] = "finished"
      <4>1. StateOf(t)' = "done"
        BY <3>5 DEF StateOf
      <4>2. Stored(t)' = DueOf(t)
        BY <2>2, <3>1, <3>2, <3>5 DEF TaskInv, StoredInv
      <4> QED
        BY <2>1, <3>1, <3>2, <3>3, <4>1, <4>2, AbstractMove
    <3>6. CASE status'[t] = "failed" /\ answer'[t] = "400"
      <4>1. StateOf(t)' = "refused"
        BY <3>6 DEF StateOf
      <4>2. Stored(t)' = {}
        BY <2>2, <3>6 DEF TaskInv, StoredInv, Accepted
      <4> QED
        BY <2>1, <3>1, <3>2, <4>1, <4>2, AbstractMove
    <3>7. CASE status'[t] = "failed" /\ answer'[t] # "400"
      <4>1. StateOf(t)' = "lost"
        BY <3>7 DEF StateOf
      <4> QED
        BY <2>1, <3>1, <3>2, <3>3, <4>1, AbstractMove
    <3> QED
      BY <3>1, <3>4, <3>5, <3>6, <3>7
  <2> QED
    BY <1>2, <2>3, <2>4, <2>5
<1> QED
  BY <1>1, <1>2 DEF Next

(* Whatever fails, a notification is handled as Delivery says: one that is *)
(* refused left no row behind, what was stored stays stored, and one that  *)
(* is done has each entity that was due stored.                            *)
THEOREM InsertImplementsDelivery == Spec => DeliveryRefined
<1>1. Init => Abstract!DeliveryInit
  <2> SUFFICES ASSUME Init
               PROVE  Abstract!DeliveryInit
    OBVIOUS
  <2>1. \A t \in Tasks : StateOf(t) = "new" /\ DueOf(t) = {} /\ Stored(t) = {}
    BY DEF Init, StateOf, DueOf, Stored
  <2> QED
    BY <2>1 DEF Abstract!DeliveryInit, StateMap, DueMap, StoredMap
<1>2. IInv /\ [Next]_vars => [Abstract!DeliveryNext]_(Abstract!deliveryVars)
  BY RefinementStep
<1> QED
  BY <1>1, <1>2, DeliveryInvariant, PTL DEF Spec, DeliveryRefined, Abstract!DeliverySpec
=============================================================================
