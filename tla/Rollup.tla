------------------------------- MODULE Rollup -------------------------------
(***************************************************************************)
(* The all-time statistics (pu/sessions.py, pu/stats.py).  A run that ends  *)
(* writes its record and folds it into rollup.json: it reads the file, adds *)
(* itself and writes it back, or counts every record there is if the file   *)
(* is missing or cannot be read.  The runs end in threads of their own and  *)
(* take no lock, and writing the file starts by emptying it.                *)
(***************************************************************************)
EXTENDS Naturals

CONSTANTS Runs

VARIABLES
    at,         \* where each run is in record()
    records,    \* the runs whose result.json is whole
    rollup,     \* rollup.json: can it be read, and how often it counts each run
    held,       \* the rollup a run is about to write
    counted,    \* history: runs that have written the rollup
    met         \* history: runs that were in record() with another

rollupVars == <<at, records, rollup, held, counted, met>>

NoRun == [r \in Runs |-> 0]
Recording == {r \in Runs : at[r] \notin {"session", "over"}}

RollupInit ==
    /\ at = [r \in Runs |-> "session"]
    /\ records = {} /\ counted = {} /\ met = {}
    /\ rollup = [readable |-> FALSE, count |-> NoRun]
    /\ held = [r \in Runs |-> NoRun]

Step(r, to) == at' = [at EXCEPT ![r] = to]

\* result.json.  If the disk is full the run is over, and never counted.
RecordRun(r) ==
    /\ at[r] = "session"
    /\ \/ records' = records \cup {r} /\ Step(r, "load")
          /\ met' = IF Recording = {} THEN met ELSE met \cup Recording \cup {r}
       \/ Step(r, "over") /\ UNCHANGED <<records, met>>
    /\ UNCHANGED <<rollup, held, counted>>

\* add, for the counts: the measures follow the same path.
Added(count, r) == [count EXCEPT ![r] = @ + 1]

\* Every record that can be read, once.
Rebuilt == [r \in Runs |-> IF r \in records THEN 1 ELSE 0]

LoadRollup(r) ==
    /\ at[r] = "load"
    /\ IF rollup.readable
       THEN held' = [held EXCEPT ![r] = Added(rollup.count, r)] /\ Step(r, "open")
       ELSE Step(r, "rebuild") /\ UNCHANGED held
    /\ UNCHANGED <<records, rollup, counted, met>>

\* Mutation: the run is added to a rebuilt rollup, too.
RebuildAndAdd(r) ==
    /\ at[r] = "rebuild"
    /\ held' = [held EXCEPT ![r] = Added(Rebuilt, r)]
    /\ Step(r, "open")
    /\ UNCHANGED <<records, rollup, counted, met>>
RebuildRollup(r) ==
    /\ at[r] = "rebuild"
    /\ held' = [held EXCEPT ![r] = Rebuilt]
    /\ Step(r, "open")
    /\ UNCHANGED <<records, rollup, counted, met>>

OpenRollup(r) ==
    /\ at[r] = "open"
    /\ rollup' = [readable |-> FALSE, count |-> NoRun]
    /\ Step(r, "write")
    /\ UNCHANGED <<records, held, counted, met>>

\* Over what another run has written since, the rest of a longer text stays.
WriteRollup(r) ==
    /\ at[r] = "write"
    /\ rollup' \in {[readable |-> TRUE, count |-> held[r]]}
                   \cup (IF rollup.readable THEN {[readable |-> FALSE, count |-> NoRun]} ELSE {})
    /\ counted' = counted \cup {r}
    /\ Step(r, "over")
    /\ UNCHANGED <<records, held, met>>

\* The process dies.
RollupDie ==
    /\ Recording # {}
    /\ at' = [r \in Runs |-> IF at[r] = "session" THEN "session" ELSE "over"]
    /\ UNCHANGED <<records, rollup, held, counted, met>>

RollupNext ==
    \/ \E r \in Runs : \/ RecordRun(r) \/ LoadRollup(r) \/ RebuildRollup(r)
                       \/ OpenRollup(r) \/ WriteRollup(r)
    \/ RollupDie
-----------------------------------------------------------------------------
\* What load_rollup gives.
AllTime == IF rollup.readable THEN rollup.count ELSE Rebuilt

\* A run that no other run's ending crossed counts exactly once in the
\* all-time statistics, from then on, whatever other runs do to each other
\* and wherever the process dies.
LoneRunsCountOnce == \A r \in counted \ met : AllTime[r] = 1
=============================================================================
