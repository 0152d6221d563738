--------------------------- MODULE PipelineProofs ---------------------------
(***************************************************************************)
(* What the tick guarantees for any number of threads, tasks and           *)
(* repositories, and any number of crashes, faults and interventions by    *)
(* people, or as few of these as a theorem says: types, the lock, the      *)
(* repositories, a ceiling of one, claims and failures, and that the tick  *)
(* implements Dispatch.                                                    *)
(***************************************************************************)
EXTENDS PipelineDispatch, FiniteSetTheorems, TLAPS

-----------------------------------------------------------------------------
(* Records.                                                                *)

\* Every write of the store's wrapper yields a well-formed task.
LEMMA WritesAreTyped ==
    ASSUME NEW m \in Nat, NEW t \in TaskRecord(m), NEW who \in Claimants
    PROVE  /\ Started(t, who) \in TaskRecord(m)
           /\ Stopped(t) \in TaskRecord(m)
           /\ Done(t) \in TaskRecord(m)
           /\ Blocked(t) \in TaskRecord(m)
    BY DEF TaskRecord, Started, Stopped, Done, Blocked, Claimants, Statuses

\* So is a task that does not exist, and one a trigger has just created.
LEMMA NewTasksAreTyped ==
    ASSUME NEW m \in Nat
    PROVE  Absent \in TaskRecord(m) /\ Created \in TaskRecord(m)
    BY DEF TaskRecord, Absent, Created, Claimants, Statuses

\* The locations as the prover needs them: one flat set.
LEMMA Locs ==
    /\ Locations = {"idle", "clear", "recover", "recCheck", "recGet", "recRelease",
                    "recCount", "recBlock", "emit", "sweep", "expire", "ceiling",
                    "queue", "select", "trip", "claim", "mark", "register",
                    "run", "pop", "release", "count", "yield", "block", "done"}
    /\ HasJob = {"clear", "run", "pop", "release", "count", "yield", "block", "done",
                 "recCheck", "recGet", "recRelease", "recCount", "recBlock",
                 "trip", "claim", "mark", "register"}
    /\ Deciding = {"recover", "recCheck", "recGet", "recRelease", "recCount",
                   "recBlock", "emit", "sweep", "expire", "ceiling",
                   "queue", "select", "trip", "claim", "mark", "register"}
    /\ Recovering = {"recover", "recCheck", "recGet", "recRelease", "recCount", "recBlock"}
    /\ Launched = {"run", "pop", "release", "count", "yield", "block", "done"}
    BY DEF Locations, HasJob, Deciding, Recovering, Selecting, Launched, Settling

-----------------------------------------------------------------------------
(* Types.                                                                  *)

\* At the start everything has its type.
LEMMA TypeInit == Init => TypeOK
    <1> SUFFICES ASSUME Init PROVE TypeOK
        OBVIOUS
    <1>1. task \in [Tasks -> TaskRecord(MaxFailures)]
        BY NewTasksAreTyped, PipelineAssumption DEF Init
    <1>2. /\ markers \subseteq Tasks /\ running \subseteq Tasks
          /\ tracker \in [uuid : Tasks \cup {NoTask}, count : Nat]
          /\ paused \in BOOLEAN /\ lock \in Threads \cup {"nobody"}
        BY DEF Init
    <1>3. /\ pc \in [Threads -> Locations]
          /\ job \in [Threads -> Tasks \cup {NoTask}]
          /\ \A th \in Threads : pc[th] \in HasJob => job[th] \in Tasks
        BY Locs DEF Init
    <1>4. /\ todo \in [Threads -> SUBSET Tasks]
          /\ busy \in [Threads -> SUBSET Repos]
          /\ launches \in [Tasks -> Nat]
        BY DEF Init
    <1>5. hands \in 0..MaxHands /\ crashes \in 0..MaxCrashes /\ faults \in 0..MaxFaults
        BY PipelineAssumption DEF Init
    <1> QED
        BY <1>1, <1>2, <1>3, <1>4, <1>5 DEF TypeOK

\* What Leave and Raise do to the locals keeps their types.
LEMMA LeaveTyped ==
    ASSUME TypeOK, NEW th \in Threads, Leave(th)
    PROVE  /\ lock' \in Threads \cup {"nobody"}
           /\ pc' \in [Threads -> Locations]
           /\ job' \in [Threads -> Tasks \cup {NoTask}]
           /\ \A a \in Threads : pc'[a] \in HasJob => job'[a] \in Tasks
           /\ todo' \in [Threads -> SUBSET Tasks]
           /\ busy' \in [Threads -> SUBSET Repos]
    BY Locs DEF TypeOK, Leave, Goto

\* A tick that ends early leaves everything typed.
LEMMA RaiseTyped ==
    ASSUME TypeOK, NEW th \in Threads, Raise(th), pc[th] \in HasJob \cup Deciding
    PROVE  /\ lock' \in Threads \cup {"nobody"}
           /\ pc' \in [Threads -> Locations]
           /\ job' \in [Threads -> Tasks \cup {NoTask}]
           /\ \A a \in Threads : pc'[a] \in HasJob => job'[a] \in Tasks
           /\ todo' \in [Threads -> SUBSET Tasks]
           /\ busy' \in [Threads -> SUBSET Repos]
    <1>1. CASE pc[th] \in Deciding
        BY <1>1, LeaveTyped DEF Raise
    <1>2. CASE pc[th] \notin Deciding
        BY <1>2, Locs DEF TypeOK, Raise, Goto
    <1> QED
        BY <1>1, <1>2

\* The three groups of actions preserve the types.
LEMMA TypeDecide ==
    ASSUME TypeOK, NEW th \in Threads, Decide(th)
    PROVE  TypeOK'
    <1> USE Locs DEF TypeOK, store, files, locals, spent, Goto
    <1>1. CASE TickBegin(th)
        BY <1>1 DEF TickBegin
    <1>2. CASE RecoverRead(th)
        BY <1>2 DEF RecoverRead
    <1>3. CASE RecoverCheck(th)
        BY <1>3 DEF RecoverCheck
    <1>4. CASE RecoverGet(th)
        BY <1>4 DEF RecoverGet
    <1>5. CASE Gates(th)
        BY <1>5, LeaveTyped DEF Gates
    <1>6. CASE Emit(th)
        BY <1>6, NewTasksAreTyped, PipelineAssumption DEF Emit
    <1>7. CASE Sweep(th)
        BY <1>7, PipelineAssumption DEF Sweep
    <1>8. CASE Expire(th)
        <2>1. ASSUME NEW c \in todo[th], DoneAccepted(task[c]),
                     task' = [task EXCEPT ![c] = Done(@)],
                     todo' = [todo EXCEPT ![th] = @ \ {c}],
                     UNCHANGED <<pc, lock, job, busy>>
              PROVE  TypeOK'
            <3>1. c \in Tasks
                OBVIOUS
            <3>2. task' \in [Tasks -> TaskRecord(MaxFailures)]
                BY <2>1, <3>1, WritesAreTyped, PipelineAssumption DEF Claimants
            <3> QED
                BY <1>8, <2>1, <3>2 DEF Expire
        <2>2. ASSUME Raise(th), UNCHANGED task
              PROVE  TypeOK'
            BY <1>8, <2>2, RaiseTyped DEF Expire
        <2>3. ASSUME Goto(th, "ceiling"), UNCHANGED <<task, lock, job, todo, busy>>
              PROVE  TypeOK'
            BY <1>8, <2>3 DEF Expire
        <2> QED
            BY <1>8, <2>1, <2>2, <2>3 DEF Expire
    <1>9. CASE CheckCeiling(th)
        <2>1. {RepoOf[c] : c \in running} \ {NoRepo} \in SUBSET Repos
            BY DEF Repos
        <2> QED
            BY <1>9, <2>1, LeaveTyped DEF CheckCeiling
    <1>10. CASE ReadQueue(th)
        BY <1>10 DEF ReadQueue
    <1>11. CASE Select(th)
        <2>1. PICK c \in Foremost(todo[th]) : Select(th)!2!(c)
            BY <1>11 DEF Select
        <2>2. c \in Tasks
            BY <2>1 DEF Foremost
        <2>3. task' \in [Tasks -> TaskRecord(MaxFailures)]
            BY <2>1, <2>2, WritesAreTyped, PipelineAssumption DEF Claimants
        <2>4. tracker' \in [uuid : Tasks \cup {NoTask}, count : Nat]
            BY <2>1, <2>2 DEF TimesSelected
        <2> QED
            BY <1>11, <2>1, <2>2, <2>3, <2>4 DEF Select
    <1>12. CASE NothingRunnable(th)
        BY <1>12, LeaveTyped DEF NothingRunnable
    <1>13. CASE Trip(th)
        <2>1. task' \in [Tasks -> TaskRecord(MaxFailures)]
            BY <1>13, WritesAreTyped, PipelineAssumption DEF Trip, Claimants
        <2> QED
            BY <1>13, <2>1, LeaveTyped DEF Trip
    <1>14. CASE Claim(th)
        <2>1. task' \in [Tasks -> TaskRecord(MaxFailures)]
            BY <1>14, WritesAreTyped, PipelineAssumption DEF Claim, Claimants
        <2> QED
            BY <1>14, <2>1, RaiseTyped DEF Claim
    <1>15. CASE Mark(th)
        BY <1>15 DEF Mark
    <1>16. CASE Register(th)
        BY <1>16 DEF Register
    <1> QED
        BY <1>1, <1>2, <1>3, <1>4, <1>5, <1>6, <1>7, <1>8, <1>9, <1>10, <1>11,
           <1>12, <1>13, <1>14, <1>15, <1>16 DEF Decide

\* So does every way a run settles.
LEMMA TypeSettle ==
    ASSUME TypeOK, NEW th \in Threads, Settle(th)
    PROVE  TypeOK'
    <1> USE Locs DEF TypeOK, store, files, locals, spent, Goto
    <1>1. CASE SessionEnds(th)
        BY <1>1 DEF SessionEnds
    <1>2. CASE FailRelease(th)
        <2>1. task' \in [Tasks -> TaskRecord(MaxFailures)]
            BY <1>2, WritesAreTyped, PipelineAssumption DEF FailRelease, Claimants, Here
        <2> QED
            BY <1>2, <2>1, RaiseTyped DEF FailRelease, Here, Then
    <1>3. CASE FailCount(th)
        <2>1. task[job[th]] \in TaskRecord(MaxFailures) /\ job[th] \in Tasks
            BY <1>3 DEF FailCount, Here
        <2>2. task' \in [Tasks -> TaskRecord(MaxFailures)]
            BY <1>3, <2>1, PipelineAssumption DEF FailCount, TaskRecord
        <2> QED
            BY <1>3, <2>2 DEF FailCount, Here, Then
    <1>4. CASE Block(th)
        <2>1. task' \in [Tasks -> TaskRecord(MaxFailures)]
            BY <1>4, WritesAreTyped, PipelineAssumption DEF Block, Claimants, Here
        <2> QED
            BY <1>4, <2>1 DEF Block, Here, Then
    <1>5. CASE Yield(th)
        <2>1. task' \in [Tasks -> TaskRecord(MaxFailures)]
            BY <1>5, WritesAreTyped, PipelineAssumption DEF Yield, Claimants
        <2> QED
            BY <1>5, <2>1, RaiseTyped DEF Yield
    <1>6. CASE Complete(th)
        <2>1. task' \in [Tasks -> TaskRecord(MaxFailures)]
            BY <1>6, WritesAreTyped, PipelineAssumption DEF Complete, Claimants
        <2> QED
            BY <1>6, <2>1 DEF Complete
    <1>7. CASE Pop(th)
        BY <1>7 DEF Pop
    <1>8. CASE Clear(th)
        BY <1>8 DEF Clear
    <1> QED
        BY <1>1, <1>2, <1>3, <1>4, <1>5, <1>6, <1>7, <1>8 DEF Settle

\* So do faults, crashes and people.
LEMMA TypeSurroundings ==
    ASSUME TypeOK,
           Crash \/ Person \/ \E th \in Threads : Fault(th) \/ MarkFails(th)
    PROVE  TypeOK'
    <1> USE Locs, PipelineAssumption DEF TypeOK, store, files, locals, spent, Goto
    <1>1. CASE Crash
        BY <1>1 DEF Crash
    <1>2. CASE Person
        <2>1. task' \in [Tasks -> TaskRecord(MaxFailures)]
            <3>1. ASSUME NEW c \in Tasks, NEW power \in Powers, PersonWrites(c, power)
                  PROVE  task' \in [Tasks -> TaskRecord(MaxFailures)]
                <4>1. task[c] \in TaskRecord(MaxFailures)
                    OBVIOUS
                <4>2. /\ Started(task[c], "person") \in TaskRecord(MaxFailures)
                      /\ Stopped(task[c]) \in TaskRecord(MaxFailures)
                      /\ Done(task[c]) \in TaskRecord(MaxFailures)
                    BY <4>1, WritesAreTyped DEF Claimants
                <4>3. /\ [task[c] EXCEPT !.afk = TRUE, !.needs_human = FALSE]
                             \in TaskRecord(MaxFailures)
                      /\ [task[c] EXCEPT !.afk = FALSE] \in TaskRecord(MaxFailures)
                    BY <4>1 DEF TaskRecord
                <4>4. ASSUME NEW t \in TaskRecord(MaxFailures), task' = [task EXCEPT ![c] = t]
                      PROVE  task' \in [Tasks -> TaskRecord(MaxFailures)]
                    BY <4>4
                <4>5. \E t \in TaskRecord(MaxFailures) : task' = [task EXCEPT ![c] = t]
                    BY <3>1, <4>2, <4>3 DEF PersonWrites
                <4> QED
                    BY <4>4, <4>5
            <3> QED
                BY <1>2, <3>1 DEF Person
        <2>2. paused' \in BOOLEAN
            BY <1>2 DEF Person
        <2>3. hands' \in 0..MaxHands
            BY <1>2 DEF Person
        <2>4. UNCHANGED <<launches, markers, tracker, lock, running, locals, crashes, faults>>
            BY <1>2 DEF Person
        <2> QED
            BY <2>1, <2>2, <2>3, <2>4
    <1>3. ASSUME NEW th \in Threads, Fault(th)
          PROVE  TypeOK'
        <2>1. pc[th] \in HasJob \cup Deciding
            BY <1>3 DEF Fault, Settling
        <2> QED
            BY <1>3, <2>1, RaiseTyped DEF Fault
    <1>4. ASSUME NEW th \in Threads, MarkFails(th)
          PROVE  TypeOK'
        BY <1>4 DEF MarkFails
    <1> QED
        BY <1>1, <1>2, <1>3, <1>4

\* Every step keeps the types.
LEMMA TypeStep == TypeOK /\ [Next]_vars => TypeOK'
    <1>1. CASE UNCHANGED vars
        BY <1>1 DEF vars, TypeOK
    <1> QED
        BY <1>1, TypeDecide, TypeSettle, TypeSurroundings DEF Next, Step

\* Type correctness of the tick.
THEOREM TypeCorrect == Spec => []TypeOK
    BY TypeInit, TypeStep, PTL DEF Spec
-----------------------------------------------------------------------------
(* The lock.                                                               *)

\* Exactly the thread that holds _TICK_LOCK is deciding.
DecidingAlone == \A th \in Threads : pc[th] \in Deciding <=> lock = th

\* Every step keeps the lock with the one thread that decides.
LEMMA DecidingAloneStep ==
    ASSUME TypeOK, DecidingAlone, [Next]_vars
    PROVE  DecidingAlone'
    <1> USE Locs, PipelineAssumption
        DEF TypeOK, DecidingAlone, store, files, locals, spent, Goto
    <1>1. ASSUME NEW th \in Threads, TickBegin(th)
          PROVE  DecidingAlone'
        BY <1>1 DEF TickBegin
    <1>2. ASSUME NEW th \in Threads, RecoverRead(th)
          PROVE  DecidingAlone'
        BY <1>2 DEF RecoverRead
    <1>3. ASSUME NEW th \in Threads, RecoverCheck(th)
          PROVE  DecidingAlone'
        BY <1>3 DEF RecoverCheck
    <1>4. ASSUME NEW th \in Threads, RecoverGet(th)
          PROVE  DecidingAlone'
        BY <1>4 DEF RecoverGet
    <1>5. ASSUME NEW th \in Threads, Gates(th)
          PROVE  DecidingAlone'
        BY <1>5 DEF Gates, Leave
    <1>6. ASSUME NEW th \in Threads, Emit(th)
          PROVE  DecidingAlone'
        BY <1>6 DEF Emit
    <1>7. ASSUME NEW th \in Threads, Sweep(th)
          PROVE  DecidingAlone'
        BY <1>7 DEF Sweep
    <1>8. ASSUME NEW th \in Threads, Expire(th)
          PROVE  DecidingAlone'
        BY <1>8 DEF Expire, Leave, Raise
    <1>9. ASSUME NEW th \in Threads, CheckCeiling(th)
          PROVE  DecidingAlone'
        BY <1>9 DEF CheckCeiling, Leave
    <1>10. ASSUME NEW th \in Threads, ReadQueue(th)
          PROVE  DecidingAlone'
        BY <1>10 DEF ReadQueue
    <1>11. ASSUME NEW th \in Threads, Select(th)
          PROVE  DecidingAlone'
        BY <1>11 DEF Select
    <1>12. ASSUME NEW th \in Threads, NothingRunnable(th)
          PROVE  DecidingAlone'
        BY <1>12 DEF NothingRunnable, Leave
    <1>13. ASSUME NEW th \in Threads, Trip(th)
          PROVE  DecidingAlone'
        BY <1>13 DEF Trip, Leave
    <1>14. ASSUME NEW th \in Threads, Claim(th)
          PROVE  DecidingAlone'
        BY <1>14 DEF Claim, Leave, Raise
    <1>15. ASSUME NEW th \in Threads, Mark(th)
          PROVE  DecidingAlone'
        BY <1>15 DEF Mark
    <1>16. ASSUME NEW th \in Threads, Register(th)
          PROVE  DecidingAlone'
        BY <1>16 DEF Register
    <1>17. ASSUME NEW th \in Threads, SessionEnds(th)
          PROVE  DecidingAlone'
        BY <1>17 DEF SessionEnds
    <1>18. ASSUME NEW th \in Threads, FailRelease(th)
          PROVE  DecidingAlone'
        BY <1>18 DEF FailRelease, Leave, Raise, Here, Then
    <1>19. ASSUME NEW th \in Threads, FailCount(th)
          PROVE  DecidingAlone'
        BY <1>19 DEF FailCount, Here, Then
    <1>20. ASSUME NEW th \in Threads, Block(th)
          PROVE  DecidingAlone'
        BY <1>20 DEF Block, Here, Then
    <1>21. ASSUME NEW th \in Threads, Yield(th)
          PROVE  DecidingAlone'
        BY <1>21 DEF Yield, Leave, Raise
    <1>22. ASSUME NEW th \in Threads, Complete(th)
          PROVE  DecidingAlone'
        BY <1>22 DEF Complete
    <1>23. ASSUME NEW th \in Threads, Pop(th)
          PROVE  DecidingAlone'
        BY <1>23 DEF Pop
    <1>24. ASSUME NEW th \in Threads, Clear(th)
          PROVE  DecidingAlone'
        BY <1>24 DEF Clear
    <1>25. ASSUME NEW th \in Threads, Fault(th)
          PROVE  DecidingAlone'
        BY <1>25 DEF Fault, Leave, Raise, Settling
    <1>26. ASSUME NEW th \in Threads, MarkFails(th)
          PROVE  DecidingAlone'
        BY <1>26 DEF MarkFails
    <1>27. CASE Crash
        BY <1>27 DEF Crash
    <1>28. CASE Person
        BY <1>28 DEF Person
    <1>29. CASE UNCHANGED vars
        BY <1>29 DEF vars
    <1> QED
        BY <1>1, <1>2, <1>3, <1>4, <1>5, <1>6, <1>7, <1>8, <1>9, <1>10,
           <1>11, <1>12, <1>13, <1>14, <1>15, <1>16, <1>17, <1>18, <1>19,
           <1>20, <1>21, <1>22, <1>23, <1>24, <1>25, <1>26, <1>27, <1>28,
           <1>29
        DEF Next, Step, Decide, Settle

\* One tick decides at a time: the thread that holds _TICK_LOCK is the only one
\* between the reading of the markers and the registration of a run.
THEOREM OneTickDecides == Spec => []DecidingAlone
    <1>1. Init => DecidingAlone
        BY Locs, PipelineAssumption DEF Init, DecidingAlone
    <1> QED
        BY <1>1, DecidingAloneStep, TypeCorrect, PTL DEF Spec

-----------------------------------------------------------------------------
(* One session per repository.                                             *)

InRepo(th) == pc[th] \in Launched /\ RepoOf[job[th]] # NoRepo

\* A run in a repository keeps its registration until its own `finally`: its
\* task cannot be launched again meanwhile, because its repository is busy.
RepoRunsRegistered == \A th \in Threads : InRepo(th) => job[th] \in running

ReposDistinct ==
    \A a, b \in Threads : (a # b /\ InRepo(a) /\ InRepo(b)) => RepoOf[job[a]] # RepoOf[job[b]]

\* The deciding thread's snapshot of the busy repositories misses none that
\* is in use now: registrations only go away while it decides.
SnapshotCovers ==
    \A th \in Threads : pc[th] \in Selecting =>
        \A c \in running : RepoOf[c] # NoRepo => RepoOf[c] \in busy[th]

ChoiceIsFree ==
    \A th \in Threads :
        pc[th] \in {"trip", "claim", "mark", "register"} => RepoOf[job[th]] \notin busy[th]

\* What recovery takes for lost is not registered.
LostIsUnregistered ==
    \A th \in Threads :
        pc[th] \in {"recGet", "recRelease", "recCount", "recBlock"} => job[th] \notin running

RepoInv ==
    RepoRunsRegistered /\ ReposDistinct /\ SnapshotCovers /\ ChoiceIsFree /\ LostIsUnregistered

\* The locations at which a tick is choosing or starting a task.
LEMMA Selects == Selecting = {"queue", "select", "trip", "claim", "mark", "register"}
    BY DEF Selecting

\* Every step keeps repositories with one run each.
LEMMA RepoInvStep ==
    ASSUME TypeOK, DecidingAlone, RepoInv, [Next]_vars
    PROVE  RepoInv'
    <1> USE Locs, Selects, PipelineAssumption
        DEF TypeOK, DecidingAlone, RepoInv, RepoRunsRegistered, ReposDistinct,
            SnapshotCovers, ChoiceIsFree, LostIsUnregistered, InRepo,
            store, files, locals, spent, Goto
    <1>1. ASSUME NEW th \in Threads, TickBegin(th)
          PROVE  RepoInv'
        BY <1>1 DEF TickBegin
    <1>2. ASSUME NEW th \in Threads, RecoverRead(th)
          PROVE  RepoInv'
        BY <1>2 DEF RecoverRead
    <1>3. ASSUME NEW th \in Threads, RecoverCheck(th)
          PROVE  RepoInv'
        BY <1>3 DEF RecoverCheck
    <1>4. ASSUME NEW th \in Threads, RecoverGet(th)
          PROVE  RepoInv'
        BY <1>4 DEF RecoverGet
    <1>5. ASSUME NEW th \in Threads, Gates(th)
          PROVE  RepoInv'
        BY <1>5 DEF Gates, Leave
    <1>6. ASSUME NEW th \in Threads, Emit(th)
          PROVE  RepoInv'
        BY <1>6 DEF Emit
    <1>7. ASSUME NEW th \in Threads, Sweep(th)
          PROVE  RepoInv'
        BY <1>7 DEF Sweep
    <1>8. ASSUME NEW th \in Threads, Expire(th)
          PROVE  RepoInv'
        BY <1>8 DEF Expire, Leave, Raise
    <1>9. ASSUME NEW th \in Threads, CheckCeiling(th)
          PROVE  RepoInv'
        BY <1>9 DEF CheckCeiling, Leave
    <1>10. ASSUME NEW th \in Threads, ReadQueue(th)
          PROVE  RepoInv'
        BY <1>10 DEF ReadQueue
    <1>11. ASSUME NEW th \in Threads, Select(th)
          PROVE  RepoInv'
        BY <1>11 DEF Select, PassedOver, Foremost
    <1>12. ASSUME NEW th \in Threads, NothingRunnable(th)
          PROVE  RepoInv'
        BY <1>12 DEF NothingRunnable, Leave
    <1>13. ASSUME NEW th \in Threads, Trip(th)
          PROVE  RepoInv'
        BY <1>13 DEF Trip, Leave
    <1>14. ASSUME NEW th \in Threads, Claim(th)
          PROVE  RepoInv'
        BY <1>14 DEF Claim, Leave, Raise
    <1>15. ASSUME NEW th \in Threads, Mark(th)
          PROVE  RepoInv'
        BY <1>15 DEF Mark
    <1>16. ASSUME NEW th \in Threads, Register(th)
          PROVE  RepoInv'
        BY <1>16 DEF Register
    <1>17. ASSUME NEW th \in Threads, SessionEnds(th)
          PROVE  RepoInv'
        BY <1>17 DEF SessionEnds
    <1>18. ASSUME NEW th \in Threads, FailRelease(th)
          PROVE  RepoInv'
        BY <1>18 DEF FailRelease, Leave, Raise, Here, Then
    <1>19. ASSUME NEW th \in Threads, FailCount(th)
          PROVE  RepoInv'
        BY <1>19 DEF FailCount, Here, Then
    <1>20. ASSUME NEW th \in Threads, Block(th)
          PROVE  RepoInv'
        BY <1>20 DEF Block, Here, Then
    <1>21. ASSUME NEW th \in Threads, Yield(th)
          PROVE  RepoInv'
        BY <1>21 DEF Yield, Leave, Raise
    <1>22. ASSUME NEW th \in Threads, Complete(th)
          PROVE  RepoInv'
        BY <1>22 DEF Complete
    <1>23. ASSUME NEW th \in Threads, Pop(th)
          PROVE  RepoInv'
        BY <1>23 DEF Pop
    <1>24. ASSUME NEW th \in Threads, Clear(th)
          PROVE  RepoInv'
        BY <1>24 DEF Clear
    <1>25. ASSUME NEW th \in Threads, Fault(th)
          PROVE  RepoInv'
        BY <1>25 DEF Fault, Leave, Raise, Settling
    <1>26. ASSUME NEW th \in Threads, MarkFails(th)
          PROVE  RepoInv'
        BY <1>26 DEF MarkFails
    <1>27. CASE Crash
        BY <1>27 DEF Crash
    <1>28. CASE Person
        BY <1>28 DEF Person
    <1>29. CASE UNCHANGED vars
        BY <1>29 DEF vars
    <1> QED
        BY <1>1, <1>2, <1>3, <1>4, <1>5, <1>6, <1>7, <1>8, <1>9, <1>10,
           <1>11, <1>12, <1>13, <1>14, <1>15, <1>16, <1>17, <1>18, <1>19,
           <1>20, <1>21, <1>22, <1>23, <1>24, <1>25, <1>26, <1>27, <1>28,
           <1>29
        DEF Next, Step, Decide, Settle

\* A launched run in a target repository is registered, no two are in the same, and
\* what the deciding tick has in hand is in none that is taken.
THEOREM RepoInvariant == Spec => []RepoInv
    <1>1. Init => RepoInv
        BY Locs, Selects DEF Init, RepoInv, RepoRunsRegistered, ReposDistinct,
           SnapshotCovers, ChoiceIsFree, LostIsUnregistered, InRepo
    <1> QED
        BY <1>1, RepoInvStep, TypeCorrect, OneTickDecides, PTL DEF Spec

-----------------------------------------------------------------------------
(* The default ceiling.                                                    *)

RunsRegistered == \A th \in Threads : pc[th] \in Launched => job[th] \in running
OneRun == \A a, b \in Threads : (pc[a] \in Launched /\ pc[b] \in Launched) => a = b
SelectsWhenIdle == \A th \in Threads : pc[th] \in Selecting => running = {}

\* With a ceiling of one a tick selects only when nothing is registered, and
\* nobody but a run itself can take its registration away.
AloneInv == Ceiling = 1 => RunsRegistered /\ OneRun /\ SelectsWhenIdle

\* At a ceiling of one, every step keeps at most one launched run.
LEMMA AloneInvStep ==
    ASSUME TypeOK, DecidingAlone, AloneInv, [Next]_vars
    PROVE  AloneInv'
    <1> USE Locs, Selects, PipelineAssumption
        DEF TypeOK, DecidingAlone, AloneInv, RunsRegistered, OneRun, SelectsWhenIdle,
            store, files, locals, spent, Goto
    <1>1. ASSUME NEW th \in Threads, TickBegin(th)
          PROVE  AloneInv'
        BY <1>1 DEF TickBegin
    <1>2. ASSUME NEW th \in Threads, RecoverRead(th)
          PROVE  AloneInv'
        BY <1>2 DEF RecoverRead
    <1>3. ASSUME NEW th \in Threads, RecoverCheck(th)
          PROVE  AloneInv'
        BY <1>3 DEF RecoverCheck
    <1>4. ASSUME NEW th \in Threads, RecoverGet(th)
          PROVE  AloneInv'
        BY <1>4 DEF RecoverGet
    <1>5. ASSUME NEW th \in Threads, Gates(th)
          PROVE  AloneInv'
        BY <1>5 DEF Gates, Leave
    <1>6. ASSUME NEW th \in Threads, Emit(th)
          PROVE  AloneInv'
        BY <1>6 DEF Emit
    <1>7. ASSUME NEW th \in Threads, Sweep(th)
          PROVE  AloneInv'
        BY <1>7 DEF Sweep
    <1>8. ASSUME NEW th \in Threads, Expire(th)
          PROVE  AloneInv'
        BY <1>8 DEF Expire, Leave, Raise
    <1>9. ASSUME NEW th \in Threads, CheckCeiling(th)
          PROVE  AloneInv'
        <2>1. CASE Leave(th)
            BY <1>9, <2>1 DEF CheckCeiling, Leave
        <2>2. ASSUME NEW allowed \in {1, Ceiling}, ~(paused \/ Cardinality(running) >= allowed)
              PROVE  Ceiling = 1 => running = {}
            <3>1. IsFiniteSet(running)
                BY FS_Subset
            <3>2. Cardinality(running) \in Nat
                BY <3>1, FS_CardinalityType
            <3> QED
                BY <2>2, <3>1, <3>2, FS_EmptySet
        <2> QED
            BY <1>9, <2>1, <2>2 DEF CheckCeiling
    <1>10. ASSUME NEW th \in Threads, ReadQueue(th)
          PROVE  AloneInv'
        BY <1>10 DEF ReadQueue
    <1>11. ASSUME NEW th \in Threads, Select(th)
          PROVE  AloneInv'
        BY <1>11 DEF Select, PassedOver, Foremost
    <1>12. ASSUME NEW th \in Threads, NothingRunnable(th)
          PROVE  AloneInv'
        BY <1>12 DEF NothingRunnable, Leave
    <1>13. ASSUME NEW th \in Threads, Trip(th)
          PROVE  AloneInv'
        BY <1>13 DEF Trip, Leave
    <1>14. ASSUME NEW th \in Threads, Claim(th)
          PROVE  AloneInv'
        BY <1>14 DEF Claim, Leave, Raise
    <1>15. ASSUME NEW th \in Threads, Mark(th)
          PROVE  AloneInv'
        BY <1>15 DEF Mark
    <1>16. ASSUME NEW th \in Threads, Register(th)
          PROVE  AloneInv'
        BY <1>16 DEF Register
    <1>17. ASSUME NEW th \in Threads, SessionEnds(th)
          PROVE  AloneInv'
        BY <1>17 DEF SessionEnds
    <1>18. ASSUME NEW th \in Threads, FailRelease(th)
          PROVE  AloneInv'
        BY <1>18 DEF FailRelease, Leave, Raise, Here, Then
    <1>19. ASSUME NEW th \in Threads, FailCount(th)
          PROVE  AloneInv'
        BY <1>19 DEF FailCount, Here, Then
    <1>20. ASSUME NEW th \in Threads, Block(th)
          PROVE  AloneInv'
        BY <1>20 DEF Block, Here, Then
    <1>21. ASSUME NEW th \in Threads, Yield(th)
          PROVE  AloneInv'
        BY <1>21 DEF Yield, Leave, Raise
    <1>22. ASSUME NEW th \in Threads, Complete(th)
          PROVE  AloneInv'
        BY <1>22 DEF Complete
    <1>23. ASSUME NEW th \in Threads, Pop(th)
          PROVE  AloneInv'
        BY <1>23 DEF Pop
    <1>24. ASSUME NEW th \in Threads, Clear(th)
          PROVE  AloneInv'
        BY <1>24 DEF Clear
    <1>25. ASSUME NEW th \in Threads, Fault(th)
          PROVE  AloneInv'
        BY <1>25 DEF Fault, Leave, Raise, Settling
    <1>26. ASSUME NEW th \in Threads, MarkFails(th)
          PROVE  AloneInv'
        BY <1>26 DEF MarkFails
    <1>27. CASE Crash
        BY <1>27 DEF Crash
    <1>28. CASE Person
        BY <1>28 DEF Person
    <1>29. CASE UNCHANGED vars
        BY <1>29 DEF vars
    <1> QED
        BY <1>1, <1>2, <1>3, <1>4, <1>5, <1>6, <1>7, <1>8, <1>9, <1>10,
           <1>11, <1>12, <1>13, <1>14, <1>15, <1>16, <1>17, <1>18, <1>19,
           <1>20, <1>21, <1>22, <1>23, <1>24, <1>25, <1>26, <1>27, <1>28,
           <1>29
        DEF Next, Step, Decide, Settle

\* At a ceiling of one there is at most one launched run, it is registered, and a
\* tick selects a task only while nothing runs.
THEOREM AloneInvariant == Spec => []AloneInv
    <1>1. Init => AloneInv
        BY Locs, Selects DEF Init, AloneInv, RunsRegistered, OneRun, SelectsWhenIdle
    <1> QED
        BY <1>1, AloneInvStep, TypeCorrect, OneTickDecides, PTL DEF Spec

-----------------------------------------------------------------------------
(* Any ceiling.                                                            *)

\* What _RUNNING can hold can be counted.
LEMMA RegisteredFinite ==
    ASSUME NEW S \in SUBSET Tasks
    PROVE  /\ IsFiniteSet(S)
           /\ Cardinality(S) \in Nat
           /\ \A c : Cardinality(S \cup {c}) <= Cardinality(S) + 1
           /\ \A c : Cardinality(S \ {c}) \in Nat /\ Cardinality(S \ {c}) <= Cardinality(S)
    <1>1. IsFiniteSet(S)
        BY PipelineAssumption, FS_Subset
    <1>2. Cardinality(S) \in Nat
        BY <1>1, FS_CardinalityType
    <1>3. ASSUME NEW c
          PROVE  Cardinality(S \cup {c}) <= Cardinality(S) + 1
        BY <1>1, <1>2, FS_AddElement
    <1>4. ASSUME NEW c
          PROVE  Cardinality(S \ {c}) \in Nat /\ Cardinality(S \ {c}) <= Cardinality(S)
        <2>1. S \ {c} \in SUBSET S
            OBVIOUS
        <2> QED
            BY <1>1, <2>1, FS_Subset, FS_CardinalityType
    <1> QED
        BY <1>1, <1>2, <1>3, <1>4

RegisteredWithin == Cardinality(running) <= Ceiling
RoomToSelect == \A th \in Threads : pc[th] \in Selecting => Cardinality(running) < Ceiling

\* There are no more registrations than the ceiling, and room for one more while a
\* tick chooses: the ceiling counts registrations, and only that tick adds one.
RoomInv == RegisteredWithin /\ RoomToSelect

\* Every step keeps the registrations within the ceiling: only the thread that
\* holds the lock adds one, after it found room.
LEMMA RoomInvStep ==
    ASSUME TypeOK, DecidingAlone, RoomInv, [Next]_vars
    PROVE  RoomInv'
    <1> USE Locs, Selects, PipelineAssumption
        DEF TypeOK, DecidingAlone, RoomInv, RegisteredWithin, RoomToSelect,
            store, files, locals, spent, Goto
    <1>1. ASSUME NEW th \in Threads, TickBegin(th)
          PROVE  RoomInv'
        BY <1>1 DEF TickBegin
    <1>2. ASSUME NEW th \in Threads, RecoverRead(th)
          PROVE  RoomInv'
        BY <1>2 DEF RecoverRead
    <1>3. ASSUME NEW th \in Threads, RecoverCheck(th)
          PROVE  RoomInv'
        BY <1>3 DEF RecoverCheck
    <1>4. ASSUME NEW th \in Threads, RecoverGet(th)
          PROVE  RoomInv'
        BY <1>4 DEF RecoverGet
    <1>5. ASSUME NEW th \in Threads, Gates(th)
          PROVE  RoomInv'
        BY <1>5 DEF Gates, Leave
    <1>6. ASSUME NEW th \in Threads, Emit(th)
          PROVE  RoomInv'
        BY <1>6 DEF Emit
    <1>7. ASSUME NEW th \in Threads, Sweep(th)
          PROVE  RoomInv'
        BY <1>7 DEF Sweep
    <1>8. ASSUME NEW th \in Threads, Expire(th)
          PROVE  RoomInv'
        BY <1>8 DEF Expire, Leave, Raise
    <1>9. ASSUME NEW th \in Threads, CheckCeiling(th)
          PROVE  RoomInv'
        <2>1. CASE Leave(th)
            BY <1>9, <2>1 DEF CheckCeiling, Leave
        <2>2. ASSUME NEW allowed \in {1, Ceiling}, ~(paused \/ Cardinality(running) >= allowed)
              PROVE  Cardinality(running) < Ceiling
            BY <2>2, RegisteredFinite
        <2> QED
            BY <1>9, <2>1, <2>2 DEF CheckCeiling
    <1>10. ASSUME NEW th \in Threads, ReadQueue(th)
          PROVE  RoomInv'
        BY <1>10 DEF ReadQueue
    <1>11. ASSUME NEW th \in Threads, Select(th)
          PROVE  RoomInv'
        BY <1>11 DEF Select, PassedOver, Foremost
    <1>12. ASSUME NEW th \in Threads, NothingRunnable(th)
          PROVE  RoomInv'
        BY <1>12 DEF NothingRunnable, Leave
    <1>13. ASSUME NEW th \in Threads, Trip(th)
          PROVE  RoomInv'
        BY <1>13 DEF Trip, Leave
    <1>14. ASSUME NEW th \in Threads, Claim(th)
          PROVE  RoomInv'
        BY <1>14 DEF Claim, Leave, Raise
    <1>15. ASSUME NEW th \in Threads, Mark(th)
          PROVE  RoomInv'
        BY <1>15 DEF Mark
    <1>16. ASSUME NEW th \in Threads, Register(th)
          PROVE  RoomInv'
        <2>1. pc[th] \in Selecting /\ running \in SUBSET Tasks /\ job[th] \in Tasks
            BY <1>16 DEF Register
        <2>2. /\ Cardinality(running) \in Nat /\ Cardinality(running) < Ceiling
              /\ Cardinality(running \cup {job[th]}) <= Cardinality(running) + 1
            BY <2>1, RegisteredFinite
        <2>3. Cardinality(running \cup {job[th]}) \in Nat
            <3>1. running \cup {job[th]} \in SUBSET Tasks
                BY <2>1
            <3> QED
                BY <3>1, RegisteredFinite
        <2>4. RegisteredWithin'
            BY <1>16, <2>2, <2>3 DEF Register
        <2>5. ASSUME NEW other \in Threads PROVE pc'[other] \notin Selecting
            BY <1>16, <2>1 DEF Register
        <2> QED
            BY <2>4, <2>5
    <1>17. ASSUME NEW th \in Threads, SessionEnds(th)
          PROVE  RoomInv'
        BY <1>17 DEF SessionEnds
    <1>18. ASSUME NEW th \in Threads, FailRelease(th)
          PROVE  RoomInv'
        BY <1>18 DEF FailRelease, Leave, Raise, Here, Then
    <1>19. ASSUME NEW th \in Threads, FailCount(th)
          PROVE  RoomInv'
        BY <1>19 DEF FailCount, Here, Then
    <1>20. ASSUME NEW th \in Threads, Block(th)
          PROVE  RoomInv'
        BY <1>20 DEF Block, Here, Then
    <1>21. ASSUME NEW th \in Threads, Yield(th)
          PROVE  RoomInv'
        BY <1>21 DEF Yield, Leave, Raise
    <1>22. ASSUME NEW th \in Threads, Complete(th)
          PROVE  RoomInv'
        BY <1>22 DEF Complete
    <1>23. ASSUME NEW th \in Threads, Pop(th)
          PROVE  RoomInv'
        <2>1. running \in SUBSET Tasks
            OBVIOUS
        <2>2. /\ Cardinality(running) \in Nat /\ Cardinality(running \ {job[th]}) \in Nat
              /\ Cardinality(running \ {job[th]}) <= Cardinality(running)
            BY <2>1, RegisteredFinite
        <2>3. running' = running \ {job[th]} /\ pc' = [pc EXCEPT ![th] = "clear"]
            BY <1>23 DEF Pop
        <2>4. RegisteredWithin'
            BY <2>2, <2>3
        <2>5. ASSUME NEW other \in Threads, pc'[other] \in Selecting
              PROVE  pc[other] \in Selecting
            BY <2>3, <2>5
        <2>6. ASSUME NEW other \in Threads, pc'[other] \in Selecting
              PROVE  Cardinality(running') < Ceiling
            <3>1. Cardinality(running) < Ceiling
                BY <2>5, <2>6
            <3> QED
                BY <2>2, <2>3, <3>1
        <2> QED
            BY <2>4, <2>6
    <1>24. ASSUME NEW th \in Threads, Clear(th)
          PROVE  RoomInv'
        BY <1>24 DEF Clear
    <1>25. ASSUME NEW th \in Threads, Fault(th)
          PROVE  RoomInv'
        BY <1>25 DEF Fault, Leave, Raise, Settling
    <1>26. ASSUME NEW th \in Threads, MarkFails(th)
          PROVE  RoomInv'
        BY <1>26 DEF MarkFails
    <1>27. CASE Crash
        BY <1>27, FS_EmptySet DEF Crash
    <1>28. CASE Person
        BY <1>28 DEF Person
    <1>29. CASE UNCHANGED vars
        BY <1>29 DEF vars
    <1> QED
        BY <1>1, <1>2, <1>3, <1>4, <1>5, <1>6, <1>7, <1>8, <1>9, <1>10,
           <1>11, <1>12, <1>13, <1>14, <1>15, <1>16, <1>17, <1>18, <1>19,
           <1>20, <1>21, <1>22, <1>23, <1>24, <1>25, <1>26, <1>27, <1>28,
           <1>29
        DEF Next, Step, Decide, Settle

\* The registrations that the ceiling counts never exceed it.
THEOREM RegistrationsWithinCeiling == Spec => []RoomInv
    <1>1. Init => RoomInv
        BY Locs, Selects, FS_EmptySet, PipelineAssumption
        DEF Init, RoomInv, RegisteredWithin, RoomToSelect
    <1> QED
        BY <1>1, RoomInvStep, TypeCorrect, OneTickDecides, PTL DEF Spec

-----------------------------------------------------------------------------
(* One run per task.                                                       *)

\* The tasks that no tick takes up while a run of theirs has yet to settle: all
\* of them at a ceiling of one, and at any ceiling those that work in a target
\* repository, which the first run keeps busy.
Guarded(c) == Ceiling = 1 \/ RepoOf[c] # NoRepo

\* Where a thread acts on the task it has in hand, or is about to.
Holding == Launched \cup {"trip", "claim", "mark", "register"}
               \cup {"recGet", "recRelease", "recCount", "recBlock"}

OneHand ==
    \A a, b \in Threads :
        (a # b /\ pc[a] \in Holding /\ pc[b] \in Holding /\ job[a] = job[b]) => ~Guarded(job[a])

GuardedAreRegistered ==
    \A th \in Threads : pc[th] \in Launched /\ Guarded(job[th]) => job[th] \in running

\* A tick that selects passes over whatever a run has in hand, and what it has
\* chosen it did not have to pass over.
RunsArePassedOver ==
    \A a, th \in Threads :
        (pc[a] \in Launched /\ Guarded(job[a]) /\ pc[th] \in Selecting) => RepoOf[job[a]] \in busy[th]

OneRunPerTask == OneHand /\ GuardedAreRegistered /\ RunsArePassedOver /\ ChoiceIsFree

\* All this follows from what holds of repositories and of a ceiling of one.
LEMMA OneRunPerTaskHolds ==
    ASSUME TypeOK, DecidingAlone, RepoInv, AloneInv
    PROVE  OneRunPerTask
    <1> USE Locs, Selects
    <1>1. GuardedAreRegistered
        BY DEF GuardedAreRegistered, Guarded, AloneInv, RunsRegistered, RepoInv,
           RepoRunsRegistered, InRepo
    <1>2. RunsArePassedOver
        BY <1>1 DEF RunsArePassedOver, GuardedAreRegistered, Guarded, AloneInv,
           SelectsWhenIdle, RepoInv, SnapshotCovers
    <1>3. ASSUME NEW a \in Threads, NEW b \in Threads, a # b, pc[a] \in Launched,
                 pc[b] \in Holding, job[a] = job[b], Guarded(job[a])
          PROVE  FALSE
        <2>1. CASE pc[b] \in Launched
            BY <1>3, <2>1 DEF Guarded, AloneInv, OneRun, RepoInv, ReposDistinct, InRepo
        <2>2. CASE pc[b] \in {"trip", "claim", "mark", "register"}
            BY <1>2, <1>3, <2>2 DEF RunsArePassedOver, RepoInv, ChoiceIsFree
        <2>3. CASE pc[b] \in {"recGet", "recRelease", "recCount", "recBlock"}
            BY <1>1, <1>3, <2>3 DEF GuardedAreRegistered, RepoInv, LostIsUnregistered
        <2> QED
            BY <1>3, <2>1, <2>2, <2>3 DEF Holding
    <1>4. OneHand
        <2> SUFFICES ASSUME NEW a \in Threads, NEW b \in Threads, a # b, pc[a] \in Holding,
                            pc[b] \in Holding, job[a] = job[b], Guarded(job[a])
                     PROVE  FALSE
            BY DEF OneHand
        <2>1. CASE pc[a] \in Launched
            BY <1>3, <2>1
        <2>2. CASE pc[b] \in Launched
            BY <1>3, <2>2
        <2>3. CASE pc[a] \notin Launched /\ pc[b] \notin Launched
            BY <2>3 DEF Holding, DecidingAlone
        <2> QED
            BY <2>1, <2>2, <2>3
    <1> QED
        BY <1>1, <1>2, <1>4 DEF OneRunPerTask, RepoInv

\* A guarded task is in the hands of one thread at most; while it is in those of a
\* run, that run is registered and no tick selects the task.
THEOREM OneRunPerTaskInvariant == Spec => []OneRunPerTask
    BY OneRunPerTaskHolds, TypeCorrect, OneTickDecides, RepoInvariant, AloneInvariant, PTL

-----------------------------------------------------------------------------
(* Claims, failures and what is handed over.                               *)

\* What each write of the store's wrapper leaves as it was.
LEMMA WritesLeave ==
    ASSUME TypeOK, NEW c \in Tasks, NEW who \in Claimants,
           \/ task' = [task EXCEPT ![c] = Started(@, who)]
           \/ task' = [task EXCEPT ![c] = Stopped(@)]
    PROVE  /\ \A d \in Tasks : /\ task'[d].afk = task[d].afk
                               /\ task'[d].needs_human = task[d].needs_human
                               /\ task'[d].failures = task[d].failures
           /\ \A d \in Tasks \ {c} : task'[d] = task[d]
    <1>1. task \in [Tasks -> TaskRecord(MaxFailures)]
        BY DEF TypeOK
    <1>2. CASE task' = [task EXCEPT ![c] = Started(@, who)]
        BY <1>1, <1>2 DEF TaskRecord, Started
    <1>3. CASE task' = [task EXCEPT ![c] = Stopped(@)]
        BY <1>1, <1>3 DEF TaskRecord, Stopped
    <1> QED
        BY <1>2, <1>3

\* A task that is closed has no claim, and is else as it was.
LEMMA DoneLetsGo ==
    ASSUME TypeOK, NEW c \in Tasks, task' = [task EXCEPT ![c] = Done(@)]
    PROVE  /\ task'[c].claim = "nobody"
           /\ \A d \in Tasks : /\ task'[d].afk = task[d].afk
                               /\ task'[d].needs_human = task[d].needs_human
                               /\ task'[d].failures = task[d].failures
           /\ \A d \in Tasks \ {c} : task'[d] = task[d]
    BY DEF TypeOK, TaskRecord, Done

\* Neither the process dies nor does a command fail.
Calm == MaxCrashes = 0 /\ MaxFaults = 0

\* A claim of pu's is open, and in the hands of a run that has yet to settle.
ClaimInHand == \A c \in Tasks : task[c].claim = "pu" =>
    /\ Pending(task[c])
    /\ \E th \in Threads : job[th] = c /\ pc[th] \in {"mark", "register", "run", "release", "yield", "done"}

\* Closing a task keeps the claims accounted for.
LEMMA ClaimInHandCloses ==
    ASSUME TypeOK, ClaimInHand, NEW c \in Tasks, task' = [task EXCEPT ![c] = Done(@)],
           UNCHANGED <<pc, job>>, \A th \in Threads : todo'[th] \subseteq todo[th]
    PROVE  ClaimInHand'
    <1>1. /\ task'[c].claim = "nobody"
          /\ \A d \in Tasks : /\ task'[d].afk = task[d].afk
                              /\ task'[d].needs_human = task[d].needs_human
                              /\ task'[d].failures = task[d].failures
          /\ \A d \in Tasks \ {c} : task'[d] = task[d]
        BY DoneLetsGo
    <1>2. \A th \in Threads : todo[th] \subseteq Tasks /\ (pc[th] \in HasJob => job[th] \in Tasks)
        BY DEF TypeOK
    <1> QED
        BY <1>1, <1>2, Locs DEF ClaimInHand, Pending

\* Every step keeps them so, while nothing crashes and no command fails.
LEMMA ClaimInHandStep ==
    ASSUME Calm, TypeOK, ClaimInHand, [Next]_vars
    PROVE  ClaimInHand'
    <1> USE Locs, PipelineAssumption
        DEF Calm, ClaimInHand, TypeOK, TaskRecord, Pending, store, files, locals, spent,
            Goto
    <1>1. ASSUME NEW th \in Threads, TickBegin(th)
          PROVE  ClaimInHand'
        BY <1>1 DEF TickBegin
    <1>2. ASSUME NEW th \in Threads, RecoverRead(th)
          PROVE  ClaimInHand'
        BY <1>2 DEF RecoverRead
    <1>3. ASSUME NEW th \in Threads, RecoverCheck(th)
          PROVE  ClaimInHand'
        BY <1>3 DEF RecoverCheck
    <1>4. ASSUME NEW th \in Threads, RecoverGet(th)
          PROVE  ClaimInHand'
        BY <1>4 DEF RecoverGet
    <1>5. ASSUME NEW th \in Threads, Gates(th)
          PROVE  ClaimInHand'
        BY <1>5 DEF Gates, Leave
    <1>6. ASSUME NEW th \in Threads, Emit(th)
          PROVE  ClaimInHand'
        BY <1>6 DEF Emit, Created, Absent, Created, Absent
    <1>7. ASSUME NEW th \in Threads, Sweep(th)
          PROVE  ClaimInHand'
        BY <1>7 DEF Sweep
    <1>8. ASSUME NEW th \in Threads, Expire(th)
          PROVE  ClaimInHand'
        <2>1. ASSUME NEW c \in Tasks, c \in todo[th], UNCHANGED <<pc, job>>,
                     task' = [task EXCEPT ![c] = Done(@)], todo' = [todo EXCEPT ![th] = @ \ {c}]
              PROVE  ClaimInHand'
            BY <1>8, <2>1, ClaimInHandCloses DEF Expire
        <2>2. CASE UNCHANGED task
            BY <1>8, <2>2 DEF Expire, Leave, Raise
        <2> QED
            BY <1>8, <2>1, <2>2 DEF Expire
    <1>9. ASSUME NEW th \in Threads, CheckCeiling(th)
          PROVE  ClaimInHand'
        BY <1>9 DEF CheckCeiling, Leave
    <1>10. ASSUME NEW th \in Threads, ReadQueue(th)
          PROVE  ClaimInHand'
        BY <1>10 DEF ReadQueue, Runnable
    <1>11. ASSUME NEW th \in Threads, Select(th)
          PROVE  ClaimInHand'
        <2>1. PICK c \in todo[th] :
                  /\ todo' = [todo EXCEPT ![th] = @ \ {c}]
                  /\ \/ UNCHANGED <<task, pc, job>>
                     \/ task' = [task EXCEPT ![c] = Blocked(@)] /\ UNCHANGED <<pc, job>>
                     \/ /\ \E to \in {"trip", "claim"} : pc' = [pc EXCEPT ![th] = to]
                        /\ job' = [job EXCEPT ![th] = c] /\ UNCHANGED task
            BY <1>11 DEF Select, Foremost
        <2>2. c \in Tasks /\ pc[th] = "select"
            BY <1>11 DEF Select
        <2>3. CASE UNCHANGED <<task, pc, job>>
            BY <1>11, <2>1, <2>2, <2>3 DEF Select
        <2>4. CASE task' = [task EXCEPT ![c] = Blocked(@)] /\ UNCHANGED <<pc, job>>
            BY <1>11, <2>1, <2>2, <2>4 DEF Select, Blocked
        <2>5. ASSUME NEW to \in {"trip", "claim"}, pc' = [pc EXCEPT ![th] = to],
                     job' = [job EXCEPT ![th] = c], UNCHANGED task
              PROVE  ClaimInHand'
            BY <1>11, <2>1, <2>2, <2>5 DEF Select
        <2> QED
            BY <2>1, <2>3, <2>4, <2>5
    <1>12. ASSUME NEW th \in Threads, NothingRunnable(th)
          PROVE  ClaimInHand'
        BY <1>12 DEF NothingRunnable, Leave
    <1>13. ASSUME NEW th \in Threads, Trip(th)
          PROVE  ClaimInHand'
        BY <1>13 DEF Trip, Leave, Blocked
    <1>14. ASSUME NEW th \in Threads, Claim(th)
          PROVE  ClaimInHand'
        <2>1. CASE StartAccepted(task[job[th]])
            BY <1>14, <2>1 DEF Claim, Started, StartAccepted, Active
        <2>2. CASE ~StartAccepted(task[job[th]])
            BY <1>14, <2>2 DEF Claim, Leave, Raise
        <2> QED
            BY <2>1, <2>2
    <1>15. ASSUME NEW th \in Threads, Mark(th)
          PROVE  ClaimInHand'
        BY <1>15 DEF Mark
    <1>16. ASSUME NEW th \in Threads, Register(th)
          PROVE  ClaimInHand'
        BY <1>16 DEF Register
    <1>17. ASSUME NEW th \in Threads, SessionEnds(th)
          PROVE  ClaimInHand'
        BY <1>17 DEF SessionEnds
    <1>18. ASSUME NEW th \in Threads, FailRelease(th)
          PROVE  ClaimInHand'
        <2>1. CASE StopAccepted(task[job[th]])
            BY <1>18, <2>1 DEF FailRelease, Here, Then, Stopped, StopAccepted
        <2>2. CASE ~StopAccepted(task[job[th]])
            BY <1>18, <2>2 DEF FailRelease, Here, Leave, Raise, StopAccepted, Active
        <2> QED
            BY <2>1, <2>2
    <1>19. ASSUME NEW th \in Threads, FailCount(th)
          PROVE  ClaimInHand'
        BY <1>19 DEF FailCount, Here, Then
    <1>20. ASSUME NEW th \in Threads, Block(th)
          PROVE  ClaimInHand'
        BY <1>20 DEF Block, Here, Then, Blocked
    <1>21. ASSUME NEW th \in Threads, Yield(th)
          PROVE  ClaimInHand'
        <2>1. CASE StopAccepted(task[job[th]])
            BY <1>21, <2>1 DEF Yield, Stopped, StopAccepted
        <2>2. CASE ~StopAccepted(task[job[th]])
            BY <1>21, <2>2 DEF Yield, Leave, Raise, StopAccepted, Active
        <2> QED
            BY <2>1, <2>2
    <1>22. ASSUME NEW th \in Threads, Complete(th)
          PROVE  ClaimInHand'
        BY <1>22 DEF Complete, Done, DoneAccepted
    <1>23. ASSUME NEW th \in Threads, Pop(th)
          PROVE  ClaimInHand'
        BY <1>23 DEF Pop
    <1>24. ASSUME NEW th \in Threads, Clear(th)
          PROVE  ClaimInHand'
        BY <1>24 DEF Clear
    <1>25. ASSUME NEW th \in Threads, Fault(th)
          PROVE  ClaimInHand'
        BY <1>25 DEF Fault, Leave, Raise, Settling
    <1>26. ASSUME NEW th \in Threads, MarkFails(th)
          PROVE  ClaimInHand'
        BY <1>26 DEF MarkFails
    <1>27. CASE Crash
        BY <1>27 DEF Crash
    <1>28. CASE Person
        <2>1. UNCHANGED <<pc, job, todo, running, lock, launches>>
            BY <1>28 DEF Person
        <2>2. CASE UNCHANGED task
            BY <2>1, <2>2
        <2>3. ASSUME NEW c \in Tasks, NEW power \in Powers, PersonWrites(c, power)
              PROVE  ClaimInHand'
            <3>1. CASE power = "claim"
                BY <2>1, <2>3, <3>1 DEF PersonWrites, Started, StartAccepted, Active
            <3>2. CASE power = "release"
                BY <2>1, <2>3, <3>2 DEF PersonWrites, Stopped, StopAccepted
            <3>3. CASE power = "close"
                BY <2>1, <2>3, <3>3, ClaimInHandCloses DEF PersonWrites
            <3>4. CASE power \in {"rearm", "take"}
                BY <2>1, <2>3, <3>4 DEF PersonWrites
            <3> QED
                BY <2>3, <3>1, <3>2, <3>3, <3>4 DEF PersonWrites
        <2> QED
            BY <1>28, <2>2, <2>3 DEF Person
    <1>29. CASE UNCHANGED vars
        BY <1>29 DEF vars
    <1> QED
        BY <1>1, <1>2, <1>3, <1>4, <1>5, <1>6, <1>7, <1>8, <1>9, <1>10,
           <1>11, <1>12, <1>13, <1>14, <1>15, <1>16, <1>17, <1>18, <1>19, <1>20,
           <1>21, <1>22, <1>23, <1>24, <1>25, <1>26, <1>27, <1>28, <1>29
        DEF Next, Step, Decide, Settle

\* While nothing crashes and nothing is refused, a claim of pu's is in the hands of
\* a run that has yet to settle.
THEOREM ClaimInHandInvariant ==
    ASSUME Calm
    PROVE  Spec => []ClaimInHand
    <1>1. Init => ClaimInHand
        BY Locs DEF Init, ClaimInHand, Created, Absent
    <1>2. TypeOK /\ ClaimInHand /\ [Next]_vars => ClaimInHand'
        BY ClaimInHandStep
    <1> QED
        BY <1>1, <1>2, TypeCorrect, PTL DEF Spec

\* What failed for the last time and may still be given to an agent is about to
\* be handed over.
GivingUp == \A c \in Tasks : task[c].afk /\ task[c].failures >= MaxFailures =>
    \E th \in Threads : job[th] = c /\ pc[th] \in {"block", "recBlock"}

\* Closing a task keeps what is given up given up.
LEMMA GivingUpCloses ==
    ASSUME TypeOK, GivingUp, NEW c \in Tasks, task' = [task EXCEPT ![c] = Done(@)],
           UNCHANGED <<pc, job>>, \A th \in Threads : todo'[th] \subseteq todo[th]
    PROVE  GivingUp'
    <1>1. /\ task'[c].claim = "nobody"
          /\ \A d \in Tasks : /\ task'[d].afk = task[d].afk
                              /\ task'[d].needs_human = task[d].needs_human
                              /\ task'[d].failures = task[d].failures
          /\ \A d \in Tasks \ {c} : task'[d] = task[d]
        BY DoneLetsGo
    <1>2. \A th \in Threads : todo[th] \subseteq Tasks /\ (pc[th] \in HasJob => job[th] \in Tasks)
        BY DEF TypeOK
    <1> QED
        BY <1>1, <1>2, Locs DEF GivingUp

\* Every step keeps them so, while nothing crashes and no command fails.
LEMMA GivingUpStep ==
    ASSUME Calm, "rearm" \notin Powers, TypeOK, GivingUp, [Next]_vars
    PROVE  GivingUp'
    <1> USE Locs, PipelineAssumption
        DEF Calm, GivingUp, TypeOK, TaskRecord, Pending, store, files, locals, spent, Goto
    <1>1. ASSUME NEW th \in Threads, TickBegin(th)
          PROVE  GivingUp'
        BY <1>1 DEF TickBegin
    <1>2. ASSUME NEW th \in Threads, RecoverRead(th)
          PROVE  GivingUp'
        BY <1>2 DEF RecoverRead
    <1>3. ASSUME NEW th \in Threads, RecoverCheck(th)
          PROVE  GivingUp'
        BY <1>3 DEF RecoverCheck
    <1>4. ASSUME NEW th \in Threads, RecoverGet(th)
          PROVE  GivingUp'
        BY <1>4 DEF RecoverGet
    <1>5. ASSUME NEW th \in Threads, Gates(th)
          PROVE  GivingUp'
        BY <1>5 DEF Gates, Leave
    <1>6. ASSUME NEW th \in Threads, Emit(th)
          PROVE  GivingUp'
        BY <1>6 DEF Emit, Created, Absent, Created, Absent
    <1>7. ASSUME NEW th \in Threads, Sweep(th)
          PROVE  GivingUp'
        BY <1>7 DEF Sweep
    <1>8. ASSUME NEW th \in Threads, Expire(th)
          PROVE  GivingUp'
        <2>1. ASSUME NEW c \in Tasks, c \in todo[th], UNCHANGED <<pc, job>>,
                     task' = [task EXCEPT ![c] = Done(@)], todo' = [todo EXCEPT ![th] = @ \ {c}]
              PROVE  GivingUp'
            BY <1>8, <2>1, GivingUpCloses DEF Expire
        <2>2. CASE UNCHANGED task
            BY <1>8, <2>2 DEF Expire, Leave, Raise
        <2> QED
            BY <1>8, <2>1, <2>2 DEF Expire
    <1>9. ASSUME NEW th \in Threads, CheckCeiling(th)
          PROVE  GivingUp'
        BY <1>9 DEF CheckCeiling, Leave
    <1>10. ASSUME NEW th \in Threads, ReadQueue(th)
          PROVE  GivingUp'
        BY <1>10 DEF ReadQueue, Runnable
    <1>11. ASSUME NEW th \in Threads, Select(th)
          PROVE  GivingUp'
        <2>1. PICK c \in todo[th] :
                  /\ todo' = [todo EXCEPT ![th] = @ \ {c}]
                  /\ \/ UNCHANGED <<task, pc, job>>
                     \/ task' = [task EXCEPT ![c] = Blocked(@)] /\ UNCHANGED <<pc, job>>
                     \/ /\ \E to \in {"trip", "claim"} : pc' = [pc EXCEPT ![th] = to]
                        /\ job' = [job EXCEPT ![th] = c] /\ UNCHANGED task
            BY <1>11 DEF Select, Foremost
        <2>2. c \in Tasks /\ pc[th] = "select"
            BY <1>11 DEF Select
        <2>3. CASE UNCHANGED <<task, pc, job>>
            BY <1>11, <2>1, <2>2, <2>3 DEF Select
        <2>4. CASE task' = [task EXCEPT ![c] = Blocked(@)] /\ UNCHANGED <<pc, job>>
            BY <1>11, <2>1, <2>2, <2>4 DEF Select, Blocked
        <2>5. ASSUME NEW to \in {"trip", "claim"}, pc' = [pc EXCEPT ![th] = to],
                     job' = [job EXCEPT ![th] = c], UNCHANGED task
              PROVE  GivingUp'
            BY <1>11, <2>1, <2>2, <2>5 DEF Select
        <2> QED
            BY <2>1, <2>3, <2>4, <2>5
    <1>12. ASSUME NEW th \in Threads, NothingRunnable(th)
          PROVE  GivingUp'
        BY <1>12 DEF NothingRunnable, Leave
    <1>13. ASSUME NEW th \in Threads, Trip(th)
          PROVE  GivingUp'
        BY <1>13 DEF Trip, Leave, Blocked
    <1>14. ASSUME NEW th \in Threads, Claim(th)
          PROVE  GivingUp'
        <2>1. CASE StartAccepted(task[job[th]])
            BY <1>14, <2>1 DEF Claim, Started, StartAccepted, Active
        <2>2. CASE ~StartAccepted(task[job[th]])
            BY <1>14, <2>2 DEF Claim, Leave, Raise
        <2> QED
            BY <2>1, <2>2
    <1>15. ASSUME NEW th \in Threads, Mark(th)
          PROVE  GivingUp'
        BY <1>15 DEF Mark
    <1>16. ASSUME NEW th \in Threads, Register(th)
          PROVE  GivingUp'
        BY <1>16 DEF Register
    <1>17. ASSUME NEW th \in Threads, SessionEnds(th)
          PROVE  GivingUp'
        BY <1>17 DEF SessionEnds
    <1>18. ASSUME NEW th \in Threads, FailRelease(th)
          PROVE  GivingUp'
        <2>1. CASE StopAccepted(task[job[th]])
            BY <1>18, <2>1 DEF FailRelease, Here, Then, Stopped, StopAccepted
        <2>2. CASE ~StopAccepted(task[job[th]])
            BY <1>18, <2>2 DEF FailRelease, Here, Leave, Raise, StopAccepted, Active
        <2> QED
            BY <2>1, <2>2
    <1>19. ASSUME NEW th \in Threads, FailCount(th)
          PROVE  GivingUp'
        BY <1>19 DEF FailCount, Here, Then
    <1>20. ASSUME NEW th \in Threads, Block(th)
          PROVE  GivingUp'
        BY <1>20 DEF Block, Here, Then, Blocked
    <1>21. ASSUME NEW th \in Threads, Yield(th)
          PROVE  GivingUp'
        <2>1. CASE StopAccepted(task[job[th]])
            BY <1>21, <2>1 DEF Yield, Stopped, StopAccepted
        <2>2. CASE ~StopAccepted(task[job[th]])
            BY <1>21, <2>2 DEF Yield, Leave, Raise, StopAccepted, Active
        <2> QED
            BY <2>1, <2>2
    <1>22. ASSUME NEW th \in Threads, Complete(th)
          PROVE  GivingUp'
        BY <1>22 DEF Complete, Done, DoneAccepted
    <1>23. ASSUME NEW th \in Threads, Pop(th)
          PROVE  GivingUp'
        BY <1>23 DEF Pop
    <1>24. ASSUME NEW th \in Threads, Clear(th)
          PROVE  GivingUp'
        BY <1>24 DEF Clear
    <1>25. ASSUME NEW th \in Threads, Fault(th)
          PROVE  GivingUp'
        BY <1>25 DEF Fault, Leave, Raise, Settling
    <1>26. ASSUME NEW th \in Threads, MarkFails(th)
          PROVE  GivingUp'
        BY <1>26 DEF MarkFails
    <1>27. CASE Crash
        BY <1>27 DEF Crash
    <1>28. CASE Person
        <2>1. UNCHANGED <<pc, job, todo, running, lock, launches>>
            BY <1>28 DEF Person
        <2>2. CASE UNCHANGED task
            BY <2>1, <2>2
        <2>3. ASSUME NEW c \in Tasks, NEW power \in Powers, PersonWrites(c, power)
              PROVE  GivingUp'
            <3>1. CASE power = "claim"
                BY <2>1, <2>3, <3>1 DEF PersonWrites, Started, StartAccepted, Active
            <3>2. CASE power = "release"
                BY <2>1, <2>3, <3>2 DEF PersonWrites, Stopped, StopAccepted
            <3>3. CASE power = "close"
                BY <2>1, <2>3, <3>3, GivingUpCloses DEF PersonWrites
            <3>4. CASE power \in {"rearm", "take"}
                BY <2>1, <2>3, <3>4 DEF PersonWrites
            <3> QED
                BY <2>3, <3>1, <3>2, <3>3, <3>4 DEF PersonWrites
        <2> QED
            BY <1>28, <2>2, <2>3 DEF Person
    <1>29. CASE UNCHANGED vars
        BY <1>29 DEF vars
    <1> QED
        BY <1>1, <1>2, <1>3, <1>4, <1>5, <1>6, <1>7, <1>8, <1>9, <1>10,
           <1>11, <1>12, <1>13, <1>14, <1>15, <1>16, <1>17, <1>18, <1>19, <1>20,
           <1>21, <1>22, <1>23, <1>24, <1>25, <1>26, <1>27, <1>28, <1>29
        DEF Next, Step, Decide, Settle

\* While nothing crashes and nothing is refused, a task with all its failures is
\* handed over, or being handed over.
THEOREM GivingUpInvariant ==
    ASSUME Calm, "rearm" \notin Powers
    PROVE  Spec => []GivingUp
    <1>1. Init => GivingUp
        BY PipelineAssumption DEF Init, GivingUp, Created, Absent
    <1>2. TypeOK /\ GivingUp /\ [Next]_vars => GivingUp'
        BY GivingUpStep
    <1> QED
        BY <1>1, <1>2, TypeCorrect, PTL DEF Spec

\* What is handed over is not for agents, and what has been chosen is not handed
\* over.
ChosenNotHanded ==
    /\ \A c \in Tasks : task[c].needs_human => ~task[c].afk
    /\ \A th \in Threads :
           pc[th] \in {"claim", "mark", "register", "run"} /\ Guarded(job[th])
               => ~task[job[th]].needs_human
    /\ \A th \in Threads : pc[th] = "select" =>
           \A c \in todo[th] :
               Guarded(c) /\ RepoOf[c] \notin busy[th] => ~task[c].needs_human

\* Closing a task hands nothing over.
LEMMA ChosenNotHandedCloses ==
    ASSUME TypeOK, ChosenNotHanded, NEW c \in Tasks, task' = [task EXCEPT ![c] = Done(@)],
           UNCHANGED <<pc, job, busy>>, \A th \in Threads : todo'[th] \subseteq todo[th]
    PROVE  ChosenNotHanded'
    <1>1. /\ task'[c].claim = "nobody"
          /\ \A d \in Tasks : /\ task'[d].afk = task[d].afk
                              /\ task'[d].needs_human = task[d].needs_human
                              /\ task'[d].failures = task[d].failures
          /\ \A d \in Tasks \ {c} : task'[d] = task[d]
        BY DoneLetsGo
    <1>2. \A th \in Threads : todo[th] \subseteq Tasks /\ (pc[th] \in HasJob => job[th] \in Tasks)
        BY DEF TypeOK
    <1> QED
        BY <1>1, <1>2, Locs DEF ChosenNotHanded

\* A claim hands nothing over.
LEMMA ChosenNotHandedClaims ==
    ASSUME TypeOK, ChosenNotHanded, NEW th \in Threads, pc[th] = "claim",
           task' = [task EXCEPT ![job[th]] = Started(@, "pu")],
           pc' = [pc EXCEPT ![th] = "mark"], UNCHANGED <<job, todo, busy>>
    PROVE  ChosenNotHanded'
    <1>1. job[th] \in Tasks /\ "pu" \in Claimants
        BY Locs DEF TypeOK, Claimants
    <1>2. \A d \in Tasks : /\ task'[d].afk = task[d].afk
                           /\ task'[d].needs_human = task[d].needs_human
        BY <1>1, WritesLeave
    <1>3. \A a \in Threads : todo[a] \subseteq Tasks /\ (pc[a] \in HasJob => job[a] \in Tasks)
        BY DEF TypeOK
    <1>4. pc \in [Threads -> Locations]
        BY DEF TypeOK
    <1>5. \A a \in Threads : pc'[a] \in {"claim", "mark", "register", "run"}
                               => pc[a] \in {"claim", "mark", "register", "run"}
        BY <1>4
    <1>6. \A a \in Threads : pc'[a] = "select" => pc[a] = "select"
        BY <1>4
    <1> QED
        BY <1>2, <1>3, <1>5, <1>6, Locs DEF ChosenNotHanded

\* Nor does a step that writes no tag and brings no thread to a task.
LEMMA ChosenNotHandedStays ==
    ASSUME TypeOK, ChosenNotHanded,
           \A d \in Tasks : task'[d].afk = task[d].afk /\ task'[d].needs_human = task[d].needs_human,
           \A a \in Threads : pc'[a] \in {"claim", "mark", "register", "run", "select"}
               => pc'[a] = pc[a] /\ job'[a] = job[a] /\ todo'[a] = todo[a] /\ busy'[a] = busy[a]
    PROVE  ChosenNotHanded'
    <1>1. \A a \in Threads : todo[a] \subseteq Tasks /\ (pc[a] \in HasJob => job[a] \in Tasks)
        BY DEF TypeOK
    <1> QED
        BY <1>1, Locs DEF ChosenNotHanded, Guarded

\* Every step keeps what is in hand unhanded.
LEMMA ChosenNotHandedStep ==
    ASSUME TypeOK, DecidingAlone, OneRunPerTask, ChosenNotHanded, [Next]_vars
    PROVE  ChosenNotHanded'
    <1> USE Locs, Selects, PipelineAssumption
        DEF ChosenNotHanded, TypeOK, TaskRecord, Pending, DecidingAlone, OneRunPerTask, OneHand,
            RunsArePassedOver, ChoiceIsFree, Holding, store, files, locals, spent, Goto
    <1>1. ASSUME NEW th \in Threads, TickBegin(th)
          PROVE  ChosenNotHanded'
        BY <1>1 DEF TickBegin
    <1>2. ASSUME NEW th \in Threads, RecoverRead(th)
          PROVE  ChosenNotHanded'
        BY <1>2 DEF RecoverRead
    <1>3. ASSUME NEW th \in Threads, RecoverCheck(th)
          PROVE  ChosenNotHanded'
        BY <1>3, ChosenNotHandedStays DEF RecoverCheck
    <1>4. ASSUME NEW th \in Threads, RecoverGet(th)
          PROVE  ChosenNotHanded'
        BY <1>4 DEF RecoverGet
    <1>5. ASSUME NEW th \in Threads, Gates(th)
          PROVE  ChosenNotHanded'
        BY <1>5, ChosenNotHandedStays DEF Gates, Leave
    <1>6. ASSUME NEW th \in Threads, Emit(th)
          PROVE  ChosenNotHanded'
        BY <1>6 DEF Emit, Created, Absent, Created, Absent
    <1>7. ASSUME NEW th \in Threads, Sweep(th)
          PROVE  ChosenNotHanded'
        BY <1>7 DEF Sweep
    <1>8. ASSUME NEW th \in Threads, Expire(th)
          PROVE  ChosenNotHanded'
        <2>1. ASSUME NEW c \in Tasks, c \in todo[th], UNCHANGED <<pc, job, busy>>,
                     task' = [task EXCEPT ![c] = Done(@)], todo' = [todo EXCEPT ![th] = @ \ {c}]
              PROVE  ChosenNotHanded'
            BY <1>8, <2>1, ChosenNotHandedCloses DEF Expire
        <2>2. CASE UNCHANGED task
            BY <1>8, <2>2 DEF Expire, Leave, Raise
        <2> QED
            BY <1>8, <2>1, <2>2 DEF Expire
    <1>9. ASSUME NEW th \in Threads, CheckCeiling(th)
          PROVE  ChosenNotHanded'
        <2>1. UNCHANGED task /\ pc'[th] \notin {"claim", "mark", "register", "run", "select"}
            BY <1>9 DEF CheckCeiling, Leave
        <2>2. \A a \in Threads \ {th} : /\ pc'[a] = pc[a] /\ job'[a] = job[a]
                                        /\ todo'[a] = todo[a] /\ busy'[a] = busy[a]
            BY <1>9 DEF CheckCeiling, Leave
        <2> QED
            BY <2>1, <2>2, ChosenNotHandedStays
    <1>10. ASSUME NEW th \in Threads, ReadQueue(th)
          PROVE  ChosenNotHanded'
        BY <1>10 DEF ReadQueue, Runnable
    <1>11. ASSUME NEW th \in Threads, Select(th)
          PROVE  ChosenNotHanded'
        <2>1. PICK c \in todo[th] :
                  /\ todo' = [todo EXCEPT ![th] = @ \ {c}]
                  /\ \/ UNCHANGED <<task, pc, job>>
                     \/ /\ RepoOf[c] \notin busy[th]
                        /\ task' = [task EXCEPT ![c] = Blocked(@)] /\ UNCHANGED <<pc, job>>
                     \/ /\ RepoOf[c] \notin busy[th]
                        /\ \E to \in {"trip", "claim"} : pc' = [pc EXCEPT ![th] = to]
                        /\ job' = [job EXCEPT ![th] = c] /\ UNCHANGED task
            BY <1>11 DEF Select, Foremost, PassedOver
        <2>2. c \in Tasks /\ pc[th] = "select" /\ UNCHANGED busy
            BY <1>11 DEF Select
        <2>3. CASE UNCHANGED <<task, pc, job>>
            BY <1>11, <2>1, <2>2, <2>3 DEF Select
        <2>4. CASE /\ RepoOf[c] \notin busy[th]
                   /\ task' = [task EXCEPT ![c] = Blocked(@)] /\ UNCHANGED <<pc, job>>
            <3>1. /\ ~task'[c].afk
                  /\ \A d \in Tasks \ {c} : task'[d] = task[d]
                BY <2>2, <2>4 DEF Blocked
            <3>2. ASSUME NEW a \in Threads, pc[a] \in {"claim", "mark", "register", "run"},
                         Guarded(job[a])
                  PROVE  job[a] # c
                BY <2>2, <2>4, <3>2
            <3>3. \A a \in Threads : pc[a] = "select" => a = th
                BY <2>2
            <3> QED
                BY <2>1, <2>2, <2>4, <3>1, <3>2, <3>3 DEF Guarded
        <2>5. ASSUME NEW to \in {"trip", "claim"}, RepoOf[c] \notin busy[th],
                     pc' = [pc EXCEPT ![th] = to],
                     job' = [job EXCEPT ![th] = c], UNCHANGED task
              PROVE  ChosenNotHanded'
            <3>1. Guarded(c) => ~task[c].needs_human
                BY <2>1, <2>2, <2>5
            <3>2. /\ pc'[th] # "select" /\ job'[th] = c
                  /\ \A a \in Threads \ {th} :
                        /\ pc'[a] = pc[a] /\ job'[a] = job[a]
                        /\ todo'[a] = todo[a] /\ busy'[a] = busy[a]
                BY <2>1, <2>2, <2>5
            <3> QED
                BY <2>2, <2>5, <3>1, <3>2 DEF Guarded
        <2> QED
            BY <2>1, <2>3, <2>4, <2>5
    <1>12. ASSUME NEW th \in Threads, NothingRunnable(th)
          PROVE  ChosenNotHanded'
        BY <1>12 DEF NothingRunnable, Leave
    <1>13. ASSUME NEW th \in Threads, Trip(th)
          PROVE  ChosenNotHanded'
        BY <1>13 DEF Trip, Leave, Blocked
    <1>14. ASSUME NEW th \in Threads, Claim(th)
          PROVE  ChosenNotHanded'
        <2>1. CASE StartAccepted(task[job[th]])
            BY <1>14, <2>1, ChosenNotHandedClaims DEF Claim
        <2>2. CASE ~StartAccepted(task[job[th]])
            BY <1>14, <2>2 DEF Claim, Leave, Raise
        <2> QED
            BY <2>1, <2>2
    <1>15. ASSUME NEW th \in Threads, Mark(th)
          PROVE  ChosenNotHanded'
        BY <1>15 DEF Mark
    <1>16. ASSUME NEW th \in Threads, Register(th)
          PROVE  ChosenNotHanded'
        BY <1>16 DEF Register
    <1>17. ASSUME NEW th \in Threads, SessionEnds(th)
          PROVE  ChosenNotHanded'
        BY <1>17 DEF SessionEnds
    <1>18. ASSUME NEW th \in Threads, FailRelease(th)
          PROVE  ChosenNotHanded'
        <2>1. CASE StopAccepted(task[job[th]])
            <3>1. /\ \A d \in Tasks : /\ task'[d].afk = task[d].afk
                                    /\ task'[d].needs_human = task[d].needs_human
                  /\ UNCHANGED <<job, todo, busy>>
                BY <1>18, <2>1, WritesLeave DEF FailRelease, Here, Claimants
            <3>2. \A a \in Threads : pc'[a] = pc[a] \/ pc'[a] \in {"count", "recCount"}
                BY <1>18, <2>1 DEF FailRelease, Then
            <3> QED
                BY <3>1, <3>2, ChosenNotHandedStays
        <2>2. CASE ~StopAccepted(task[job[th]])
            <3>1. Raise(th) /\ UNCHANGED task
                BY <1>18, <2>2 DEF FailRelease
            <3>2. \A a \in Threads : pc'[a] \in {"claim", "mark", "register", "run", "select"}
                      => /\ pc'[a] = pc[a] /\ job'[a] = job[a]
                         /\ todo'[a] = todo[a] /\ busy'[a] = busy[a]
                BY <3>1 DEF Raise, Leave
            <3> QED
                BY <3>1, <3>2, ChosenNotHandedStays
        <2> QED
            BY <2>1, <2>2
    <1>19. ASSUME NEW th \in Threads, FailCount(th)
          PROVE  ChosenNotHanded'
        BY <1>19 DEF FailCount, Here, Then
    <1>20. ASSUME NEW th \in Threads, Block(th)
          PROVE  ChosenNotHanded'
        BY <1>20 DEF Block, Here, Then, Blocked
    <1>21. ASSUME NEW th \in Threads, Yield(th)
          PROVE  ChosenNotHanded'
        <2>1. CASE StopAccepted(task[job[th]])
            <3>1. /\ \A d \in Tasks : /\ task'[d].afk = task[d].afk
                                    /\ task'[d].needs_human = task[d].needs_human
                  /\ UNCHANGED <<job, todo, busy>>
                BY <1>21, <2>1, WritesLeave DEF Yield, Claimants
            <3>2. \A a \in Threads : pc'[a] = pc[a] \/ pc'[a] = "block"
                BY <1>21, <2>1 DEF Yield
            <3> QED
                BY <3>1, <3>2, ChosenNotHandedStays
        <2>2. CASE ~StopAccepted(task[job[th]])
            <3>1. Raise(th) /\ UNCHANGED task
                BY <1>21, <2>2 DEF Yield
            <3>2. \A a \in Threads : pc'[a] \in {"claim", "mark", "register", "run", "select"}
                      => /\ pc'[a] = pc[a] /\ job'[a] = job[a]
                         /\ todo'[a] = todo[a] /\ busy'[a] = busy[a]
                BY <3>1 DEF Raise, Leave
            <3> QED
                BY <3>1, <3>2, ChosenNotHandedStays
        <2> QED
            BY <2>1, <2>2
    <1>22. ASSUME NEW th \in Threads, Complete(th)
          PROVE  ChosenNotHanded'
        BY <1>22 DEF Complete, Done, DoneAccepted
    <1>23. ASSUME NEW th \in Threads, Pop(th)
          PROVE  ChosenNotHanded'
        BY <1>23 DEF Pop
    <1>24. ASSUME NEW th \in Threads, Clear(th)
          PROVE  ChosenNotHanded'
        BY <1>24 DEF Clear
    <1>25. ASSUME NEW th \in Threads, Fault(th)
          PROVE  ChosenNotHanded'
        BY <1>25 DEF Fault, Leave, Raise, Settling
    <1>26. ASSUME NEW th \in Threads, MarkFails(th)
          PROVE  ChosenNotHanded'
        BY <1>26 DEF MarkFails
    <1>27. CASE Crash
        BY <1>27 DEF Crash
    <1>28. CASE Person
        <2>1. UNCHANGED <<pc, job, todo, busy, running, lock, launches>>
            BY <1>28 DEF Person
        <2>2. CASE UNCHANGED task
            BY <2>1, <2>2
        <2>3. ASSUME NEW c \in Tasks, NEW power \in Powers, PersonWrites(c, power)
              PROVE  ChosenNotHanded'
            <3>1. CASE power = "claim"
                BY <2>1, <2>3, <3>1, WritesLeave DEF PersonWrites, Claimants
            <3>2. CASE power = "release"
                BY <2>1, <2>3, <3>2, WritesLeave DEF PersonWrites, Claimants
            <3>3. CASE power = "close"
                BY <2>1, <2>3, <3>3, ChosenNotHandedCloses DEF PersonWrites
            <3>4. CASE power = "rearm"
                <4>1. /\ ~task'[c].needs_human
                      /\ \A d \in Tasks \ {c} : task'[d] = task[d]
                    BY <2>3, <3>4 DEF PersonWrites
                <4> QED
                    BY <2>1, <4>1
            <3>5. CASE power = "take"
                <4>1. /\ ~task'[c].afk /\ task'[c].needs_human = task[c].needs_human
                      /\ \A d \in Tasks \ {c} : task'[d] = task[d]
                    BY <2>3, <3>5 DEF PersonWrites
                <4> QED
                    BY <2>1, <4>1
            <3> QED
                BY <2>3, <3>1, <3>2, <3>3, <3>4, <3>5 DEF PersonWrites
        <2> QED
            BY <1>28, <2>2, <2>3 DEF Person
    <1>29. CASE UNCHANGED vars
        BY <1>29 DEF vars
    <1> QED
        BY <1>1, <1>2, <1>3, <1>4, <1>5, <1>6, <1>7, <1>8, <1>9, <1>10,
           <1>11, <1>12, <1>13, <1>14, <1>15, <1>16, <1>17, <1>18, <1>19, <1>20,
           <1>21, <1>22, <1>23, <1>24, <1>25, <1>26, <1>27, <1>28, <1>29
        DEF Next, Step, Decide, Settle

\* A guarded task in a session was not handed over when it was chosen and has not
\* been since.
THEOREM ChosenNotHandedInvariant == Spec => []ChosenNotHanded
    <1>1. Init => ChosenNotHanded
        BY Locs DEF Init, ChosenNotHanded, Created, Absent
    <1> QED
        BY <1>1, ChosenNotHandedStep, TypeCorrect, OneTickDecides, OneRunPerTaskInvariant, PTL
        DEF Spec

Counting(c) == \E th \in Threads : pc[th] \in {"count", "recCount"} /\ job[th] = c

\* A claim of pu's, and a run that is about to be charged, each have a launch
\* that has not been charged yet; and a task has never both.
ChargesOpen == \A c \in Tasks : Guarded(c) =>
    /\ task[c].claim # "person"
    /\ task[c].failures <= launches[c]
    /\ (task[c].claim = "pu" \/ Counting(c)) => task[c].failures < launches[c]
    /\ task[c].claim = "pu" => ~Counting(c)

\* Closing a task charges nothing and opens no charge.
LEMMA ChargesOpenCloses ==
    ASSUME TypeOK, ChargesOpen, NEW c \in Tasks, task' = [task EXCEPT ![c] = Done(@)],
           UNCHANGED <<pc, job, launches>>
    PROVE  ChargesOpen'
    <1>1. /\ task'[c].claim = "nobody"
          /\ \A d \in Tasks : task'[d].failures = task[d].failures
          /\ \A d \in Tasks \ {c} : task'[d] = task[d]
        BY DoneLetsGo
    <1>2. \A d \in Tasks : Counting(d)' <=> Counting(d)
        BY DEF Counting
    <1> QED
        BY <1>1, <1>2 DEF ChargesOpen

\* Every step keeps a charge that is open to the one run it is for.
LEMMA ChargesOpenStep ==
    ASSUME "claim" \notin Powers, TypeOK, DecidingAlone, OneRunPerTask, ChargesOpen, [Next]_vars
    PROVE  ChargesOpen'
    <1> USE Locs, Selects, PipelineAssumption
        DEF ChargesOpen, Counting, TypeOK, TaskRecord, Pending, DecidingAlone, OneRunPerTask,
            OneHand, RunsArePassedOver, ChoiceIsFree, Holding, store, files, locals, spent, Goto
    <1>1. ASSUME NEW th \in Threads, TickBegin(th)
          PROVE  ChargesOpen'
        BY <1>1 DEF TickBegin
    <1>2. ASSUME NEW th \in Threads, RecoverRead(th)
          PROVE  ChargesOpen'
        BY <1>2 DEF RecoverRead
    <1>3. ASSUME NEW th \in Threads, RecoverCheck(th)
          PROVE  ChargesOpen'
        BY <1>3 DEF RecoverCheck
    <1>4. ASSUME NEW th \in Threads, RecoverGet(th)
          PROVE  ChargesOpen'
        BY <1>4 DEF RecoverGet
    <1>5. ASSUME NEW th \in Threads, Gates(th)
          PROVE  ChargesOpen'
        BY <1>5 DEF Gates, Leave
    <1>6. ASSUME NEW th \in Threads, Emit(th)
          PROVE  ChargesOpen'
        BY <1>6 DEF Emit, Created, Absent, Created, Absent
    <1>7. ASSUME NEW th \in Threads, Sweep(th)
          PROVE  ChargesOpen'
        BY <1>7 DEF Sweep
    <1>8. ASSUME NEW th \in Threads, Expire(th)
          PROVE  ChargesOpen'
        <2>1. ASSUME NEW c \in Tasks, c \in todo[th], UNCHANGED <<pc, job>>,
                     task' = [task EXCEPT ![c] = Done(@)], todo' = [todo EXCEPT ![th] = @ \ {c}]
              PROVE  ChargesOpen'
            BY <1>8, <2>1, ChargesOpenCloses DEF Expire
        <2>2. CASE UNCHANGED task
            BY <1>8, <2>2 DEF Expire, Leave, Raise
        <2> QED
            BY <1>8, <2>1, <2>2 DEF Expire
    <1>9. ASSUME NEW th \in Threads, CheckCeiling(th)
          PROVE  ChargesOpen'
        BY <1>9 DEF CheckCeiling, Leave
    <1>10. ASSUME NEW th \in Threads, ReadQueue(th)
          PROVE  ChargesOpen'
        BY <1>10 DEF ReadQueue, Runnable
    <1>11. ASSUME NEW th \in Threads, Select(th)
          PROVE  ChargesOpen'
        <2>1. PICK c \in todo[th] :
                  /\ todo' = [todo EXCEPT ![th] = @ \ {c}]
                  /\ \/ UNCHANGED <<task, pc, job>>
                     \/ task' = [task EXCEPT ![c] = Blocked(@)] /\ UNCHANGED <<pc, job>>
                     \/ /\ \E to \in {"trip", "claim"} : pc' = [pc EXCEPT ![th] = to]
                        /\ job' = [job EXCEPT ![th] = c] /\ UNCHANGED task
            BY <1>11 DEF Select, Foremost
        <2>2. c \in Tasks /\ pc[th] = "select"
            BY <1>11 DEF Select
        <2>3. CASE UNCHANGED <<task, pc, job>>
            BY <1>11, <2>1, <2>2, <2>3 DEF Select
        <2>4. CASE task' = [task EXCEPT ![c] = Blocked(@)] /\ UNCHANGED <<pc, job>>
            BY <1>11, <2>1, <2>2, <2>4 DEF Select, Blocked
        <2>5. ASSUME NEW to \in {"trip", "claim"}, pc' = [pc EXCEPT ![th] = to],
                     job' = [job EXCEPT ![th] = c], UNCHANGED task
              PROVE  ChargesOpen'
            BY <1>11, <2>1, <2>2, <2>5 DEF Select
        <2> QED
            BY <2>1, <2>3, <2>4, <2>5
    <1>12. ASSUME NEW th \in Threads, NothingRunnable(th)
          PROVE  ChargesOpen'
        BY <1>12 DEF NothingRunnable, Leave
    <1>13. ASSUME NEW th \in Threads, Trip(th)
          PROVE  ChargesOpen'
        BY <1>13 DEF Trip, Leave, Blocked
    <1>14. ASSUME NEW th \in Threads, Claim(th)
          PROVE  ChargesOpen'
        <2>1. CASE StartAccepted(task[job[th]])
            BY <1>14, <2>1 DEF Claim, Started, StartAccepted, Active
        <2>2. CASE ~StartAccepted(task[job[th]])
            BY <1>14, <2>2 DEF Claim, Leave, Raise
        <2> QED
            BY <2>1, <2>2
    <1>15. ASSUME NEW th \in Threads, Mark(th)
          PROVE  ChargesOpen'
        BY <1>15 DEF Mark
    <1>16. ASSUME NEW th \in Threads, Register(th)
          PROVE  ChargesOpen'
        BY <1>16 DEF Register
    <1>17. ASSUME NEW th \in Threads, SessionEnds(th)
          PROVE  ChargesOpen'
        BY <1>17 DEF SessionEnds
    <1>18. ASSUME NEW th \in Threads, FailRelease(th)
          PROVE  ChargesOpen'
        <2>1. CASE StopAccepted(task[job[th]])
            <3>1. /\ job[th] \in Tasks
                  /\ task' = [task EXCEPT ![job[th]] = Stopped(@)]
                  /\ UNCHANGED <<job, launches>>
                BY <1>18, <2>1 DEF FailRelease, Here
            <3>2. \A d \in Tasks \ {job[th]} : Counting(d)' => Counting(d)
                BY <1>18, <2>1, <3>1 DEF FailRelease, Here, Then
            <3>3. Guarded(job[th]) => task[job[th]].claim = "pu"
                BY <2>1, <3>1 DEF StopAccepted, Active, Claimants
            <3>4. task'[job[th]].claim = "nobody"
                BY <3>1 DEF Stopped
            <3>5. "nobody" \in Claimants
                BY DEF Claimants
            <3>6. \A d \in Tasks : task'[d].failures = task[d].failures
                BY <3>1, <3>5, WritesLeave
            <3>7. \A d \in Tasks \ {job[th]} : task'[d] = task[d]
                BY <3>1, <3>5, WritesLeave
            <3> QED
                BY <3>1, <3>2, <3>3, <3>4, <3>6, <3>7
        <2>2. CASE ~StopAccepted(task[job[th]])
            BY <1>18, <2>2 DEF FailRelease, Here, Leave, Raise, StopAccepted, Active
        <2> QED
            BY <2>1, <2>2
    <1>19. ASSUME NEW th \in Threads, FailCount(th)
          PROVE  ChargesOpen'
        BY <1>19 DEF FailCount, Here, Then
    <1>20. ASSUME NEW th \in Threads, Block(th)
          PROVE  ChargesOpen'
        BY <1>20 DEF Block, Here, Then, Blocked
    <1>21. ASSUME NEW th \in Threads, Yield(th)
          PROVE  ChargesOpen'
        <2>1. CASE StopAccepted(task[job[th]])
            BY <1>21, <2>1 DEF Yield, Stopped, StopAccepted
        <2>2. CASE ~StopAccepted(task[job[th]])
            BY <1>21, <2>2 DEF Yield, Leave, Raise, StopAccepted, Active
        <2> QED
            BY <2>1, <2>2
    <1>22. ASSUME NEW th \in Threads, Complete(th)
          PROVE  ChargesOpen'
        BY <1>22 DEF Complete, Done, DoneAccepted
    <1>23. ASSUME NEW th \in Threads, Pop(th)
          PROVE  ChargesOpen'
        BY <1>23 DEF Pop
    <1>24. ASSUME NEW th \in Threads, Clear(th)
          PROVE  ChargesOpen'
        BY <1>24 DEF Clear
    <1>25. ASSUME NEW th \in Threads, Fault(th)
          PROVE  ChargesOpen'
        <2>1. \A c \in Tasks : Counting(c)' => Counting(c)
            BY <1>25 DEF Fault, Leave, Raise, Settling
        <2>2. UNCHANGED <<task, launches>>
            BY <1>25 DEF Fault
        <2> QED
            BY <2>1, <2>2
    <1>26. ASSUME NEW th \in Threads, MarkFails(th)
          PROVE  ChargesOpen'
        BY <1>26 DEF MarkFails
    <1>27. CASE Crash
        BY <1>27 DEF Crash
    <1>28. CASE Person
        <2>1. UNCHANGED <<pc, job, todo, running, lock, launches>>
            BY <1>28 DEF Person
        <2>2. CASE UNCHANGED task
            BY <2>1, <2>2
        <2>3. ASSUME NEW c \in Tasks, NEW power \in Powers, PersonWrites(c, power)
              PROVE  ChargesOpen'
            <3>1. CASE power = "claim"
                BY <2>1, <2>3, <3>1 DEF PersonWrites, Started, StartAccepted, Active
            <3>2. CASE power = "release"
                BY <2>1, <2>3, <3>2 DEF PersonWrites, Stopped, StopAccepted
            <3>3. CASE power = "close"
                BY <2>1, <2>3, <3>3, ChargesOpenCloses DEF PersonWrites
            <3>4. CASE power \in {"rearm", "take"}
                BY <2>1, <2>3, <3>4 DEF PersonWrites
            <3> QED
                BY <2>3, <3>1, <3>2, <3>3, <3>4 DEF PersonWrites
        <2> QED
            BY <1>28, <2>2, <2>3 DEF Person
    <1>29. CASE UNCHANGED vars
        BY <1>29 DEF vars
    <1> QED
        BY <1>1, <1>2, <1>3, <1>4, <1>5, <1>6, <1>7, <1>8, <1>9, <1>10,
           <1>11, <1>12, <1>13, <1>14, <1>15, <1>16, <1>17, <1>18, <1>19, <1>20,
           <1>21, <1>22, <1>23, <1>24, <1>25, <1>26, <1>27, <1>28, <1>29
        DEF Next, Step, Decide, Settle

\* A failure of a guarded task that is still to be charged has a launch of its own.
THEOREM ChargesOpenInvariant ==
    ASSUME "claim" \notin Powers
    PROVE  Spec => []ChargesOpen
    <1>1. Init => ChargesOpen
        BY Locs DEF Init, ChargesOpen, Counting, Created, Absent
    <1>2. TypeOK /\ DecidingAlone /\ OneRunPerTask /\ ChargesOpen /\ [Next]_vars
              => ChargesOpen'
        BY ChargesOpenStep
    <1> QED
        BY <1>1, <1>2, TypeCorrect, OneTickDecides, OneRunPerTaskInvariant, PTL DEF Spec

-----------------------------------------------------------------------------
(* What the store says of a task in hand, when only pu writes it.          *)

\* Only pu writes the store, a task has one run at a time, and no command fails.
Undisturbed == (\A c \in Tasks : Guarded(c)) /\ Powers = {} /\ MaxFaults = 0

\* What the store says of a task, by where the thread is that has it in hand.
ClaimsAreOpen == \A c \in Tasks : Active(task[c]) => Pending(task[c]) /\ task[c].afk

HandsMatch ==
    \A th \in Threads :
        /\ pc[th] \in {"mark", "register", "run", "release", "yield", "done"}
               => Pending(task[job[th]]) /\ Active(task[job[th]])
        /\ pc[th] \in {"count", "block", "pop", "recCount", "recBlock"} => ~Active(task[job[th]])
        /\ pc[th] \in {"count", "block", "pop"} => task[job[th]].status # "absent"
        /\ pc[th] = "recCount" => Pending(task[job[th]]) /\ task[job[th]].afk
        /\ pc[th] = "recBlock"
               => Pending(task[job[th]]) /\ task[job[th]].failures = MaxFailures
        /\ pc[th] = "pop" /\ Pending(task[job[th]]) /\ task[job[th]].afk
               => task[job[th]].failures \in 1..(MaxFailures - 1)

ListsMatch ==
    \A th \in Threads :
        /\ pc[th] \in {"trip", "claim"} => Runnable(task[job[th]])
        /\ pc[th] = "select" =>
               \A c \in todo[th] : RepoOf[c] \notin busy[th] => Runnable(task[c])
        /\ pc[th] = "expire" => \A c \in todo[th] : ~Active(task[c])

StoreMatches == ClaimsAreOpen /\ HandsMatch /\ ListsMatch

\* What a write changes of the task it writes.
LEMMA WritesChange ==
    ASSUME TypeOK, NEW c \in Tasks, NEW who \in Claimants
    PROVE  /\ task' = [task EXCEPT ![c] = Started(@, who)]
                  => task'[c].status = task[c].status /\ task'[c].claim = who
           /\ task' = [task EXCEPT ![c] = Stopped(@)]
                  => task'[c].status = task[c].status /\ task'[c].claim = "nobody"
           /\ task' = [task EXCEPT ![c] = Done(@)]
                  => task'[c].status = "completed" /\ task'[c].claim = "nobody"
           /\ task' = [task EXCEPT ![c] = Blocked(@)]
                  => /\ task'[c].status = task[c].status /\ task'[c].claim = task[c].claim
                     /\ ~task'[c].afk /\ task'[c].failures = task[c].failures
                     /\ \A d \in Tasks \ {c} : task'[d] = task[d]
    <1>1. task[c] \in TaskRecord(MaxFailures) /\ task \in [Tasks -> TaskRecord(MaxFailures)]
        BY DEF TypeOK
    <1>2. task' = [task EXCEPT ![c] = Started(@, who)]
              => task'[c].status = task[c].status /\ task'[c].claim = who
        BY <1>1 DEF TaskRecord, Started
    <1>3. task' = [task EXCEPT ![c] = Stopped(@)]
              => task'[c].status = task[c].status /\ task'[c].claim = "nobody"
        BY <1>1 DEF TaskRecord, Stopped
    <1>4. task' = [task EXCEPT ![c] = Done(@)]
              => task'[c].status = "completed" /\ task'[c].claim = "nobody"
        BY <1>1 DEF TaskRecord, Done
    <1>5. task' = [task EXCEPT ![c] = Blocked(@)]
              => /\ task'[c].status = task[c].status /\ task'[c].claim = task[c].claim
                 /\ ~task'[c].afk /\ task'[c].failures = task[c].failures
                 /\ \A d \in Tasks \ {c} : task'[d] = task[d]
        BY <1>1 DEF TaskRecord, Blocked
    <1> QED
        BY <1>2, <1>3, <1>4, <1>5

\* What _fail makes of the count it finds.
LEMMA CountUp ==
    ASSUME NEW f \in 0..MaxFailures,
           NEW n, n = IF f < MaxFailures THEN f + 1 ELSE f
    PROVE  /\ n \in 1..MaxFailures
           /\ n >= MaxFailures => n = MaxFailures
           /\ ~(n >= MaxFailures) => n \in 1..(MaxFailures - 1) /\ n = f + 1
    BY PipelineAssumption

\* Every step of an undisturbed unit keeps the store in agreement with the threads.
LEMMA StoreMatchesStep ==
    ASSUME Undisturbed, TypeOK, DecidingAlone, OneRunPerTask, StoreMatches, [Next]_vars
    PROVE  StoreMatches'
    <1> USE Locs, Selects, PipelineAssumption
        DEF Undisturbed, StoreMatches, ClaimsAreOpen, HandsMatch, ListsMatch, TypeOK,
            TaskRecord, Pending, Active, Runnable, DecidingAlone, OneRunPerTask, OneHand,
            RunsArePassedOver, ChoiceIsFree, Holding, store, files, locals, spent, Goto
    <1>1. ASSUME NEW th \in Threads, TickBegin(th)
          PROVE  StoreMatches'
        BY <1>1 DEF TickBegin
    <1>2. ASSUME NEW th \in Threads, RecoverRead(th)
          PROVE  StoreMatches'
        BY <1>2 DEF RecoverRead
    <1>3. ASSUME NEW th \in Threads, RecoverCheck(th)
          PROVE  StoreMatches'
        BY <1>3 DEF RecoverCheck
    <1>4. ASSUME NEW th \in Threads, RecoverGet(th)
          PROVE  StoreMatches'
        BY <1>4 DEF RecoverGet
    <1>5. ASSUME NEW th \in Threads, Gates(th)
          PROVE  StoreMatches'
        BY <1>5 DEF Gates, Leave
    <1>6. ASSUME NEW th \in Threads, Emit(th)
          PROVE  StoreMatches'
        <2>1. PICK new \in SUBSET {c \in Tasks : task[c] = Absent} :
                  task' = [c \in Tasks |-> IF c \in new THEN Created ELSE task[c]]
            BY <1>6 DEF Emit
        <2>2. /\ pc' = [pc EXCEPT ![th] = "sweep"] /\ UNCHANGED <<job, todo, busy, lock>>
              /\ pc[th] = "emit"
            BY <1>6 DEF Emit
        <2>3. \A c \in Tasks : task'[c] = task[c] \/ task[c].status = "absent"
            BY <2>1 DEF Absent
        <2>4. \A c \in Tasks : task'[c] = task[c] \/ task'[c].claim = "nobody"
            BY <2>1 DEF Created
        <2>5. ClaimsAreOpen'
            BY <2>3, <2>4
        <2>6. HandsMatch'
            BY <2>2, <2>3, <2>4
        <2>7. ListsMatch'
            BY <2>2, <2>3, <2>4
        <2> QED
            BY <2>5, <2>6, <2>7
    <1>7. ASSUME NEW th \in Threads, Sweep(th)
          PROVE  StoreMatches'
        BY <1>7 DEF Sweep
    <1>8. ASSUME NEW th \in Threads, Expire(th)
          PROVE  StoreMatches'
        <2>1. ASSUME NEW c \in todo[th], UNCHANGED <<pc, job, busy>>, pc[th] = "expire",
                     task' = [task EXCEPT ![c] = Done(@)], todo' = [todo EXCEPT ![th] = @ \ {c}]
              PROVE  StoreMatches'
            <3>1. c \in Tasks /\ ~Active(task[c])
                BY <2>1
            <3>2. /\ task'[c].status = "completed" /\ task'[c].claim = "nobody"
                  /\ \A d \in Tasks \ {c} : task'[d] = task[d]
                BY <2>1, <3>1, DoneLetsGo, WritesChange DEF Claimants
            <3>3. ClaimsAreOpen'
                BY <3>1, <3>2
            <3>4. HandsMatch'
                BY <2>1, <3>1, <3>2
            <3>5. ListsMatch'
                BY <2>1, <3>1, <3>2
            <3> QED
                BY <3>3, <3>4, <3>5
        <2>2. CASE UNCHANGED task
            BY <1>8, <2>2 DEF Expire, Leave, Raise
        <2>3. pc[th] = "expire"
            BY <1>8 DEF Expire
        <2> QED
            BY <1>8, <2>1, <2>2, <2>3 DEF Expire
    <1>9. ASSUME NEW th \in Threads, CheckCeiling(th)
          PROVE  StoreMatches'
        BY <1>9 DEF CheckCeiling, Leave
    <1>10. ASSUME NEW th \in Threads, ReadQueue(th)
          PROVE  StoreMatches'
        BY <1>10 DEF ReadQueue, Runnable
    <1>11. ASSUME NEW th \in Threads, Select(th)
          PROVE  StoreMatches'
        <2>1. PICK c \in todo[th] :
                  /\ todo' = [todo EXCEPT ![th] = @ \ {c}]
                  /\ \/ UNCHANGED <<task, pc, job>>
                     \/ /\ RepoOf[c] \notin busy[th]
                        /\ task' = [task EXCEPT ![c] = Blocked(@)] /\ UNCHANGED <<pc, job>>
                     \/ /\ RepoOf[c] \notin busy[th]
                        /\ \E to \in {"trip", "claim"} : pc' = [pc EXCEPT ![th] = to]
                        /\ job' = [job EXCEPT ![th] = c] /\ UNCHANGED task
            BY <1>11 DEF Select, Foremost, PassedOver
        <2>2. c \in Tasks /\ pc[th] = "select" /\ UNCHANGED busy
            BY <1>11 DEF Select
        <2>3. CASE UNCHANGED <<task, pc, job>>
            BY <1>11, <2>1, <2>2, <2>3 DEF Select
        <2>4. CASE /\ RepoOf[c] \notin busy[th]
                   /\ task' = [task EXCEPT ![c] = Blocked(@)] /\ UNCHANGED <<pc, job>>
            <3>1. /\ task'[c].status = task[c].status /\ task'[c].claim = task[c].claim
                  /\ \A d \in Tasks \ {c} : task'[d] = task[d]
                BY <2>2, <2>4, WritesChange DEF Claimants
            <3>2. Runnable(task[c])
                BY <2>1, <2>2, <2>4
            <3>3. \A a \in Threads :
                      /\ pc[a] \in {"trip", "claim", "mark", "register", "recCount", "recBlock"}
                             => a = th
                      /\ pc[a] \in Launched => job[a] # c
                BY <2>2, <2>4
            <3>4. ClaimsAreOpen'
                BY <3>1, <3>2
            <3>5. HandsMatch'
                BY <2>2, <2>4, <3>1, <3>3
            <3>6. ListsMatch'
                BY <2>1, <2>2, <2>4, <3>1, <3>3
            <3> QED
                BY <3>4, <3>5, <3>6
        <2>5. ASSUME NEW to \in {"trip", "claim"}, RepoOf[c] \notin busy[th],
                     pc' = [pc EXCEPT ![th] = to],
                     job' = [job EXCEPT ![th] = c], UNCHANGED task
              PROVE  StoreMatches'
            <3>1. Runnable(task[c])
                BY <2>1, <2>2, <2>5
            <3>2. /\ pc'[th] = to /\ job'[th] = c
                  /\ \A a \in Threads \ {th} :
                        /\ pc'[a] = pc[a] /\ job'[a] = job[a]
                        /\ todo'[a] = todo[a] /\ busy'[a] = busy[a]
                BY <2>1, <2>2, <2>5
            <3> QED
                BY <2>5, <3>1, <3>2
        <2> QED
            BY <2>1, <2>3, <2>4, <2>5
    <1>12. ASSUME NEW th \in Threads, NothingRunnable(th)
          PROVE  StoreMatches'
        BY <1>12 DEF NothingRunnable, Leave
    <1>13. ASSUME NEW th \in Threads, Trip(th)
          PROVE  StoreMatches'
        BY <1>13 DEF Trip, Leave, Blocked
    <1>14. ASSUME NEW th \in Threads, Claim(th)
          PROVE  StoreMatches'
        <2>1. CASE StartAccepted(task[job[th]])
            <3>1. /\ task' = [task EXCEPT ![job[th]] = Started(@, "pu")]
                  /\ pc[th] = "claim" /\ pc' = [pc EXCEPT ![th] = "mark"]
                  /\ UNCHANGED <<job, todo, busy>> /\ job[th] \in Tasks
                BY <1>14, <2>1 DEF Claim
            <3>2. /\ task'[job[th]].status = task[job[th]].status
                  /\ task'[job[th]].claim = "pu"
                BY <3>1, WritesChange DEF Claimants
            <3>3. /\ task'[job[th]].afk = task[job[th]].afk
                  /\ \A d \in Tasks \ {job[th]} : task'[d] = task[d]
                BY <3>1, WritesLeave DEF Claimants
            <3>4. ClaimsAreOpen'
                BY <2>1, <3>1, <3>2, <3>3 DEF StartAccepted, StopAccepted
            <3>5. HandsMatch'
                BY <2>1, <3>1, <3>2, <3>3 DEF StartAccepted, StopAccepted
            <3>6. ListsMatch'
                BY <2>1, <3>1, <3>2, <3>3 DEF StartAccepted, StopAccepted
            <3> QED
                BY <3>4, <3>5, <3>6
        <2>2. CASE ~StartAccepted(task[job[th]])
            BY <1>14, <2>2 DEF Claim, Here, Leave, Raise, StartAccepted
        <2> QED
            BY <2>1, <2>2
    <1>15. ASSUME NEW th \in Threads, Mark(th)
          PROVE  StoreMatches'
        BY <1>15 DEF Mark
    <1>16. ASSUME NEW th \in Threads, Register(th)
          PROVE  StoreMatches'
        BY <1>16 DEF Register
    <1>17. ASSUME NEW th \in Threads, SessionEnds(th)
          PROVE  StoreMatches'
        BY <1>17 DEF SessionEnds
    <1>18. ASSUME NEW th \in Threads, FailRelease(th)
          PROVE  StoreMatches'
        <2>1. CASE StopAccepted(task[job[th]])
            <3>1. /\ task' = [task EXCEPT ![job[th]] = Stopped(@)]
                  /\ \/ pc[th] = "release" /\ pc' = [pc EXCEPT ![th] = "count"]
                     \/ pc[th] = "recRelease" /\ pc' = [pc EXCEPT ![th] = "recCount"]
                  /\ UNCHANGED <<job, todo, busy>> /\ job[th] \in Tasks
                BY <1>18, <2>1 DEF FailRelease, Here, Then
            <3>2. /\ task'[job[th]].status = task[job[th]].status
                  /\ task'[job[th]].claim = "nobody"
                BY <3>1, WritesChange DEF Claimants
            <3>3. /\ task'[job[th]].afk = task[job[th]].afk
                  /\ \A d \in Tasks \ {job[th]} : task'[d] = task[d]
                BY <3>1, WritesLeave DEF Claimants
            <3>4. ClaimsAreOpen'
                BY <2>1, <3>1, <3>2, <3>3 DEF StartAccepted, StopAccepted
            <3>5. HandsMatch'
                BY <2>1, <3>1, <3>2, <3>3 DEF StartAccepted, StopAccepted
            <3>6. ListsMatch'
                BY <2>1, <3>1, <3>2, <3>3 DEF StartAccepted, StopAccepted
            <3> QED
                BY <3>4, <3>5, <3>6
        <2>2. CASE ~StopAccepted(task[job[th]])
            BY <1>18, <2>2 DEF FailRelease, Here, Leave, Raise, StopAccepted
        <2> QED
            BY <2>1, <2>2
    <1>19. ASSUME NEW th \in Threads, FailCount(th)
          PROVE  StoreMatches'
        <2> DEFINE c == job[th]
                   n == IF task[c].failures < MaxFailures
                        THEN task[c].failures + 1 ELSE task[c].failures
        <2>1. /\ c \in Tasks /\ UNCHANGED <<job, todo, busy>>
              /\ task' = [task EXCEPT ![c].failures = n]
              /\ \/ /\ pc[th] = "count"
                    /\ pc' = [pc EXCEPT ![th] = IF n >= MaxFailures THEN "block" ELSE "pop"]
                 \/ /\ pc[th] = "recCount"
                    /\ pc' = [pc EXCEPT ![th] = IF n >= MaxFailures THEN "recBlock" ELSE "recover"]
            BY <1>19 DEF FailCount, Here, Then
        <2>2. task[c].failures \in 0..MaxFailures
            BY <2>1
        <2>3. /\ n \in 1..MaxFailures
              /\ n >= MaxFailures => n = MaxFailures
              /\ ~(n >= MaxFailures) => n \in 1..(MaxFailures - 1)
            BY <2>2, CountUp
        <2>4. /\ task'[c].failures = n /\ task'[c].status = task[c].status
              /\ task'[c].claim = task[c].claim /\ task'[c].afk = task[c].afk
              /\ \A d \in Tasks \ {c} : task'[d] = task[d]
            BY <2>1
        <2> HIDE DEF n
        <2>5. ClaimsAreOpen'
            BY <2>4
        <2>6. HandsMatch'
            BY <2>1, <2>3, <2>4
        <2>7. ListsMatch'
            BY <2>1, <2>4
        <2> QED
            BY <2>5, <2>6, <2>7
    <1>20. ASSUME NEW th \in Threads, Block(th)
          PROVE  StoreMatches'
        BY <1>20 DEF Block, Here, Then, Blocked
    <1>21. ASSUME NEW th \in Threads, Yield(th)
          PROVE  StoreMatches'
        <2>1. CASE StopAccepted(task[job[th]])
            <3>1. /\ task' = [task EXCEPT ![job[th]] = Stopped(@)]
                  /\ pc[th] = "yield" /\ pc' = [pc EXCEPT ![th] = "block"]
                  /\ UNCHANGED <<job, todo, busy>> /\ job[th] \in Tasks
                BY <1>21, <2>1 DEF Yield
            <3>2. /\ task'[job[th]].status = task[job[th]].status
                  /\ task'[job[th]].claim = "nobody"
                BY <3>1, WritesChange DEF Claimants
            <3>3. /\ task'[job[th]].afk = task[job[th]].afk
                  /\ \A d \in Tasks \ {job[th]} : task'[d] = task[d]
                BY <3>1, WritesLeave DEF Claimants
            <3>4. ClaimsAreOpen'
                BY <2>1, <3>1, <3>2, <3>3 DEF StartAccepted, StopAccepted
            <3>5. HandsMatch'
                BY <2>1, <3>1, <3>2, <3>3 DEF StartAccepted, StopAccepted
            <3>6. ListsMatch'
                BY <2>1, <3>1, <3>2, <3>3 DEF StartAccepted, StopAccepted
            <3> QED
                BY <3>4, <3>5, <3>6
        <2>2. CASE ~StopAccepted(task[job[th]])
            BY <1>21, <2>2 DEF Yield, Here, Leave, Raise, StopAccepted
        <2> QED
            BY <2>1, <2>2
    <1>22. ASSUME NEW th \in Threads, Complete(th)
          PROVE  StoreMatches'
        BY <1>22 DEF Complete, Done, DoneAccepted
    <1>23. ASSUME NEW th \in Threads, Pop(th)
          PROVE  StoreMatches'
        BY <1>23 DEF Pop
    <1>24. ASSUME NEW th \in Threads, Clear(th)
          PROVE  StoreMatches'
        BY <1>24 DEF Clear
    <1>25. ASSUME NEW th \in Threads, Fault(th)
          PROVE  StoreMatches'
        BY <1>25 DEF Fault, Leave, Raise, Settling
    <1>26. ASSUME NEW th \in Threads, MarkFails(th)
          PROVE  StoreMatches'
        BY <1>26 DEF MarkFails
    <1>27. CASE Crash
        BY <1>27 DEF Crash
    <1>28. CASE Person
        <2>1. UNCHANGED <<pc, job, todo, busy, running, lock, launches>>
            BY <1>28 DEF Person
        <2>2. CASE UNCHANGED task
            BY <2>1, <2>2
        <2>3. ASSUME NEW c \in Tasks, NEW power \in Powers, PersonWrites(c, power)
              PROVE  StoreMatches'
            <3>1. CASE power = "claim"
                BY <2>1, <2>3, <3>1 DEF PersonWrites, Started, StartAccepted, Active
            <3>2. CASE power = "release"
                BY <2>1, <2>3, <3>2 DEF PersonWrites, Stopped, StopAccepted
            <3>3. CASE power = "close"
                BY <2>1, <2>3, <3>3 DEF PersonWrites, Done, DoneAccepted
            <3>4. CASE power \in {"rearm", "take"}
                BY <2>1, <2>3, <3>4 DEF PersonWrites
            <3> QED
                BY <2>3, <3>1, <3>2, <3>3, <3>4 DEF PersonWrites
        <2> QED
            BY <1>28, <2>2, <2>3 DEF Person
    <1>29. CASE UNCHANGED vars
        BY <1>29 DEF vars
    <1> QED
        BY <1>1, <1>2, <1>3, <1>4, <1>5, <1>6, <1>7, <1>8, <1>9, <1>10,
           <1>11, <1>12, <1>13, <1>14, <1>15, <1>16, <1>17, <1>18, <1>19, <1>20,
           <1>21, <1>22, <1>23, <1>24, <1>25, <1>26, <1>27, <1>28, <1>29
        DEF Next, Step, Decide, Settle

-----------------------------------------------------------------------------
(* The tick implements Dispatch.                                           *)

\* workOf as one choice after another.
Seen(t, flying, recovered) ==
    IF t.status = "absent" THEN "absent"
    ELSE IF t.status = "completed" THEN "closed"
    ELSE IF flying THEN "running"
    ELSE IF Active(t) \/ recovered THEN "lost"
    ELSE IF t.afk THEN "waiting" ELSE "handed"

\* workOf is Seen of the task now,
LEMMA WorkSeen ==
    ASSUME TypeOK, NEW c \in Tasks
    PROVE  workOf(c) = Seen(task[c], InFlightFor(c), BeingRecovered(c))
    <1>1. task[c].status \in {"absent", "pending", "completed"}
        BY DEF TypeOK, TaskRecord, Statuses
    <1> QED
        BY <1>1 DEF workOf, Seen, Pending

\* and Seen of the task next.
LEMMA WorkSeenNext ==
    ASSUME TypeOK', NEW c \in Tasks
    PROVE  workOf(c)' = Seen(task'[c], InFlightFor(c)', BeingRecovered(c)')
    <1>1. task'[c].status \in {"absent", "pending", "completed"}
        BY DEF TypeOK, TaskRecord, Statuses
    <1> QED
        BY <1>1 DEF workOf, Seen, Pending

\* The steps of Dispatch, by what they do to one task.
SameButFor(c) == \A d \in Tasks \ {c} : workOf(d)' = workOf(d)
SameTries == \A d \in Tasks : task'[d].failures = task[d].failures

\* Where nothing else changes, a task becomes what it is next.
LEMMA Becoming ==
    ASSUME NEW c \in Tasks, SameButFor(c), NEW w, workOf(c)' = w
    PROVE  D!Becomes(c, w)
    BY DEF SameButFor, D!Becomes

\* What changes nothing an owner would notice is a stutter of Dispatch.
LEMMA Stutters ==
    ASSUME \A c \in Tasks : workOf(c)' = workOf(c), SameTries, crashes' = crashes
    PROVE  UNCHANGED D!vars
    BY DEF D!vars, SameTries

\* A task that closes, is handed over or waits again is a step of Dispatch.
LEMMA Moves ==
    ASSUME NEW c \in Tasks, SameButFor(c), SameTries, crashes' = crashes,
           \/ workOf(c) = "running" /\ workOf(c)' = "closed"
           \/ workOf(c) \in {"running", "waiting"} /\ workOf(c)' = "handed"
           \/ /\ workOf(c) = "running" /\ workOf(c)' = "waiting"
              /\ task[c].failures \in 1..(MaxFailures - 1)
           \/ workOf(c) \in {"waiting", "handed"} /\ workOf(c)' = "closed"
           \/ /\ workOf(c) = "lost" /\ workOf(c)' = "handed"
              /\ task[c].failures = MaxFailures
    PROVE  D!Next
    <1>1. UNCHANGED [d \in Tasks |-> task[d].failures]
        BY DEF SameTries
    <1>2. D!Becomes(c, workOf(c)')
        BY Becoming
    <1>3. D!Succeed(c) \/ D!HandOver(c) \/ D!Retry(c) \/ D!Expire(c) \/ D!Abandon(c)
        BY <1>1, <1>2 DEF D!Succeed, D!HandOver, D!Retry, D!Expire, D!Abandon
    <1> QED
        BY <1>3 DEF D!Next, D!Live

\* A claim is a start when what is running leaves room and the repository free.
LEMMA Starts ==
    ASSUME NEW c \in Tasks, SameButFor(c), SameTries, crashes' = crashes,
           workOf(c) = "waiting", workOf(c)' = "running",
           Cardinality({d \in Tasks : workOf(d) = "running"}) < Ceiling,
           \A d \in Tasks : workOf(d) = "running" => RepoOf[d] # RepoOf[c] \/ RepoOf[c] = NoRepo
    PROVE  D!Next
    <1>1. D!InFlight = {d \in Tasks : workOf(d) = "running"}
        BY DEF D!InFlight
    <1>2. UNCHANGED [d \in Tasks |-> task[d].failures]
        BY DEF SameTries
    <1>3. D!Becomes(c, "running")
        BY Becoming
    <1>4. D!Cardinality(D!InFlight) < Ceiling
        <2>1. D!Cardinality(D!InFlight) = Cardinality(D!InFlight)
            BY DEF D!Cardinality, Cardinality
        <2> QED
            BY <1>1, <2>1
    <1>5. ~\E d \in D!InFlight : D!SharesRepo(c, d)
        BY <1>1 DEF D!SharesRepo
    <1>6. D!Start(c)
        BY <1>2, <1>3, <1>4, <1>5 DEF D!Start
    <1> QED
        BY <1>6 DEF D!Next, D!Live

\* A failure that is counted is a charge, and of a lost run a recovery.
LEMMA Charges ==
    ASSUME NEW c \in Tasks, SameButFor(c), crashes' = crashes,
           \A d \in Tasks \ {c} : task'[d].failures = task[d].failures,
           task'[c].failures = IF task[c].failures < MaxFailures
                               THEN task[c].failures + 1 ELSE task[c].failures,
           workOf(c) \in {"running", "lost", "closed"},
           \/ workOf(c)' = workOf(c)
           \/ /\ workOf(c) = "lost" /\ workOf(c)' = "waiting"
              /\ task'[c].failures < MaxFailures
    PROVE  D!Next
    <1>1. [d \in Tasks |-> task[d].failures]'
              = [[d \in Tasks |-> task[d].failures] EXCEPT ![c] = D!Failed(c)]
        BY DEF D!Failed
    <1>2. D!Becomes(c, workOf(c)')
        BY Becoming
    <1>3. task'[c].failures = D!Failed(c)
        BY DEF D!Failed
    <1>4. D!Charge(c)
        BY <1>1, <1>2, <1>3 DEF D!Charge
    <1> QED
        BY <1>4 DEF D!Next, D!Live

\* What triggers create is created in Dispatch.
LEMMA Creates ==
    ASSUME NEW new \in SUBSET {c \in Tasks : workOf(c) = "absent"}, SameTries,
           crashes' = crashes,
           \A c \in Tasks : workOf(c)' = IF c \in new THEN "waiting" ELSE workOf(c)
    PROVE  D!Next
    <1>1. UNCHANGED [d \in Tasks |-> task[d].failures]
        BY DEF SameTries
    <1>2. [c \in Tasks |-> workOf(c)]'
              = [c \in Tasks |-> IF c \in new THEN "waiting" ELSE workOf(c)]
        OBVIOUS
    <1>3. D!Create
        BY <1>1, <1>2 DEF D!Create
    <1> QED
        BY <1>3 DEF D!Next, D!Live

\* A crash of the unit is a death in Dispatch: what was running is lost.
LEMMA Dies ==
    ASSUME SameTries, crashes' = crashes + 1,
           \A c \in Tasks : IF workOf(c) \in {"running", "lost"}
                            THEN workOf(c)' \in {"lost", "waiting", "handed"}
                            ELSE workOf(c)' = workOf(c)
    PROVE  D!Next
    <1> DEFINE hit == {c \in Tasks : workOf(c) \in {"running", "lost"}}
               after == [c \in hit |-> workOf(c)']
    <1>1. UNCHANGED [d \in Tasks |-> task[d].failures]
        BY DEF SameTries
    <1>2. after \in [hit -> {"lost", "waiting", "handed"}]
        OBVIOUS
    <1>3. [c \in Tasks |-> workOf(c)]'
              = [c \in Tasks |-> IF c \in DOMAIN after THEN after[c] ELSE workOf(c)]
        OBVIOUS
    <1>4. hit = {c \in Tasks : [d \in Tasks |-> workOf(d)][c] \in {"running", "lost"}}
        OBVIOUS
    <1> HIDE DEF hit, after
    <1>5. D!Die
        BY <1>1, <1>2, <1>3, <1>4 DEF D!Die
    <1> QED
        BY <1>5 DEF D!Next

\* Where a thread has a task in flight, and where it charges a lost one.
Flying == {"mark", "register", "run", "pop", "release", "count", "yield", "block", "done"}
Charging == {"recCount", "recBlock"}

\* Who is in flight and who is being recovered depend on pc and job alone,
LEMMA FlightSeen ==
    ASSUME NEW c
    PROVE  /\ InFlightFor(c) <=> \E th \in Threads : job[th] = c /\ pc[th] \in Flying
           /\ BeingRecovered(c) <=> \E th \in Threads : job[th] = c /\ pc[th] \in Charging
    BY Locs DEF InFlightFor, BeingRecovered, Flying, Charging

\* now and next.
LEMMA FlightSeenNext ==
    ASSUME NEW c
    PROVE  /\ InFlightFor(c)' <=> \E th \in Threads : job'[th] = c /\ pc'[th] \in Flying
           /\ BeingRecovered(c)' <=> \E th \in Threads : job'[th] = c /\ pc'[th] \in Charging
    BY Locs DEF InFlightFor, BeingRecovered, Flying, Charging

\* A step of a thread that keeps what it has in flight and what it charges.
Alike(th, c) ==
    /\ (job[th] = c /\ pc[th] \in Flying) <=> (job'[th] = c /\ pc'[th] \in Flying)
    /\ (job[th] = c /\ pc[th] \in Charging) <=> (job'[th] = c /\ pc'[th] \in Charging)

OthersStay(th) == \A a \in Threads \ {th} : pc'[a] = pc[a] /\ job'[a] = job[a]

\* Locations that Dispatch cannot tell apart:
LEMMA AlikeSeen ==
    ASSUME NEW th \in Threads, OthersStay(th), NEW c, Alike(th, c)
    PROVE  (InFlightFor(c)' <=> InFlightFor(c)) /\ (BeingRecovered(c)' <=> BeingRecovered(c))
    BY FlightSeen, FlightSeenNext DEF OthersStay, Alike

\* a thread that stays among them keeps every task as it is seen.
LEMMA AlikeKeeps ==
    ASSUME TypeOK, TypeOK', NEW th \in Threads, OthersStay(th), NEW c \in Tasks,
           Alike(th, c), task'[c] = task[c]
    PROVE  workOf(c)' = workOf(c)
    BY WorkSeen, WorkSeenNext, AlikeSeen DEF Seen

\* A step between such locations that leaves the store alone is a stutter.
LEMMA QuietStep ==
    ASSUME TypeOK, TypeOK', NEW th \in Threads, OthersStay(th),
           UNCHANGED task, crashes' = crashes, \A c \in Tasks : Alike(th, c)
    PROVE  UNCHANGED D!vars
    <1>1. \A c \in Tasks : workOf(c)' = workOf(c)
        BY AlikeKeeps
    <1>2. SameTries
        BY DEF SameTries
    <1> QED
        BY <1>1, <1>2, Stutters

\* A task that has not been claimed by a thread, and one that has.
LEMMA FreeIsSeen ==
    ASSUME TypeOK, NEW c \in Tasks, Pending(task[c]), ~Active(task[c]),
           ~InFlightFor(c), ~BeingRecovered(c)
    PROVE  workOf(c) = IF task[c].afk THEN "waiting" ELSE "handed"
    BY WorkSeen DEF Seen, Pending

\* A thread with a task in flight shows it as running.
LEMMA FlightIsSeen ==
    ASSUME TypeOK, NEW c \in Tasks, Pending(task[c]), InFlightFor(c)
    PROVE  workOf(c) = "running"
    BY WorkSeen DEF Seen, Pending

\* What is absent is in no thread's hands,
LEMMA AbsentIsIdle ==
    ASSUME HandsMatch, NEW c \in Tasks, task[c].status = "absent"
    PROVE  ~InFlightFor(c) /\ ~BeingRecovered(c)
    BY FlightSeen DEF HandsMatch, Flying, Charging, Pending

\* while a tick selects, what is in flight is registered and passed over,
LEMMA InFlightIsBusy ==
    ASSUME Undisturbed, TypeOK, DecidingAlone, OneRunPerTask, NEW th \in Threads,
           pc[th] \in {"select", "trip", "claim"}, NEW c \in Tasks, InFlightFor(c)
    PROVE  c \in running /\ RepoOf[c] \in busy[th]
    <1>1. PICK a \in Threads : job[a] = c /\ pc[a] \in Flying
        BY FlightSeen
    <1>2. \A b \in Threads : pc[b] \in Deciding => b = th
        BY Locs DEF DecidingAlone
    <1>3. pc[a] \in Launched
        BY <1>1, <1>2, Locs DEF Flying
    <1> QED
        BY <1>1, <1>3, Selects
        DEF Undisturbed, OneRunPerTask, GuardedAreRegistered, RunsArePassedOver

\* and nothing is under recovery.
LEMMA ChosenIsIdle ==
    ASSUME Undisturbed, TypeOK, DecidingAlone, OneRunPerTask, NEW th \in Threads,
           pc[th] \in {"select", "trip", "claim"}, NEW c \in Tasks, RepoOf[c] \notin busy[th]
    PROVE  ~InFlightFor(c) /\ ~BeingRecovered(c)
    <1>1. \A a \in Threads : pc[a] \in Deciding => a = th
        BY Locs DEF DecidingAlone
    <1> QED
        BY <1>1, InFlightIsBusy, Locs, FlightSeen DEF Charging

\* While one thread decides nothing is under recovery by another.
LEMMA RecoveredByTheDecider ==
    ASSUME DecidingAlone, NEW th \in Threads, pc[th] \in Deciding, NEW c \in Tasks,
           BeingRecovered(c)
    PROVE  job[th] = c /\ pc[th] \in Charging
    BY Locs, FlightSeen DEF DecidingAlone, Charging

\* Nor does a launched run have the task of a recovery in hand.
LEMMA RecoveredNotInFlight ==
    ASSUME Undisturbed, TypeOK, DecidingAlone, OneRunPerTask, NEW th \in Threads,
           pc[th] \in {"recRelease", "recCount", "recBlock"}
    PROVE  ~InFlightFor(job[th])
    <1>1. job[th] \in Tasks
        BY Locs DEF TypeOK
    <1>2. \A a \in Threads : pc[a] \in Launched => job[a] # job[th]
        BY <1>1, Locs DEF Undisturbed, OneRunPerTask, OneHand, Holding
    <1>3. \A a \in Threads : pc[a] \in Deciding => a = th
        BY Locs DEF DecidingAlone
    <1> QED
        BY <1>2, <1>3, Locs, FlightSeen DEF Flying

\* The actions an owner does not notice.
LEMMA QuietActions ==
    ASSUME TypeOK, TypeOK', NEW th \in Threads,
           \/ TickBegin(th) \/ RecoverRead(th) \/ RecoverCheck(th) \/ RecoverGet(th)
           \/ Gates(th) \/ Sweep(th) \/ CheckCeiling(th) \/ ReadQueue(th)
           \/ NothingRunnable(th) \/ Mark(th) \/ Register(th) \/ SessionEnds(th) \/ Clear(th)
    PROVE  UNCHANGED D!vars
    <1> USE Locs DEF store, files, locals, spent, Goto, OthersStay, Alike, Flying, Charging
    <1>0. pc \in [Threads -> Locations] /\ job \in [Threads -> Tasks \cup {NoTask}]
        BY DEF TypeOK
    <1>1. CASE TickBegin(th)
        <2>1. UNCHANGED task /\ crashes' = crashes
            BY <1>1 DEF TickBegin
        <2>2. OthersStay(th) /\ \A c \in Tasks : Alike(th, c)
            BY <1>0, <1>1 DEF TickBegin
        <2> QED
            BY <2>1, <2>2, QuietStep
    <1>2. CASE RecoverRead(th)
        <2>1. UNCHANGED task /\ crashes' = crashes
            BY <1>2 DEF RecoverRead
        <2>2. OthersStay(th) /\ \A c \in Tasks : Alike(th, c)
            BY <1>0, <1>2 DEF RecoverRead
        <2> QED
            BY <2>1, <2>2, QuietStep
    <1>3. CASE RecoverCheck(th)
        <2>1. UNCHANGED task /\ crashes' = crashes
            BY <1>3 DEF RecoverCheck
        <2>2. OthersStay(th) /\ \A c \in Tasks : Alike(th, c)
            BY <1>0, <1>3 DEF RecoverCheck
        <2> QED
            BY <2>1, <2>2, QuietStep
    <1>4. CASE RecoverGet(th)
        <2>1. UNCHANGED task /\ crashes' = crashes
            BY <1>4 DEF RecoverGet
        <2>2. OthersStay(th) /\ \A c \in Tasks : Alike(th, c)
            BY <1>0, <1>4 DEF RecoverGet
        <2> QED
            BY <2>1, <2>2, QuietStep
    <1>5. CASE Gates(th)
        <2>1. UNCHANGED task /\ crashes' = crashes
            BY <1>5 DEF Gates, Leave
        <2>2. OthersStay(th) /\ \A c \in Tasks : Alike(th, c)
            BY <1>0, <1>5 DEF Gates, Leave
        <2> QED
            BY <2>1, <2>2, QuietStep
    <1>6. CASE Sweep(th)
        <2>1. UNCHANGED task /\ crashes' = crashes
            BY <1>6 DEF Sweep
        <2>2. OthersStay(th) /\ \A c \in Tasks : Alike(th, c)
            BY <1>0, <1>6 DEF Sweep
        <2> QED
            BY <2>1, <2>2, QuietStep
    <1>7. CASE CheckCeiling(th)
        <2>1. UNCHANGED task /\ crashes' = crashes
            BY <1>7 DEF CheckCeiling, Leave
        <2>2. OthersStay(th) /\ \A c \in Tasks : Alike(th, c)
            BY <1>0, <1>7 DEF CheckCeiling, Leave
        <2> QED
            BY <2>1, <2>2, QuietStep
    <1>8. CASE ReadQueue(th)
        <2>1. UNCHANGED task /\ crashes' = crashes
            BY <1>8 DEF ReadQueue
        <2>2. OthersStay(th) /\ \A c \in Tasks : Alike(th, c)
            BY <1>0, <1>8 DEF ReadQueue
        <2> QED
            BY <2>1, <2>2, QuietStep
    <1>9. CASE NothingRunnable(th)
        <2>1. UNCHANGED task /\ crashes' = crashes
            BY <1>9 DEF NothingRunnable, Leave
        <2>2. OthersStay(th) /\ \A c \in Tasks : Alike(th, c)
            BY <1>0, <1>9 DEF NothingRunnable, Leave
        <2> QED
            BY <2>1, <2>2, QuietStep
    <1>10. CASE Mark(th)
        <2>1. UNCHANGED task /\ crashes' = crashes
            BY <1>10 DEF Mark
        <2>2. OthersStay(th) /\ \A c \in Tasks : Alike(th, c)
            BY <1>0, <1>10 DEF Mark
        <2> QED
            BY <2>1, <2>2, QuietStep
    <1>11. CASE Register(th)
        <2>1. UNCHANGED task /\ crashes' = crashes
            BY <1>11 DEF Register
        <2>2. OthersStay(th) /\ \A c \in Tasks : Alike(th, c)
            BY <1>0, <1>11 DEF Register
        <2> QED
            BY <2>1, <2>2, QuietStep
    <1>12. CASE SessionEnds(th)
        <2>1. UNCHANGED task /\ crashes' = crashes
            BY <1>12 DEF SessionEnds
        <2>2. OthersStay(th) /\ \A c \in Tasks : Alike(th, c)
            BY <1>0, <1>12 DEF SessionEnds
        <2> QED
            BY <2>1, <2>2, QuietStep
    <1>13. CASE Clear(th)
        <2>1. UNCHANGED task /\ crashes' = crashes
            BY <1>13 DEF Clear
        <2>2. OthersStay(th) /\ \A c \in Tasks : Alike(th, c)
            BY <1>0, <1>13 DEF Clear
        <2> QED
            BY <2>1, <2>2, QuietStep
    <1> QED
        BY <1>1, <1>2, <1>3, <1>4, <1>5, <1>6, <1>7,
           <1>8, <1>9, <1>10, <1>11, <1>12, <1>13

\* The steps that write the store.
LEMMA EmitRefines ==
    ASSUME TypeOK, TypeOK', HandsMatch, NEW th \in Threads, Emit(th)
    PROVE  D!Next
    <1>1. PICK new \in SUBSET {c \in Tasks : task[c] = Absent} :
              task' = [c \in Tasks |-> IF c \in new THEN Created ELSE task[c]]
        BY DEF Emit
    <1>2. /\ crashes' = crashes /\ UNCHANGED job
          /\ pc[th] = "emit" /\ pc' = [pc EXCEPT ![th] = "sweep"]
        BY DEF Emit, Goto, spent
    <1>3. OthersStay(th) /\ \A c \in Tasks : Alike(th, c)
        BY <1>2 DEF TypeOK, OthersStay, Alike, Flying, Charging
    <1>4. SameTries
        BY <1>1 DEF SameTries, Absent, Created
    <1>5. ASSUME NEW c \in new
          PROVE  workOf(c) = "absent" /\ workOf(c)' = "waiting"
        <2>1. /\ c \in Tasks /\ task[c].status = "absent"
              /\ task'[c].status = "pending" /\ task'[c].claim = "nobody" /\ task'[c].afk
            BY <1>1 DEF Absent, Created
        <2>2. ~InFlightFor(c)' /\ ~BeingRecovered(c)'
            BY <1>3, <2>1, AbsentIsIdle, AlikeSeen
        <2> QED
            BY <2>1, <2>2, WorkSeen, WorkSeenNext DEF Seen, Active
    <1>6. ASSUME NEW c \in Tasks, c \notin new
          PROVE  workOf(c)' = workOf(c)
        BY <1>1, <1>3, <1>6, AlikeKeeps
    <1>7. new \in SUBSET {c \in Tasks : workOf(c) = "absent"}
        BY <1>5
    <1>8. \A c \in Tasks : workOf(c)' = IF c \in new THEN "waiting" ELSE workOf(c)
        BY <1>5, <1>6
    <1> QED
        BY <1>2, <1>4, <1>7, <1>8, Creates

\* Expire is a step of Dispatch or a stutter.
LEMMA ExpireRefines ==
    ASSUME TypeOK, TypeOK', DecidingAlone, ListsMatch, NEW th \in Threads, Expire(th)
    PROVE  D!Next \/ UNCHANGED D!vars
    <1>1. pc[th] = "expire" /\ crashes' = crashes
        BY DEF Expire, spent
    <1>2. ASSUME NEW c \in todo[th], DoneAccepted(task[c]),
                 task' = [task EXCEPT ![c] = Done(@)], UNCHANGED <<pc, job>>
          PROVE  D!Next
        <2>1. c \in Tasks /\ ~Active(task[c]) /\ Pending(task[c])
            BY <1>1, <1>2 DEF TypeOK, ListsMatch, DoneAccepted
        <2>2. /\ task'[c].status = "completed"
              /\ \A d \in Tasks : task'[d].failures = task[d].failures
              /\ \A d \in Tasks \ {c} : task'[d] = task[d]
            BY <1>2, <2>1, DoneLetsGo, WritesChange DEF Claimants
        <2>3. OthersStay(th) /\ \A d \in Tasks : Alike(th, d)
            BY <1>2 DEF OthersStay, Alike
        <2>4. ~BeingRecovered(c)
            BY <1>1, <2>1, RecoveredByTheDecider, Locs DEF Charging
        <2>5. workOf(c) \in {"waiting", "handed", "running"}
            BY <2>1, <2>4, FreeIsSeen, FlightIsSeen
        <2>6. workOf(c)' = "closed"
            BY <2>1, <2>2, WorkSeenNext DEF Seen
        <2>7. SameButFor(c) /\ SameTries
            BY <2>2, <2>3, AlikeKeeps DEF SameButFor, SameTries
        <2> QED
            BY <1>1, <2>1, <2>5, <2>6, <2>7, Moves
    <1>3. CASE UNCHANGED task
        <2>1. OthersStay(th) /\ \A c \in Tasks : Alike(th, c)
            BY <1>1, <1>3, Locs DEF TypeOK, Expire, Raise, Leave, Goto, OthersStay, Alike,
               Flying, Charging, DoneAccepted
        <2> QED
            BY <1>1, <1>3, <2>1, QuietStep
    <1> QED
        BY <1>2, <1>3 DEF Expire

\* A task of the queue that is handed over.
LEMMA HandsOver ==
    ASSUME Undisturbed, TypeOK, TypeOK', DecidingAlone, OneRunPerTask, NEW th \in Threads,
           pc[th] \in {"select", "trip"}, NEW c \in Tasks, Runnable(task[c]),
           RepoOf[c] \notin busy[th],
           task' = [task EXCEPT ![c] = Blocked(@)], crashes' = crashes,
           OthersStay(th), \A d \in Tasks : Alike(th, d)
    PROVE  D!Next
    <1>1. ~InFlightFor(c) /\ ~BeingRecovered(c)
        BY ChosenIsIdle
    <1>2. /\ task'[c].status = task[c].status /\ task'[c].claim = task[c].claim
          /\ ~task'[c].afk /\ task'[c].failures = task[c].failures
          /\ \A d \in Tasks \ {c} : task'[d] = task[d]
        BY WritesChange DEF Claimants
    <1>3. workOf(c) = "waiting"
        BY <1>1, FreeIsSeen DEF Runnable
    <1>4. ~InFlightFor(c)' /\ ~BeingRecovered(c)'
        BY <1>1, AlikeSeen
    <1>5. workOf(c)' = "handed"
        BY <1>2, <1>4, WorkSeenNext DEF Seen, Runnable, Pending, Active
    <1>6. SameButFor(c) /\ SameTries
        BY <1>2, AlikeKeeps DEF SameButFor, SameTries
    <1> QED
        BY <1>3, <1>5, <1>6, Moves

\* Select is a step of Dispatch or a stutter.
LEMMA SelectRefines ==
    ASSUME Undisturbed, TypeOK, TypeOK', DecidingAlone, OneRunPerTask, ListsMatch,
           NEW th \in Threads, Select(th)
    PROVE  D!Next \/ UNCHANGED D!vars
    <1>1. PICK c \in todo[th] :
              \/ UNCHANGED <<task, pc, job>>
              \/ /\ RepoOf[c] \notin busy[th]
                 /\ task' = [task EXCEPT ![c] = Blocked(@)] /\ UNCHANGED <<pc, job>>
              \/ /\ \E to \in {"trip", "claim"} : pc' = [pc EXCEPT ![th] = to]
                 /\ job' = [job EXCEPT ![th] = c] /\ UNCHANGED task
        BY DEF Select, Foremost, PassedOver, Goto
    <1>2. pc[th] = "select" /\ crashes' = crashes
        BY DEF Select, spent
    <1>3. OthersStay(th) /\ \A d \in Tasks : Alike(th, d)
        BY <1>1, <1>2 DEF TypeOK, OthersStay, Alike, Flying, Charging
    <1>4. CASE UNCHANGED task
        BY <1>2, <1>3, <1>4, QuietStep
    <1>5. CASE RepoOf[c] \notin busy[th] /\ task' = [task EXCEPT ![c] = Blocked(@)]
        <2>1. c \in Tasks /\ Runnable(task[c])
            BY <1>2, <1>5 DEF TypeOK, ListsMatch
        <2> QED
            BY <1>2, <1>3, <1>5, <2>1, HandsOver
    <1> QED
        BY <1>1, <1>4, <1>5

\* Trip is a step of Dispatch or a stutter.
LEMMA TripRefines ==
    ASSUME Undisturbed, TypeOK, TypeOK', DecidingAlone, OneRunPerTask, ListsMatch,
           NEW th \in Threads, Trip(th)
    PROVE  D!Next
    <1>1. /\ pc[th] = "trip" /\ crashes' = crashes
          /\ task' = [task EXCEPT ![job[th]] = Blocked(@)]
        BY DEF Trip, spent
    <1>2. job[th] \in Tasks /\ Runnable(task[job[th]]) /\ RepoOf[job[th]] \notin busy[th]
        BY <1>1, Locs DEF TypeOK, ListsMatch, OneRunPerTask, ChoiceIsFree
    <1>3. OthersStay(th) /\ \A d \in Tasks : Alike(th, d)
        BY <1>1 DEF TypeOK, Trip, Leave, Goto, OthersStay, Alike, Flying, Charging
    <1> QED
        BY <1>1, <1>2, <1>3, HandsOver

\* Claim is a step of Dispatch or a stutter.
LEMMA ClaimRefines ==
    ASSUME Undisturbed, TypeOK, TypeOK', DecidingAlone, OneRunPerTask, RoomInv, ListsMatch,
           NEW th \in Threads, Claim(th)
    PROVE  D!Next
    <1>1. /\ pc[th] = "claim" /\ crashes' = crashes
        BY DEF Claim, spent
    <1>2. PICK c \in Tasks : c = job[th] /\ Runnable(task[c]) /\ RepoOf[c] \notin busy[th]
        BY <1>1, Locs DEF TypeOK, ListsMatch, OneRunPerTask, ChoiceIsFree
    <1>3. StartAccepted(task[c])
        BY <1>2 DEF Runnable, StartAccepted
    <1>4. /\ task' = [task EXCEPT ![c] = Started(@, "pu")]
          /\ pc' = [pc EXCEPT ![th] = "mark"] /\ UNCHANGED job
        BY <1>2, <1>3 DEF Claim, Goto
    <1>5. /\ task'[c].status = task[c].status
          /\ \A d \in Tasks : task'[d].failures = task[d].failures
          /\ \A d \in Tasks \ {c} : task'[d] = task[d]
        BY <1>2, <1>4, WritesChange, WritesLeave DEF Claimants
    <1>6. \A d \in Tasks : workOf(d) = "running" => d \in running /\ RepoOf[d] \in busy[th]
        <2>1. \A d \in Tasks : workOf(d) = "running" => InFlightFor(d)
            BY WorkSeen DEF Seen
        <2> QED
            BY <1>1, <2>1, InFlightIsBusy
    <1>7. Cardinality({d \in Tasks : workOf(d) = "running"}) < Ceiling
        <2>1. Cardinality(running) < Ceiling
            BY <1>1, Selects DEF RoomInv, RoomToSelect
        <2> DEFINE live == {d \in Tasks : workOf(d) = "running"}
        <2>2. IsFiniteSet(running) /\ live \in SUBSET running
            BY <1>6, RegisteredFinite DEF TypeOK
        <2>3. Cardinality(live) <= Cardinality(running)
            BY <2>2, FS_Subset
        <2>4. Cardinality(live) \in Nat /\ Cardinality(running) \in Nat
            BY <2>2, RegisteredFinite DEF TypeOK
        <2> QED
            BY <2>1, <2>3, <2>4, PipelineAssumption
    <1>8. workOf(c) = "waiting"
        BY <1>1, <1>2, ChosenIsIdle, FreeIsSeen DEF Runnable
    <1>9. InFlightFor(c)'
        <2>1. pc'[th] \in Flying /\ job'[th] = c
            BY <1>2, <1>4 DEF TypeOK, Flying
        <2> QED
            BY <2>1, FlightSeenNext
    <1>10. workOf(c)' = "running"
        BY <1>2, <1>5, <1>9, WorkSeenNext DEF Seen, Runnable, Pending
    <1>11. OthersStay(th) /\ \A d \in Tasks \ {c} : Alike(th, d)
        BY <1>2, <1>4 DEF TypeOK, OthersStay, Alike
    <1>12. SameButFor(c) /\ SameTries
        BY <1>5, <1>11, AlikeKeeps DEF SameButFor, SameTries
    <1> QED
        BY <1>1, <1>2, <1>6, <1>7, <1>8, <1>10, <1>12, Starts

\* A run that settles.
LEMMA InFlightStays ==
    ASSUME TypeOK, TypeOK', NEW th \in Threads, OthersStay(th), UNCHANGED job,
           pc[th] \in Flying, pc'[th] \in Flying, crashes' = crashes,
           NEW c \in Tasks, c = job[th], task'[c].status = task[c].status,
           \A d \in Tasks : task'[d].failures = task[d].failures,
           \A d \in Tasks \ {c} : task'[d] = task[d]
    PROVE  UNCHANGED D!vars
    <1>1. \A d \in Tasks : Alike(th, d)
        BY DEF Alike, Flying, Charging
    <1>2. InFlightFor(c) /\ InFlightFor(c)'
        BY FlightSeen, FlightSeenNext
    <1>3. workOf(c)' = workOf(c)
        BY <1>2, WorkSeen, WorkSeenNext DEF Seen
    <1>4. \A d \in Tasks \ {c} : workOf(d)' = workOf(d)
        BY <1>1, AlikeKeeps
    <1> QED
        BY <1>3, <1>4, Stutters DEF SameTries

\* FailRelease is a step of Dispatch or a stutter.
LEMMA FailReleaseRefines ==
    ASSUME Undisturbed, TypeOK, TypeOK', DecidingAlone, OneRunPerTask, HandsMatch,
           NEW th \in Threads, FailRelease(th)
    PROVE  D!Next \/ UNCHANGED D!vars
    <1>1. pc[th] \in {"release", "recRelease"} /\ crashes' = crashes
        BY DEF FailRelease, Here, spent
    <1>2. PICK c \in Tasks : c = job[th]
        BY <1>1, Locs DEF TypeOK
    <1>3. CASE StopAccepted(task[c])
        <2>1. /\ task' = [task EXCEPT ![c] = Stopped(@)] /\ UNCHANGED job
              /\ pc' = [pc EXCEPT ![th] = IF pc[th] = "release" THEN "count" ELSE "recCount"]
            BY <1>1, <1>2, <1>3, Locs DEF FailRelease, Then, Goto
        <2>2. /\ task'[c].status = task[c].status
              /\ \A d \in Tasks : task'[d].failures = task[d].failures
              /\ \A d \in Tasks \ {c} : task'[d] = task[d]
            BY <2>1, WritesChange, WritesLeave DEF Claimants
        <2>3. OthersStay(th) /\ pc'[th] = IF pc[th] = "release" THEN "count" ELSE "recCount"
            BY <2>1 DEF TypeOK, OthersStay
        <2>4. CASE pc[th] = "release"
            BY <1>1, <1>2, <2>1, <2>2, <2>3, <2>4, InFlightStays DEF Flying
        <2>5. CASE pc[th] = "recRelease"
            <3>1. ~InFlightFor(c)
                BY <1>2, <2>5, RecoveredNotInFlight
            <3>2. ~InFlightFor(c)' /\ BeingRecovered(c)'
                BY <1>2, <2>1, <2>3, <2>5, <3>1, FlightSeen, FlightSeenNext
                DEF OthersStay, Flying, Charging
            <3>3. workOf(c) = "lost" /\ workOf(c)' = "lost"
                BY <1>3, <2>2, <3>1, <3>2, WorkSeen, WorkSeenNext
                DEF Seen, StopAccepted, Pending
            <3>4. \A d \in Tasks \ {c} : Alike(th, d)
                BY <1>2, <2>1 DEF Alike
            <3>5. \A d \in Tasks \ {c} : workOf(d)' = workOf(d)
                BY <2>2, <2>3, <3>4, AlikeKeeps
            <3> QED
                BY <1>1, <2>2, <3>3, <3>5, Stutters DEF SameTries
        <2> QED
            BY <1>1, <2>4, <2>5
    <1>4. CASE ~StopAccepted(task[c])
        <2>1. pc[th] = "recRelease"
            BY <1>1, <1>2, <1>4 DEF HandsMatch, StopAccepted
        <2>2. UNCHANGED task
            BY <1>2, <1>4 DEF FailRelease
        <2>3. OthersStay(th) /\ \A d \in Tasks : Alike(th, d)
            BY <1>2, <1>4, <2>1, Locs DEF TypeOK, FailRelease, Raise, Leave, Goto, OthersStay,
               Alike, Flying, Charging
        <2> QED
            BY <1>1, <2>2, <2>3, QuietStep
    <1> QED
        BY <1>3, <1>4

\* FailCount is a step of Dispatch or a stutter.
LEMMA FailCountRefines ==
    ASSUME Undisturbed, TypeOK, TypeOK', DecidingAlone, OneRunPerTask, HandsMatch,
           NEW th \in Threads, FailCount(th)
    PROVE  D!Next
    <1>1. pc[th] \in {"count", "recCount"} /\ crashes' = crashes /\ UNCHANGED job
        BY DEF FailCount, Here, spent
    <1>2. PICK c \in Tasks : c = job[th]
        BY <1>1, Locs DEF TypeOK
    <1>3. PICK n : n = IF task[c].failures < MaxFailures
                       THEN task[c].failures + 1 ELSE task[c].failures
        OBVIOUS
    <1>4. /\ task' = [task EXCEPT ![c].failures = n]
          /\ pc' = [pc EXCEPT ![th] =
                        IF pc[th] = "count" THEN IF n >= MaxFailures THEN "block" ELSE "pop"
                        ELSE IF n >= MaxFailures THEN "recBlock" ELSE "recover"]
        BY <1>1, <1>2, <1>3, Locs DEF FailCount, Then, Goto
    <1>5. task[c].failures \in 0..MaxFailures
        BY DEF TypeOK, TaskRecord
    <1>6. n \in 1..MaxFailures /\ (~(n >= MaxFailures) => n < MaxFailures)
        BY <1>3, <1>5, CountUp, PipelineAssumption
    <1>7. /\ task'[c].failures = n /\ task'[c].status = task[c].status
          /\ task'[c].claim = task[c].claim /\ task'[c].afk = task[c].afk
          /\ \A d \in Tasks \ {c} : task'[d] = task[d]
        BY <1>4 DEF TypeOK, TaskRecord
    <1>8. /\ OthersStay(th)
          /\ pc'[th] = IF pc[th] = "count" THEN IF n >= MaxFailures THEN "block" ELSE "pop"
                       ELSE IF n >= MaxFailures THEN "recBlock" ELSE "recover"
        BY <1>1, <1>4 DEF TypeOK, OthersStay
    <1>9. SameButFor(c)
        <2>1. \A d \in Tasks \ {c} : Alike(th, d)
            BY <1>1, <1>2 DEF Alike
        <2> QED
            BY <1>7, <1>8, <2>1, AlikeKeeps DEF SameButFor
    <1>10. /\ workOf(c) \in {"running", "lost", "closed"}
           /\ \/ workOf(c)' = workOf(c)
              \/ workOf(c) = "lost" /\ workOf(c)' = "waiting" /\ n < MaxFailures
        <2>1. CASE pc[th] = "count"
            <3>1. InFlightFor(c) /\ InFlightFor(c)'
                BY <1>1, <1>2, <1>8, <2>1, FlightSeen, FlightSeenNext DEF Flying
            <3>2. task[c].status # "absent"
                BY <1>2, <2>1 DEF HandsMatch
            <3> QED
                BY <1>7, <3>1, <3>2, WorkSeen, WorkSeenNext DEF Seen
        <2>2. CASE pc[th] = "recCount"
            <3>1. Pending(task[c]) /\ ~Active(task[c]) /\ task[c].afk
                BY <1>2, <2>2 DEF HandsMatch
            <3>2. ~InFlightFor(c) /\ BeingRecovered(c)
                BY <1>2, <2>2, RecoveredNotInFlight, FlightSeen DEF Charging
            <3>3. ~InFlightFor(c)'
                BY <1>1, <1>8, <2>2, <3>2, FlightSeen, FlightSeenNext DEF OthersStay, Flying
            <3>4. workOf(c) = "lost"
                BY <3>1, <3>2, WorkSeen DEF Seen, Pending
            <3>5. CASE n >= MaxFailures
                <4>1. BeingRecovered(c)'
                    BY <1>1, <1>2, <1>8, <2>2, <3>5, FlightSeenNext DEF Charging
                <4> QED
                    BY <1>7, <3>1, <3>3, <3>4, <4>1, WorkSeenNext DEF Seen, Pending
            <3>6. CASE ~(n >= MaxFailures)
                <4>1. ~BeingRecovered(c)'
                    <5>1. \A a \in Threads : pc[a] \in Charging => a = th
                        BY <2>2, Locs DEF DecidingAlone, Charging
                    <5> QED
                        BY <1>8, <2>2, <3>6, <5>1, FlightSeenNext DEF OthersStay, Charging
                <4>2. workOf(c)' = "waiting"
                    BY <1>7, <3>1, <3>3, <4>1, WorkSeenNext DEF Seen, Pending, Active
                <4> QED
                    BY <1>6, <3>4, <3>6, <4>2
            <3> QED
                BY <3>5, <3>6
        <2> QED
            BY <1>1, <2>1, <2>2
    <1>11. /\ task'[c].failures = IF task[c].failures < MaxFailures
                                  THEN task[c].failures + 1 ELSE task[c].failures
           /\ \A d \in Tasks \ {c} : task'[d].failures = task[d].failures
        BY <1>3, <1>7
    <1>12. \/ workOf(c)' = workOf(c)
           \/ /\ workOf(c) = "lost" /\ workOf(c)' = "waiting"
              /\ task'[c].failures < MaxFailures
        BY <1>7, <1>10
    <1> QED
        BY <1>1, <1>9, <1>10, <1>11, <1>12, Charges

\* Block is a step of Dispatch or a stutter.
LEMMA BlockRefines ==
    ASSUME Undisturbed, TypeOK, TypeOK', DecidingAlone, OneRunPerTask, HandsMatch,
           NEW th \in Threads, Block(th)
    PROVE  D!Next \/ UNCHANGED D!vars
    <1>1. pc[th] \in {"block", "recBlock"} /\ crashes' = crashes /\ UNCHANGED job
        BY DEF Block, Here, spent
    <1>2. PICK c \in Tasks : c = job[th]
        BY <1>1, Locs DEF TypeOK
    <1>3. /\ task' = [task EXCEPT ![c] = Blocked(@)]
          /\ pc' = [pc EXCEPT ![th] = IF pc[th] = "block" THEN "pop" ELSE "recover"]
        BY <1>1, <1>2, Locs DEF Block, Then, Goto
    <1>4. /\ task'[c].status = task[c].status /\ task'[c].claim = task[c].claim
          /\ ~task'[c].afk /\ task'[c].failures = task[c].failures
          /\ \A d \in Tasks \ {c} : task'[d] = task[d]
        BY <1>3, WritesChange DEF Claimants
    <1>5. OthersStay(th) /\ pc'[th] = IF pc[th] = "block" THEN "pop" ELSE "recover"
        BY <1>1, <1>3 DEF TypeOK, OthersStay
    <1>6. CASE pc[th] = "block"
        <2>1. pc[th] \in Flying /\ pc'[th] \in Flying
            BY <1>5, <1>6 DEF Flying
        <2>2. \A d \in Tasks : task'[d].failures = task[d].failures
            BY <1>4
        <2> QED
            BY <1>1, <1>2, <1>4, <1>5, <2>1, <2>2, InFlightStays
    <1>7. CASE pc[th] = "recBlock"
        <2>1. /\ Pending(task[c]) /\ ~Active(task[c])
              /\ task[c].failures = MaxFailures
            BY <1>2, <1>7 DEF HandsMatch
        <2>2. ~InFlightFor(c) /\ BeingRecovered(c)
            BY <1>2, <1>7, RecoveredNotInFlight, FlightSeen DEF Charging
        <2>3. \A a \in Threads : pc[a] \in Charging => a = th
            BY <1>7, Locs DEF DecidingAlone, Charging
        <2>4. ~InFlightFor(c)' /\ ~BeingRecovered(c)'
            BY <1>1, <1>5, <1>7, <2>2, <2>3, FlightSeen, FlightSeenNext
            DEF OthersStay, Flying, Charging
        <2>5. workOf(c) = "lost"
            BY <2>1, <2>2, WorkSeen DEF Seen, Pending
        <2>6. workOf(c)' = "handed"
            BY <1>4, <2>1, <2>4, WorkSeenNext DEF Seen, Pending, Active
        <2>7. \A d \in Tasks \ {c} : Alike(th, d)
            BY <1>1, <1>2 DEF Alike
        <2>8. SameButFor(c) /\ SameTries
            BY <1>4, <1>5, <2>7, AlikeKeeps DEF SameButFor, SameTries
        <2> QED
            BY <1>1, <2>1, <2>5, <2>6, <2>8, Moves
    <1> QED
        BY <1>1, <1>6, <1>7

\* Yield is a step of Dispatch or a stutter.
LEMMA YieldRefines ==
    ASSUME TypeOK, TypeOK', HandsMatch, NEW th \in Threads, Yield(th)
    PROVE  UNCHANGED D!vars
    <1>1. pc[th] = "yield" /\ crashes' = crashes
        BY DEF Yield, spent
    <1>2. PICK c \in Tasks : c = job[th]
        BY <1>1, Locs DEF TypeOK
    <1>3. StopAccepted(task[c])
        BY <1>1, <1>2 DEF HandsMatch, StopAccepted
    <1>4. /\ task' = [task EXCEPT ![c] = Stopped(@)] /\ UNCHANGED job
          /\ pc' = [pc EXCEPT ![th] = "block"]
        BY <1>2, <1>3 DEF Yield, Goto
    <1>5. /\ task'[c].status = task[c].status
          /\ \A d \in Tasks : task'[d].failures = task[d].failures
          /\ \A d \in Tasks \ {c} : task'[d] = task[d]
        BY <1>4, WritesChange, WritesLeave DEF Claimants
    <1>6. OthersStay(th) /\ pc[th] \in Flying /\ pc'[th] \in Flying
        BY <1>1, <1>4 DEF TypeOK, OthersStay, Flying
    <1> QED
        BY <1>1, <1>2, <1>4, <1>5, <1>6, InFlightStays

\* Complete is a step of Dispatch or a stutter.
LEMMA CompleteRefines ==
    ASSUME TypeOK, TypeOK', HandsMatch, NEW th \in Threads, Complete(th)
    PROVE  D!Next
    <1>1. pc[th] = "done" /\ crashes' = crashes /\ UNCHANGED job
        BY DEF Complete, spent
    <1>2. PICK c \in Tasks : c = job[th]
        BY <1>1, Locs DEF TypeOK
    <1>3. Pending(task[c])
        BY <1>1, <1>2 DEF HandsMatch
    <1>4. /\ task' = [task EXCEPT ![c] = Done(@)]
          /\ pc' = [pc EXCEPT ![th] = "pop"]
        BY <1>2, <1>3 DEF Complete, Goto, DoneAccepted
    <1>5. /\ task'[c].status = "completed"
          /\ \A d \in Tasks : task'[d].failures = task[d].failures
          /\ \A d \in Tasks \ {c} : task'[d] = task[d]
        BY <1>4, WritesChange, DoneLetsGo DEF Claimants
    <1>6. OthersStay(th) /\ \A d \in Tasks : Alike(th, d)
        BY <1>1, <1>4 DEF TypeOK, OthersStay, Alike, Flying, Charging
    <1>7. InFlightFor(c)
        BY <1>1, <1>2, FlightSeen DEF Flying
    <1>8. workOf(c) = "running" /\ workOf(c)' = "closed"
        BY <1>3, <1>5, <1>7, FlightIsSeen, WorkSeenNext DEF Seen
    <1>9. SameButFor(c) /\ SameTries
        BY <1>5, <1>6, AlikeKeeps DEF SameButFor, SameTries
    <1> QED
        BY <1>1, <1>8, <1>9, Moves

\* A run that is over: what was not closed is waiting again or handed over.
LEMMA PopRefines ==
    ASSUME Undisturbed, TypeOK, TypeOK', DecidingAlone, OneRunPerTask, HandsMatch,
           NEW th \in Threads, Pop(th)
    PROVE  D!Next \/ UNCHANGED D!vars
    <1>1. /\ pc[th] = "pop" /\ crashes' = crashes /\ UNCHANGED <<task, job>>
          /\ pc' = [pc EXCEPT ![th] = "clear"]
        BY DEF Pop, Goto, store, spent
    <1>2. PICK c \in Tasks : c = job[th]
        BY <1>1, Locs DEF TypeOK
    <1>3. OthersStay(th) /\ pc'[th] = "clear"
        BY <1>1 DEF TypeOK, OthersStay
    <1>4. InFlightFor(c)
        BY <1>1, <1>2, FlightSeen DEF Flying
    <1>5. \A a \in Threads \ {th} : job[a] = c => pc[a] \notin Flying
        BY <1>1, <1>2, Locs DEF Undisturbed, OneRunPerTask, OneHand, Holding, Flying
    <1>6. ~BeingRecovered(c)
        BY <1>4, RecoveredNotInFlight, FlightSeen DEF Charging
    <1>7. ~InFlightFor(c)' /\ ~BeingRecovered(c)'
        BY <1>1, <1>3, <1>5, <1>6, FlightSeen, FlightSeenNext DEF OthersStay, Flying, Charging
    <1>8. SameTries
        BY <1>1 DEF SameTries
    <1>9. \A d \in Tasks \ {c} : workOf(d)' = workOf(d)
        <2>1. \A d \in Tasks \ {c} : Alike(th, d)
            BY <1>1, <1>2 DEF Alike
        <2> QED
            BY <1>1, <1>3, <2>1, AlikeKeeps
    <1>10. CASE Pending(task[c])
        <2>1. ~Active(task[c])
            BY <1>1, <1>2 DEF HandsMatch
        <2>2. workOf(c) = "running"
            BY <1>4, <1>10, FlightIsSeen
        <2>3. workOf(c)' = IF task[c].afk THEN "waiting" ELSE "handed"
            BY <1>1, <1>7, <1>10, <2>1, WorkSeenNext DEF Seen, Pending, Active
        <2>4. task[c].afk => task[c].failures \in 1..(MaxFailures - 1)
            BY <1>1, <1>2, <1>10 DEF HandsMatch
        <2>5. SameButFor(c)
            BY <1>9 DEF SameButFor
        <2> QED
            BY <1>1, <1>8, <2>2, <2>3, <2>4, <2>5, Moves
    <1>11. CASE ~Pending(task[c])
        <2>1. workOf(c)' = workOf(c)
            <3>1. task[c].status \in {"absent", "completed"}
                BY <1>11 DEF TypeOK, TaskRecord, Statuses, Pending
            <3> QED
                BY <1>1, <3>1, WorkSeen, WorkSeenNext DEF Seen
        <2> QED
            BY <1>1, <1>8, <1>9, <2>1, Stutters
    <1> QED
        BY <1>10, <1>11

\* Crash is a step of Dispatch or a stutter.
LEMMA CrashRefines ==
    ASSUME TypeOK, TypeOK', Crash
    PROVE  D!Next
    <1>1. /\ crashes' = crashes + 1 /\ UNCHANGED task
          /\ pc' = [th \in Threads |-> "idle"]
        BY DEF Crash, store
    <1>2. \A c \in Tasks : ~InFlightFor(c)' /\ ~BeingRecovered(c)'
        BY <1>1, FlightSeenNext DEF Flying, Charging
    <1>3. ASSUME NEW c \in Tasks
          PROVE  IF workOf(c) \in {"running", "lost"}
                 THEN workOf(c)' \in {"lost", "waiting", "handed"}
                 ELSE workOf(c)' = workOf(c)
        <2>1. workOf(c)' = Seen(task[c], FALSE, FALSE)
            BY <1>1, <1>2, WorkSeenNext DEF Seen
        <2> QED
            BY <2>1, WorkSeen DEF Seen
    <1>4. SameTries
        BY <1>1 DEF SameTries
    <1> QED
        BY <1>1, <1>3, <1>4, Dies

\* Every step is a step of Dispatch or a stutter.
LEMMA RefinesStep ==
    ASSUME Undisturbed, TypeOK, TypeOK', DecidingAlone, OneRunPerTask, RoomInv, StoreMatches,
           [Next]_vars
    PROVE  [D!Next]_(D!vars)
    <1> USE DEF StoreMatches
    <1>1. ASSUME NEW th \in Threads, Decide(th)
          PROVE  D!Next \/ UNCHANGED D!vars
        BY <1>1, QuietActions, EmitRefines, ExpireRefines, SelectRefines, TripRefines,
           ClaimRefines DEF Decide
    <1>2. ASSUME NEW th \in Threads, Settle(th)
          PROVE  D!Next \/ UNCHANGED D!vars
        BY <1>2, QuietActions, FailReleaseRefines, FailCountRefines, BlockRefines,
           YieldRefines, CompleteRefines, PopRefines DEF Settle
    <1>3. ASSUME NEW th \in Threads, Fault(th) \/ MarkFails(th)
          PROVE  FALSE
        <2>1. faults \in Nat /\ faults < MaxFaults
            BY <1>3, PipelineAssumption DEF Fault, MarkFails, TypeOK
        <2> QED
            BY <2>1 DEF Undisturbed
    <1>4. ~Person
        BY DEF Person, Undisturbed
    <1>5. CASE UNCHANGED vars
        <2>1. \A c \in Tasks : workOf(c)' = workOf(c)
            BY <1>5 DEF vars, workOf, InFlightFor, BeingRecovered
        <2> QED
            BY <1>5, <2>1, Stutters DEF vars, SameTries
    <1> QED
        BY <1>1, <1>2, <1>3, <1>4, <1>5, CrashRefines DEF Next, Step

\* While only pu writes the store, a task has one run at a time and no command fails,
\* the store says of each task what the thread that has it in hand takes it to be.
THEOREM StoreMatchesInvariant ==
    ASSUME Undisturbed
    PROVE  Spec => []StoreMatches
    <1>1. Init => StoreMatches
        BY Locs DEF Init, StoreMatches, ClaimsAreOpen, HandsMatch, ListsMatch, Created,
           Absent, Active
    <1>2. TypeOK /\ DecidingAlone /\ OneRunPerTask /\ StoreMatches /\ [Next]_vars
              => StoreMatches'
        BY StoreMatchesStep
    <1> QED
        BY <1>1, <1>2, TypeCorrect, OneTickDecides, OneRunPerTaskInvariant, PTL DEF Spec

-----------------------------------------------------------------------------
(* The results.                                                            *)

\* Two sessions never share a target repository, whatever the ceiling and
\* whatever crashes, failing commands and people do.
THEOREM RepositoriesAreExclusive == Spec => []OneSessionPerRepo
    <1>1. RepoInv => OneSessionPerRepo
        BY Locs DEF RepoInv, ReposDistinct, InRepo, OneSessionPerRepo, InSession
    <1> QED
        BY <1>1, RepoInvariant, PTL

\* A live session of a guarded task is never recovered as lost, at any ceiling.
LiveGuardedRunNeverLost ==
    \A a, b \in Threads :
        (InSession(a) /\ Guarded(job[a]) /\ pc[b] \in Recovering \ {"recover", "recCheck"})
            => job[a] # job[b]

\* Recovery never takes for lost a live run of a task in a target repository, nor
\* any live run at a ceiling of one.
THEOREM GuardedRunsAreNotRecovered == Spec => []LiveGuardedRunNeverLost
    <1>1. RepoInv /\ OneRunPerTask => LiveGuardedRunNeverLost
        BY Locs DEF RepoInv, LostIsUnregistered, OneRunPerTask, GuardedAreRegistered,
           LiveGuardedRunNeverLost, InSession
    <1> QED
        BY <1>1, RepoInvariant, OneRunPerTaskInvariant, PTL

\* Where a task has one run at a time -- at the default ceiling of one, or at any
\* ceiling if every task works in a repository -- no live session is recovered as
\* lost.
THEOREM RunsAreNotRecovered ==
    ASSUME \A c \in Tasks : Guarded(c)
    PROVE  Spec => []LiveRunNeverLost
    <1>1. TypeOK /\ LiveGuardedRunNeverLost => LiveRunNeverLost
        BY Locs DEF TypeOK, LiveGuardedRunNeverLost, LiveRunNeverLost, InSession
    <1> QED
        BY <1>1, TypeCorrect, GuardedRunsAreNotRecovered, PTL

\* The sessions of guarded tasks.
GuardedSessions == {th \in Threads : InSession(th) /\ Guarded(job[th])}
GuardedSessionsWithinCeiling == Cardinality(GuardedSessions) <= Ceiling

\* There are no more sessions of guarded tasks than the ceiling allows: each is
\* registered until its own `finally`, under a task of its own.
THEOREM GuardedSessionsAreBounded == Spec => []GuardedSessionsWithinCeiling
    <1>1. TypeOK /\ OneRunPerTask /\ RoomInv => GuardedSessionsWithinCeiling
        <2> SUFFICES ASSUME TypeOK, OneRunPerTask, RoomInv
                     PROVE  Cardinality(GuardedSessions) <= Ceiling
            BY DEF GuardedSessionsWithinCeiling
        <2> DEFINE f == [th \in GuardedSessions |-> job[th]]
        <2>1. \A th \in GuardedSessions : th \in Threads /\ pc[th] \in Launched /\ Guarded(job[th])
            BY Locs DEF GuardedSessions, InSession
        <2>2. f \in [GuardedSessions -> running]
            BY <2>1 DEF OneRunPerTask, GuardedAreRegistered
        <2>3. \A a, b \in GuardedSessions : f[a] = f[b] => a = b
            BY <2>1 DEF OneRunPerTask, OneHand, Holding
        <2>4. f \in Injection(GuardedSessions, running)
            BY <2>2, <2>3 DEF Injection, IsInjective
        <2>5. IsFiniteSet(running) /\ Cardinality(running) \in Nat
            BY RegisteredFinite DEF TypeOK
        <2> HIDE DEF f
        <2>6. IsFiniteSet(GuardedSessions) /\ Cardinality(GuardedSessions) <= Cardinality(running)
            BY <2>4, <2>5, FS_Injection
        <2>7. Cardinality(GuardedSessions) \in Nat
            BY <2>6, FS_CardinalityType
        <2> QED
            BY <2>5, <2>6, <2>7, PipelineAssumption DEF RoomInv, RegisteredWithin
    <1> QED
        BY <1>1, TypeCorrect, OneRunPerTaskInvariant, RegistrationsWithinCeiling, PTL

\* Where a task has one run at a time there are no more sessions than the ceiling
\* allows, however high it is set.
THEOREM SessionsAreBounded ==
    ASSUME \A c \in Tasks : Guarded(c)
    PROVE  Spec => []SessionsWithinCeiling
    <1>1. TypeOK /\ GuardedSessionsWithinCeiling => SessionsWithinCeiling
        <2> SUFFICES ASSUME TypeOK
                     PROVE  {th \in Threads : InSession(th)} = GuardedSessions
            BY DEF GuardedSessionsWithinCeiling, SessionsWithinCeiling
        <2>1. \A th \in Threads : InSession(th) => job[th] \in Tasks
            BY Locs DEF TypeOK, InSession
        <2> QED
            BY <2>1 DEF GuardedSessions
    <1> QED
        BY <1>1, TypeCorrect, GuardedSessionsAreBounded, PTL

\* While the process lives and every command succeeds, a claim of pu's is always
\* in the hands of a run or has a marker, whatever people do meanwhile: no way
\* a run can settle leaves its claim behind.
THEOREM ClaimsAreAccountedFor ==
    ASSUME MaxCrashes = 0, MaxFaults = 0
    PROVE  Spec => []NoStrandedClaim
    <1>1. ClaimInHand => NoStrandedClaim
        BY DEF ClaimInHand, NoStrandedClaim, Accounted
    <1>2. Spec => []ClaimInHand
        BY ClaimInHandInvariant DEF Calm
    <1> QED
        BY <1>1, <1>2, PTL

\* A task that failed for the last time is no longer given to an agent, until a
\* person rearms it, which no hypothesis but this one excludes.
THEOREM LastFailureGivesUp ==
    ASSUME MaxCrashes = 0, MaxFaults = 0, "rearm" \notin Powers
    PROVE  Spec => []GivenUpAfterLastFailure
    <1>1. GivingUp => GivenUpAfterLastFailure
        BY DEF GivingUp, GivenUpAfterLastFailure, Runnable
    <1>2. Spec => []GivingUp
        BY GivingUpInvariant DEF Calm
    <1> QED
        BY <1>1, <1>2, PTL

\* Where a task has one run at a time no session runs what has been handed to a
\* person, whatever crashes, faults and people do.
THEOREM HandedOverStaysIdle ==
    ASSUME \A c \in Tasks : Guarded(c)
    PROVE  Spec => []HandedOverIsIdle
    <1>1. TypeOK /\ ChosenNotHanded => HandedOverIsIdle
        BY Locs DEF TypeOK, ChosenNotHanded, HandedOverIsIdle, InSession
    <1> QED
        BY <1>1, TypeCorrect, ChosenNotHandedInvariant, PTL

\* Where a task has one run at a time a run is charged at most one failure, by its
\* own settling or by the recovery of a lost run, whatever crashes and faults there
\* are, as long as people do not claim tasks beside pu.
THEOREM FailuresHaveLaunches ==
    ASSUME \A c \in Tasks : Guarded(c), "claim" \notin Powers
    PROVE  Spec => []OneFailurePerLaunch
    <1>1. ChargesOpen => OneFailurePerLaunch
        BY DEF ChargesOpen, OneFailurePerLaunch
    <1>2. Spec => []ChargesOpen
        BY ChargesOpenInvariant
    <1> QED
        BY <1>1, <1>2, PTL

\* At the default ceiling of one, and at any ceiling if every task works in a
\* repository, while only pu writes the store and no command fails, every tick
\* implements Dispatch: its ceiling, its repository rule and its accounting, for any
\* threads, tasks and repositories and any number of crashes.
THEOREM TickImplementsDispatch ==
    ASSUME \A c \in Tasks : Guarded(c), Powers = {}, MaxFaults = 0
    PROVE  Spec => ImplementsDispatch
    <1>1. Undisturbed
        BY DEF Undisturbed
    <1>2. Init => D!Init
        <2> SUFFICES ASSUME Init PROVE D!Init
            OBVIOUS
        <2>1. TypeOK
            BY TypeInit
        <2>2. \A c \in Tasks : ~InFlightFor(c) /\ ~BeingRecovered(c)
            BY FlightSeen DEF Init, Flying, Charging
        <2>3. \A c \in Tasks : task[c] \in {Created, Absent}
            BY DEF Init
        <2>4. \A c \in Tasks : workOf(c) \in {"absent", "waiting"} /\ task[c].failures = 0
            BY <2>1, <2>2, <2>3, WorkSeen DEF Seen, Created, Absent, Active
        <2>5. crashes = 0
            BY DEF Init
        <2> QED
            BY <2>4, <2>5 DEF D!Init
    <1>3. TypeOK /\ TypeOK' /\ DecidingAlone /\ OneRunPerTask /\ RoomInv /\ StoreMatches
              /\ [Next]_vars => [D!Next]_(D!vars)
        BY <1>1, RefinesStep
    <1>4. Spec => []StoreMatches
        BY <1>1, StoreMatchesInvariant
    <1> QED
        BY <1>2, <1>3, <1>4, TypeCorrect, OneTickDecides, OneRunPerTaskInvariant,
           RegistrationsWithinCeiling, PTL
        DEF Spec, ImplementsDispatch, D!Spec
=============================================================================
