------------------------------ MODULE Pipeline ------------------------------
(***************************************************************************)
(* pu's tick (pu/pipeline.py): every POST /trigger runs `tick` in a thread *)
(* of its own.  One thread at a time decides, under _TICK_LOCK: it         *)
(* recovers lost runs, passes the gates, creates trigger work, expires     *)
(* stale work, checks the ceiling, then walks a snapshot of the queue to   *)
(* the task it claims.  The session itself and the settling of its outcome *)
(* run outside the lock.  Meanwhile people drive the same Taskwarrior      *)
(* store, and the process can die at any step.                             *)
(*                                                                         *)
(* A step of the model is one command on the store, one file operation or  *)
(* one access to _RUNNING: everything another thread can interleave with.  *)
(***************************************************************************)
EXTENDS Taskwarrior, FiniteSets

CONSTANTS
    Threads,          \* the server threads that run ticks
    Tasks,            \* the tasks that can exist
    Queued,           \* those in the store at the start
    NoRepo,           \* the task's type does not run in a target repository
    RepoOf,           \* Tasks -> repositories \cup {NoRepo}
    Rank,             \* Tasks -> Nat: priority first, then age (runnable's sort)
    Untyped,          \* tasks no enabled session type (or no live role) claims
    Unpreparable,     \* tasks whose repository is missing or cannot be prepared
    Expiring,         \* tasks that carry an `expires` deadline
    Ceiling,          \* max_concurrent()
    MaxFailures,      \* MAX_FAILURES
    RepeatThreshold,  \* DEFAULT_REPEAT_THRESHOLD
    GatesBlock,       \* whether the cost and usage gates may block
    Powers,           \* what people do during the run
    MaxHands,         \* bound: how often they do it
    MaxCrashes,       \* bound: how often the process dies
    MaxFaults         \* bound: how often a command or file operation fails

AllPowers == {"claim", "release", "close", "rearm", "take", "pause"}

ASSUME PipelineAssumption ==
    /\ IsFiniteSet(Tasks)
    /\ "nobody" \notin Threads
    /\ Queued \subseteq Tasks /\ Untyped \subseteq Tasks
    /\ Unpreparable \subseteq Tasks /\ Expiring \subseteq Tasks
    /\ DOMAIN RepoOf = Tasks
    /\ Rank \in [Tasks -> Nat]
    /\ Ceiling \in Nat \ {0}
    /\ MaxFailures \in Nat \ {0}
    /\ RepeatThreshold \in Nat \ {0}
    /\ GatesBlock \in BOOLEAN
    /\ Powers \subseteq AllPowers
    /\ MaxHands \in Nat /\ MaxCrashes \in Nat /\ MaxFaults \in Nat

VARIABLES
    task,      \* Taskwarrior's record of each task
    markers,   \* inflight/<uuid>.json: tasks with a marker file
    tracker,   \* repeat_tracker.json: last task selected, how many times running
    paused,    \* paused.json
    lock,      \* _TICK_LOCK: the deciding thread, or "nobody"
    running,   \* _RUNNING: tasks registered as in flight in this process
    pc,        \* where each thread is
    job,       \* the task a thread has in hand
    todo,      \* what is left of the snapshot a thread is walking
    busy,      \* busy_repos as the thread read them
    launches,  \* history: how often pu claimed each task
    hands, crashes, faults  \* how much of each bound is spent

store == <<task, launches>>
files == <<markers, tracker, paused>>
locals == <<pc, job, todo, busy>>
spent == <<hands, crashes, faults>>
vars == <<task, markers, tracker, paused, lock, running, pc, job, todo, busy,
          launches, hands, crashes, faults>>

-----------------------------------------------------------------------------
\* Recovery runs with the lock held, as do the gates and the selection.
Recovering == {"recover", "recCheck", "recGet", "recRelease", "recCount", "recBlock"}
Selecting == {"queue", "select", "trip", "claim", "mark", "register"}
Deciding == Recovering \cup {"emit", "sweep", "expire", "ceiling"} \cup Selecting
\* A launched run: the session, the settling of it, and the tick's `finally`.
Settling == {"release", "count", "yield", "block", "done"}
Launched == {"run", "pop"} \cup Settling
Locations == {"idle", "clear"} \cup Deciding \cup Launched

\* Where a thread has a task in hand.
HasJob == {"clear"} \cup Launched \cup (Recovering \ {"recover"})
              \cup {"trip", "claim", "mark", "register"}

NoTask == "none"
Repos == {RepoOf[c] : c \in Tasks} \ {NoRepo}

Init ==
    /\ task = [c \in Tasks |-> IF c \in Queued THEN Created ELSE Absent]
    /\ markers = {} /\ running = {}
    /\ tracker = [uuid |-> NoTask, count |-> 0]
    /\ paused = FALSE
    /\ lock = "nobody"
    /\ pc = [th \in Threads |-> "idle"]
    /\ job = [th \in Threads |-> NoTask]
    /\ todo = [th \in Threads |-> {}]
    /\ busy = [th \in Threads |-> {}]
    /\ launches = [c \in Tasks |-> 0]
    /\ hands = 0 /\ crashes = 0 /\ faults = 0

-----------------------------------------------------------------------------
\* Control.

Goto(th, l) == pc' = [pc EXCEPT ![th] = l]

\* The deciding thread returns or raises: `finally: _TICK_LOCK.release()`.
Leave(th) ==
    /\ lock' = "nobody"
    /\ Goto(th, "idle")
    /\ job' = [job EXCEPT ![th] = NoTask]
    /\ todo' = [todo EXCEPT ![th] = {}]
    /\ busy' = [busy EXCEPT ![th] = {}]

\* An exception: a deciding tick releases the lock and answers an error, a
\* launched one goes through its `finally`.
Raise(th) ==
    IF pc[th] \in Deciding
    THEN Leave(th)
    ELSE Goto(th, "pop") /\ UNCHANGED <<lock, job, todo, busy>>

\* The same store commands serve recovery and settling.
Here(th, inRecovery, inRun) == pc[th] \in {inRecovery, inRun}
Then(th, inRecovery, inRun) ==
    Goto(th, IF pc[th] \in Recovering THEN inRecovery ELSE inRun)

-----------------------------------------------------------------------------
\* POST /trigger.  A poke that finds the lock held is declined and changes
\* nothing; one that gets it lists the marker files.
TickBegin(th) ==
    /\ pc[th] = "idle"
    /\ lock = "nobody"
    /\ lock' = th
    /\ todo' = [todo EXCEPT ![th] = markers]
    /\ Goto(th, "recover")
    /\ UNCHANGED <<store, files, running, job, busy, spent>>

\* Read the next marker.  One that has gone meanwhile is passed over.
RecoverRead(th) ==
    /\ pc[th] = "recover"
    /\ \E c \in todo[th] :
          /\ todo' = [todo EXCEPT ![th] = @ \ {c}]
          /\ IF c \in markers
             THEN Goto(th, "recCheck") /\ job' = [job EXCEPT ![th] = c]
             ELSE UNCHANGED <<pc, job>>
    /\ UNCHANGED <<store, files, lock, running, busy, spent>>

\* Mutation: any marker is taken for a dead process's.
RecoverCheckBlind(th) ==
    /\ pc[th] = "recCheck"
    /\ Goto(th, "recGet")
    /\ markers' = markers \ {job[th]}
    /\ UNCHANGED <<store, tracker, paused, lock, running, job, todo, busy, spent>>

\* A marker whose run is registered here is a live run's; any other is
\* cleared and its run treated as lost.
RecoverCheck(th) ==
    /\ pc[th] = "recCheck"
    /\ IF job[th] \in running
       THEN Goto(th, "recover") /\ UNCHANGED markers
       ELSE Goto(th, "recGet") /\ markers' = markers \ {job[th]}
    /\ UNCHANGED <<store, tracker, paused, lock, running, job, todo, busy, spent>>

RecoverGet(th) ==
    /\ pc[th] = "recGet"
    /\ Goto(th, IF Pending(task[job[th]]) THEN "recRelease" ELSE "recover")
    /\ UNCHANGED <<store, files, lock, running, job, todo, busy, spent>>

\* Mutation: the refusal to stop an idle task is ignored.
FailReleaseTolerant(th) ==
    /\ Here(th, "recRelease", "release")
    /\ task' = [task EXCEPT ![job[th]] = Stopped(@)]
    /\ Then(th, "recCount", "count")
    /\ UNCHANGED <<launches, files, lock, running, job, todo, busy, spent>>

\* _fail: release, annotate and count, and on the last failure block.
FailRelease(th) ==
    /\ Here(th, "recRelease", "release")
    /\ IF StopAccepted(task[job[th]])
       THEN /\ task' = [task EXCEPT ![job[th]] = Stopped(@)]
            /\ Then(th, "recCount", "count")
            /\ UNCHANGED <<lock, job, todo, busy>>
       ELSE Raise(th) /\ UNCHANGED task
    /\ UNCHANGED <<launches, files, running, spent>>

\* Mutation: the last failure is retried like the first.
FailCountForever(th) ==
    /\ Here(th, "recCount", "count")
    /\ LET tried == task[job[th]].failures
       IN task' = [task EXCEPT ![job[th]].failures =
                       IF tried < MaxFailures THEN tried + 1 ELSE tried]
    /\ Then(th, "recover", "pop")
    /\ UNCHANGED <<launches, files, lock, running, job, todo, busy, spent>>

FailCount(th) ==
    /\ Here(th, "recCount", "count")
    /\ LET tried == task[job[th]].failures
           count == IF tried < MaxFailures THEN tried + 1 ELSE tried
       IN /\ task' = [task EXCEPT ![job[th]].failures = count]
          /\ IF count >= MaxFailures
             THEN Then(th, "recBlock", "block")
             ELSE Then(th, "recover", "pop")
    /\ UNCHANGED <<launches, files, lock, running, job, todo, busy, spent>>

\* Mutation: the afk tag is left on.
BlockKeepsAfk(th) ==
    /\ Here(th, "recBlock", "block")
    /\ task' = [task EXCEPT ![job[th]].needs_human = TRUE]
    /\ Then(th, "recover", "pop")
    /\ UNCHANGED <<launches, files, lock, running, job, todo, busy, spent>>

Block(th) ==
    /\ Here(th, "recBlock", "block")
    /\ task' = [task EXCEPT ![job[th]] = Blocked(@)]
    /\ Then(th, "recover", "pop")
    /\ UNCHANGED <<launches, files, lock, running, job, todo, busy, spent>>

\* The cost and usage gates, after recovery and before anything is created.
Gates(th) ==
    /\ pc[th] = "recover" /\ todo[th] = {}
    /\ \/ /\ GatesBlock
          /\ Leave(th)
       \/ /\ Goto(th, "emit")
          /\ UNCHANGED <<lock, job, todo, busy>>
    /\ UNCHANGED <<store, files, running, spent>>

\* emit_due_work: whatever the triggers that are due create.
Emit(th) ==
    /\ pc[th] = "emit"
    /\ \E new \in SUBSET {c \in Tasks : task[c] = Absent} :
          task' = [c \in Tasks |-> IF c \in new THEN Created ELSE task[c]]
    /\ Goto(th, "sweep")
    /\ UNCHANGED <<launches, files, lock, running, job, todo, busy, spent>>

\* _expire_stale: list the unclaimed work that is past its deadline...
Sweep(th) ==
    /\ pc[th] = "sweep"
    /\ \E late \in SUBSET {c \in Expiring : Pending(task[c]) /\ ~Active(task[c])} :
          todo' = [todo EXCEPT ![th] = late]
    /\ Goto(th, "expire")
    /\ UNCHANGED <<store, files, lock, running, job, busy, spent>>

\* ... and close each, as the store has it by then.
Expire(th) ==
    /\ pc[th] = "expire"
    /\ \/ \E c \in todo[th] :
             IF DoneAccepted(task[c])
             THEN /\ task' = [task EXCEPT ![c] = Done(@)]
                  /\ todo' = [todo EXCEPT ![th] = @ \ {c}]
                  /\ UNCHANGED <<pc, lock, job, busy>>
             ELSE Raise(th) /\ UNCHANGED task
       \/ /\ todo[th] = {}
          /\ Goto(th, "ceiling")
          /\ UNCHANGED <<task, lock, job, todo, busy>>
    /\ UNCHANGED <<launches, files, running, spent>>

\* Mutation: one session too many.
CheckCeilingOffByOne(th) ==
    /\ pc[th] = "ceiling"
    /\ \E allowed \in {1, Ceiling} :
          IF paused \/ Cardinality(running) > allowed
          THEN Leave(th)
          ELSE /\ busy' = [busy EXCEPT ![th] = {RepoOf[c] : c \in running} \ {NoRepo}]
               /\ Goto(th, "queue")
               /\ UNCHANGED <<lock, job, todo>>
    /\ UNCHANGED <<store, files, running, spent>>

\* The kill switch, then the ceiling -- 1 within the runway of the budget or
\* of a usage limit -- against a snapshot of _RUNNING, which also says which
\* repositories are taken.
CheckCeiling(th) ==
    /\ pc[th] = "ceiling"
    /\ \E allowed \in {1, Ceiling} :
          IF paused \/ Cardinality(running) >= allowed
          THEN Leave(th)
          ELSE /\ busy' = [busy EXCEPT ![th] = {RepoOf[c] : c \in running} \ {NoRepo}]
               /\ Goto(th, "queue")
               /\ UNCHANGED <<lock, job, todo>>
    /\ UNCHANGED <<store, files, running, spent>>

ReadQueue(th) ==
    /\ pc[th] = "queue"
    /\ todo' = [todo EXCEPT ![th] = {c \in Tasks : Runnable(task[c])}]
    /\ Goto(th, "select")
    /\ UNCHANGED <<store, files, lock, running, job, busy, spent>>

\* The next candidate of the snapshot: passed over, handed over at once, or
\* selected -- which the repeat breaker counts before any work is done.
Foremost(S) == {c \in S : \A d \in S : Rank[c] <= Rank[d]}
\* Mutation: a busy repository is not looked at.
PassedOverIfUntyped(th, c) == c \in Untyped
PassedOver(th, c) == c \in Untyped \/ RepoOf[c] \in busy[th]
\* guards.note_selection
TimesSelected(c) == IF tracker.uuid = c THEN tracker.count + 1 ELSE 1

Select(th) ==
    /\ pc[th] = "select"
    /\ \E c \in Foremost(todo[th]) :
          /\ todo' = [todo EXCEPT ![th] = @ \ {c}]
          /\ \/ /\ PassedOver(th, c)
                /\ UNCHANGED <<task, tracker, pc, job>>
             \/ /\ ~PassedOver(th, c) /\ c \in Unpreparable
                /\ task' = [task EXCEPT ![c] = Blocked(@)]
                /\ UNCHANGED <<tracker, pc, job>>
             \/ /\ ~PassedOver(th, c) /\ c \notin Unpreparable
                /\ tracker' = [uuid |-> c, count |-> TimesSelected(c)]
                /\ Goto(th, IF TimesSelected(c) >= RepeatThreshold THEN "trip" ELSE "claim")
                /\ job' = [job EXCEPT ![th] = c]
                /\ UNCHANGED task
    /\ UNCHANGED <<launches, markers, paused, lock, running, busy, spent>>

NothingRunnable(th) ==
    /\ pc[th] = "select" /\ todo[th] = {}
    /\ Leave(th)
    /\ UNCHANGED <<store, files, running, spent>>

\* The breaker: hand the task over and forget the count.
Trip(th) ==
    /\ pc[th] = "trip"
    /\ task' = [task EXCEPT ![job[th]] = Blocked(@)]
    /\ tracker' = [uuid |-> NoTask, count |-> 0]
    /\ Leave(th)
    /\ UNCHANGED <<launches, markers, paused, running, spent>>

\* Claim before work, marker after claim, registration after marker.
Claim(th) ==
    /\ pc[th] = "claim"
    /\ IF StartAccepted(task[job[th]])
       THEN /\ task' = [task EXCEPT ![job[th]] = Started(@, "pu")]
            /\ launches' = [launches EXCEPT ![job[th]] = @ + 1]
            /\ Goto(th, "mark")
            /\ UNCHANGED <<lock, job, todo, busy>>
       ELSE Raise(th) /\ UNCHANGED store
    /\ UNCHANGED <<files, running, spent>>

Mark(th) ==
    /\ pc[th] = "mark"
    /\ markers' = markers \cup {job[th]}
    /\ Goto(th, "register")
    /\ UNCHANGED <<store, tracker, paused, lock, running, job, todo, busy, spent>>

\* _write_inflight swallows an OSError: the run goes on without a marker.
MarkFails(th) ==
    /\ faults < MaxFaults
    /\ faults' = faults + 1
    /\ pc[th] = "mark"
    /\ Goto(th, "register")
    /\ UNCHANGED <<store, files, lock, running, job, todo, busy, hands, crashes>>

Register(th) ==
    /\ pc[th] = "register"
    /\ running' = running \cup {job[th]}
    /\ lock' = "nobody"
    /\ todo' = [todo EXCEPT ![th] = {}]
    /\ busy' = [busy EXCEPT ![th] = {}]
    /\ Goto(th, "run")
    /\ UNCHANGED <<store, files, job, spent>>

-----------------------------------------------------------------------------
\* Outside the lock: the session, and what its outcome means for the task.

\* _run_claimed: launch or infrastructure failure and a report that says
\* failed go to _fail; partial or needs-a-person is handed over; the rest is
\* completed.
SessionEnds(th) ==
    /\ pc[th] = "run"
    /\ \E next \in {"release", "yield", "done"} : Goto(th, next)
    /\ UNCHANGED <<store, files, lock, running, job, todo, busy, spent>>

\* Mutation: the claim is kept, as it was before 2026-11-03.
YieldKeepsClaim(th) ==
    /\ pc[th] = "yield"
    /\ Goto(th, "block")
    /\ UNCHANGED <<store, files, lock, running, job, todo, busy, spent>>

\* Handing over releases first, then blocks.
Yield(th) ==
    /\ pc[th] = "yield"
    /\ IF StopAccepted(task[job[th]])
       THEN /\ task' = [task EXCEPT ![job[th]] = Stopped(@)]
            /\ Goto(th, "block")
            /\ UNCHANGED <<lock, job, todo, busy>>
       ELSE Raise(th) /\ UNCHANGED task
    /\ UNCHANGED <<launches, files, running, spent>>

Complete(th) ==
    /\ pc[th] = "done"
    /\ task' = IF DoneAccepted(task[job[th]])
               THEN [task EXCEPT ![job[th]] = Done(@)] ELSE task
    /\ Goto(th, "pop")
    /\ UNCHANGED <<launches, files, lock, running, job, todo, busy, spent>>

\* Mutation: the finished run stays registered.
PopKeepsRegistration(th) ==
    /\ pc[th] = "pop"
    /\ Goto(th, "clear")
    /\ UNCHANGED <<store, files, lock, running, job, todo, busy, spent>>

\* tick's `finally`: first the registration, then the marker.
Pop(th) ==
    /\ pc[th] = "pop"
    /\ running' = running \ {job[th]}
    /\ Goto(th, "clear")
    /\ UNCHANGED <<store, files, lock, job, todo, busy, spent>>

Clear(th) ==
    /\ pc[th] = "clear"
    /\ markers' = markers \ {job[th]}
    /\ Goto(th, "idle")
    /\ job' = [job EXCEPT ![th] = NoTask]
    /\ UNCHANGED <<store, tracker, paused, lock, running, todo, busy, spent>>

-----------------------------------------------------------------------------
\* The surroundings.

\* A command or a file operation that fails: TaskError or OSError, wherever
\* nothing catches it.  The marker write and removal swallow theirs.
Fault(th) ==
    /\ faults < MaxFaults
    /\ faults' = faults + 1
    /\ pc[th] \in (Deciding \ {"recover", "recCheck", "sweep", "mark", "register"})
                  \cup {"run"} \cup Settling
    /\ Raise(th)
    /\ UNCHANGED <<store, files, running, hands, crashes>>

\* The process dies and is started again: every thread and lock is gone, the
\* store and the state directory stay.
Crash ==
    /\ crashes < MaxCrashes
    /\ crashes' = crashes + 1
    /\ lock' = "nobody" /\ running' = {}
    /\ pc' = [th \in Threads |-> "idle"]
    /\ job' = [th \in Threads |-> NoTask]
    /\ todo' = [th \in Threads |-> {}]
    /\ busy' = [th \in Threads |-> {}]
    /\ UNCHANGED <<store, files, hands, faults>>

\* People and outside sessions, through the service doors or the CLI.
PersonWrites(c, power) ==
    \/ /\ power = "claim" /\ StartAccepted(task[c])
       /\ task' = [task EXCEPT ![c] = Started(@, "person")]
    \/ /\ power = "release" /\ StopAccepted(task[c])
       /\ task' = [task EXCEPT ![c] = Stopped(@)]
    \/ /\ power = "close" /\ DoneAccepted(task[c])
       /\ task' = [task EXCEPT ![c] = Done(@)]
    \/ /\ power = "rearm" /\ Pending(task[c]) /\ ~task[c].afk
       /\ task' = [task EXCEPT ![c].afk = TRUE, ![c].needs_human = FALSE]
    \/ /\ power = "take" /\ Pending(task[c]) /\ task[c].afk
       /\ task' = [task EXCEPT ![c].afk = FALSE]

Person ==
    /\ hands < MaxHands
    /\ hands' = hands + 1
    /\ \/ /\ \E c \in Tasks, power \in Powers : PersonWrites(c, power)
          /\ UNCHANGED paused
       \/ /\ "pause" \in Powers
          /\ paused' = ~paused
          /\ UNCHANGED task
    /\ UNCHANGED <<launches, markers, tracker, lock, running, locals, crashes, faults>>

-----------------------------------------------------------------------------
Decide(th) ==
    \/ TickBegin(th) \/ RecoverRead(th) \/ RecoverCheck(th) \/ RecoverGet(th)
    \/ Gates(th) \/ Emit(th) \/ Sweep(th) \/ Expire(th) \/ CheckCeiling(th)
    \/ ReadQueue(th) \/ Select(th) \/ NothingRunnable(th) \/ Trip(th)
    \/ Claim(th) \/ Mark(th) \/ Register(th)

Settle(th) ==
    \/ SessionEnds(th) \/ FailRelease(th) \/ FailCount(th) \/ Block(th)
    \/ Yield(th) \/ Complete(th) \/ Pop(th) \/ Clear(th)

Step(th) == Decide(th) \/ Settle(th)

Next ==
    \/ \E th \in Threads : Step(th) \/ Fault(th) \/ MarkFails(th)
    \/ Crash
    \/ Person

Spec == Init /\ [][Next]_vars

\* The gateway keeps poking, an unblocked thread keeps running, and the
\* runner ends every session at its timeout.
FairSpec == Spec /\ \A th \in Threads : WF_vars(Step(th))
-----------------------------------------------------------------------------
(* Properties.                                                             *)

\* The range of every variable; a thread past the choice of a task has one.
TypeOK ==
    /\ task \in [Tasks -> TaskRecord(MaxFailures)]
    /\ markers \subseteq Tasks /\ running \subseteq Tasks
    /\ tracker \in [uuid : Tasks \cup {NoTask}, count : Nat]
    /\ paused \in BOOLEAN
    /\ lock \in Threads \cup {"nobody"}
    /\ pc \in [Threads -> Locations]
    /\ job \in [Threads -> Tasks \cup {NoTask}]
    /\ \A th \in Threads : pc[th] \in HasJob => job[th] \in Tasks
    /\ todo \in [Threads -> SUBSET Tasks]
    /\ busy \in [Threads -> SUBSET Repos]
    /\ launches \in [Tasks -> Nat]
    /\ hands \in 0..MaxHands /\ crashes \in 0..MaxCrashes /\ faults \in 0..MaxFaults

InSession(th) == pc[th] = "run"

\* "Two sessions never share a target repository" (pipeline.py): they would
\* share a tree, an index and a branch.  The rule is checked against a
\* snapshot of _RUNNING taken several steps before the registration.
OneSessionPerRepo ==
    \A a, b \in Threads :
        (a # b /\ InSession(a) /\ InSession(b) /\ RepoOf[job[a]] # NoRepo)
            => RepoOf[job[a]] # RepoOf[job[b]]

\* No more sessions than max_concurrent allows, whatever retries and
\* recoveries do to the registrations the ceiling counts.
SessionsWithinCeiling == Cardinality({th \in Threads : InSession(th)}) <= Ceiling

\* Crash recovery never treats the run of a live session as lost: it reads
\* the marker and the registration at different moments.
LiveRunNeverLost ==
    \A a, b \in Threads :
        (InSession(a) /\ pc[b] \in Recovering \ {"recover", "recCheck"}) => job[a] # job[b]

\* A task that has been handed to a person is not being run: handing over
\* takes a release and then a block, and the release alone makes it runnable.
HandedOverIsIdle ==
    \A th \in Threads : InSession(th) => ~task[job[th]].needs_human

\* A claim pu made belongs to a run of this process or has a marker from
\* which the next tick recovers it; anything else is claimed forever.
Accounted(c) == c \in markers \/ \E th \in Threads : pc[th] # "clear" /\ job[th] = c
NoStrandedClaim == \A c \in Tasks : task[c].claim = "pu" => Accounted(c)

\* After its last failure a task is no longer agent-runnable, up to the step
\* that is about to take the afk tag off.
GivenUpAfterLastFailure ==
    \A c \in Tasks :
        (Runnable(task[c]) /\ task[c].failures >= MaxFailures)
            => \E th \in Threads : job[th] = c /\ pc[th] \in {"block", "recBlock"}

\* One run is charged at most one failure, by its own settling or by the
\* recovery that took it for lost, never by both.
OneFailurePerLaunch == \A c \in Tasks : task[c].failures <= launches[c]

\* With nobody interfering, every task that has a session type ends closed
\* or handed to a person: no retry, breaker or recovery loops for ever and
\* no claim or registration is kept for ever.
Finished(c) == ~Pending(task[c]) \/ task[c].needs_human
EveryTaskFinishes == \A c \in Tasks \ Untyped : Pending(task[c]) ~> Finished(c)
=============================================================================
