------------------------------- MODULE Upkeep -------------------------------
(***************************************************************************)
(* What the deciding tick does for the tasks that triggers create, besides  *)
(* choosing one (pu/guards.py): it tells the owner of claims older than a   *)
(* day, each once, and deletes the finished ones when they are old.  The    *)
(* sessions, the doors and people change the tasks meanwhile.               *)
(***************************************************************************)
EXTENDS Naturals

CONSTANTS
    RunTasks,
    Undeletable,    \* tasks whose deletion the store refuses every time
    MaxFailures     \* bound: failed commands, failed writes and deaths

VARIABLES
    life,        \* of each task; stale is claimed for over a day
    told,        \* stale_claims.json
    pruned,      \* prune.json is from less than a day ago
    chore,       \* what the tick is at, and the tasks it has still to treat
    reported,    \* history: how often the owner was told of the claim since it was a day old
    forgotten,   \* history: claims told of and then not remembered
    unheard,     \* history: claims whose notice failed or was never sent
    failures

upkeepVars == <<life, told, pruned, chore, reported, forgotten, unheard, failures>>

NoChore == [step |-> "idle", todo |-> {}]
In(state) == {t \in RunTasks : life[t] = state}

UpkeepInit ==
    /\ life = [t \in RunTasks |-> "queued"]
    /\ told = {} /\ pruned = FALSE /\ chore = NoChore
    /\ reported = [t \in RunTasks |-> 0]
    /\ forgotten = {} /\ unheard = {} /\ failures = 0

Failure == failures < MaxFailures /\ failures' = failures + 1

ClaimRun(t) ==
    /\ life[t] = "queued"
    /\ life' = [life EXCEPT ![t] = "claimed"]
    /\ UNCHANGED <<told, pruned, chore, reported, forgotten, unheard, failures>>

\* A tick is over long before a claim that was made in it is a day old.  A
\* claim with no tick since an earlier one of the same task was told of passes
\* for that one.
ClaimAges(t) ==
    /\ life[t] = "claimed" /\ t \notin chore.todo
    /\ life' = [life EXCEPT ![t] = "stale"]
    /\ reported' = [reported EXCEPT ![t] = 0]
    /\ forgotten' = forgotten \ {t}
    /\ unheard' = IF t \in told THEN unheard \cup {t} ELSE unheard \ {t}
    /\ UNCHANGED <<told, pruned, chore, failures>>

LetGo(t) ==
    /\ life[t] \in {"claimed", "stale"}
    /\ life' \in {[life EXCEPT ![t] = "queued"], [life EXCEPT ![t] = "done"]}
    /\ UNCHANGED <<told, pruned, chore, reported, forgotten, unheard, failures>>

RunGetsOld(t) ==
    /\ life[t] = "done"
    /\ life' = [life EXCEPT ![t] = "old"]
    /\ UNCHANGED <<told, pruned, chore, reported, forgotten, unheard, failures>>

DayPasses ==
    /\ pruned /\ pruned' = FALSE
    /\ UNCHANGED <<life, told, chore, reported, forgotten, unheard, failures>>
-----------------------------------------------------------------------------
\* Only what is still stale is kept.
Remember(stale) == stale

\* newly_stale: saved as told before anybody is.
NewlyStale ==
    /\ chore = NoChore
    /\ chore' = [step |-> "notify", todo |-> In("stale") \ told]
    /\ \/ told' = Remember(In("stale")) /\ UNCHANGED <<forgotten, failures>>
       \/ Failure /\ forgotten' = forgotten \cup (In("stale") \ told) /\ UNCHANGED told
    /\ UNCHANGED <<life, pruned, reported, unheard>>

\* The export fails: nothing is found to be stale, and that is saved.
NothingStale ==
    /\ chore = NoChore /\ Failure
    /\ chore' = [NoChore EXCEPT !.step = "notify"]
    /\ told' = {} /\ forgotten' = forgotten \cup told
    /\ UNCHANGED <<life, pruned, reported, unheard>>

Tell(t) ==
    \/ reported' = [reported EXCEPT ![t] = IF @ < 2 THEN @ + 1 ELSE 2] /\ UNCHANGED <<unheard, failures>>
    \/ Failure /\ unheard' = unheard \cup {t} /\ UNCHANGED reported

\* Mutation: the first of them is told of.
NotifyFirst(t) ==
    /\ chore.step = "notify" /\ t \in chore.todo
    /\ Tell(t)
    /\ chore' = [chore EXCEPT !.todo = {}]
    /\ UNCHANGED <<life, told, pruned, forgotten>>
NotifyStale(t) ==
    /\ chore.step = "notify" /\ t \in chore.todo
    /\ Tell(t)
    /\ chore' = [chore EXCEPT !.todo = @ \ {t}]
    /\ UNCHANGED <<life, told, pruned, forgotten>>

\* prune_runs, at most once a day; a failed export leaves it to the next tick.
PruneBegins ==
    /\ chore.step = "notify" /\ chore.todo = {}
    /\ \/ pruned /\ chore' = NoChore /\ UNCHANGED failures
       \/ ~pruned /\ Failure /\ chore' = NoChore
       \/ ~pruned /\ chore' = [step |-> "prune", todo |-> In("old")] /\ UNCHANGED failures
    /\ UNCHANGED <<life, told, pruned, reported, forgotten, unheard>>

PruneRun(t) ==
    /\ chore.step = "prune" /\ t \in chore.todo \ Undeletable
    /\ life' = [life EXCEPT ![t] = "deleted"]
    /\ chore' = [chore EXCEPT !.todo = @ \ {t}]
    /\ UNCHANGED <<told, pruned, reported, forgotten, unheard, failures>>
\* Mutation: a refusal ends the pruning.
RefusalEnds(t) ==
    /\ chore.step = "prune" /\ t \in chore.todo
    /\ (t \in Undeletable /\ UNCHANGED failures) \/ Failure
    /\ chore' = [chore EXCEPT !.todo = {}]
    /\ UNCHANGED <<life, told, pruned, reported, forgotten, unheard>>
RefusalSkips(t) ==
    /\ chore.step = "prune" /\ t \in chore.todo
    /\ (t \in Undeletable /\ UNCHANGED failures) \/ Failure
    /\ chore' = [chore EXCEPT !.todo = @ \ {t}]
    /\ UNCHANGED <<life, told, pruned, reported, forgotten, unheard>>

PruneEnds ==
    /\ chore.step = "prune" /\ chore.todo = {}
    /\ pruned' = TRUE
    /\ chore' = NoChore
    /\ UNCHANGED <<life, told, reported, forgotten, unheard, failures>>

\* The process dies in the tick.
UpkeepDie ==
    /\ chore # NoChore /\ Failure
    /\ unheard' = IF chore.step = "notify" THEN unheard \cup chore.todo ELSE unheard
    /\ chore' = NoChore
    /\ UNCHANGED <<life, told, pruned, reported, forgotten>>

ChoreStep ==
    \/ NewlyStale \/ NothingStale \/ PruneBegins \/ PruneEnds
    \/ \E t \in RunTasks : NotifyStale(t) \/ PruneRun(t) \/ RefusalSkips(t)
UpkeepNext ==
    \/ \E t \in RunTasks : ClaimRun(t) \/ ClaimAges(t) \/ LetGo(t) \/ RunGetsOld(t)
    \/ DayPasses \/ ChoreStep \/ UpkeepDie
-----------------------------------------------------------------------------
\* A claim is told of a second time only if what had been told was forgotten:
\* the export failed on a later tick, or it could not be saved.
ToldAgainIsForgotten == \A t \in RunTasks : reported[t] > 1 => t \in forgotten

\* A claim that goes stale is told of or ends, however many go stale together,
\* unless its own notice failed or the process died over it, and is not told
\* of twice.
StaleIsToldOnce ==
    /\ \A t \in RunTasks :
          life[t] = "stale" ~> reported[t] > 0 \/ t \in unheard \/ life[t] # "stale"
    /\ []ToldAgainIsForgotten

\* Old finished runs are deleted in the end, although others cannot be.
OldRunsGo == \A t \in RunTasks \ Undeletable : life[t] = "old" ~> life[t] = "deleted"
=============================================================================
