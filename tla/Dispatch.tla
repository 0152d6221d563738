------------------------------ MODULE Dispatch ------------------------------
(***************************************************************************)
(* What the tick promises the queue, without saying how: a task waits, is  *)
(* run by one session at a time within the ceiling and alone in its        *)
(* repository, and ends closed or handed to a person.  A failed run is     *)
(* retried until MaxFailures, a run the process lost is accounted for on a *)
(* later tick.  The header comment of pu/pipeline.py is the informal       *)
(* version of this module; PipelineDispatch.tla has the tick implement it. *)
(***************************************************************************)
EXTENDS Naturals, FiniteSets

CONSTANTS Tasks, RepoOf, NoRepo, Ceiling, MaxFailures

VARIABLES
    work,   \* where each task stands
    tries,  \* how many of its runs have failed
    deaths  \* how often the process has died

vars == <<work, tries, deaths>>

States == {"absent", "waiting", "running", "lost", "closed", "handed"}

TypeOK ==
    work \in [Tasks -> States] /\ tries \in [Tasks -> 0..MaxFailures] /\ deaths \in Nat

InFlight == {c \in Tasks : work[c] = "running"}
SharesRepo(c, d) == RepoOf[c] # NoRepo /\ RepoOf[c] = RepoOf[d]
Failed(c) == IF tries[c] < MaxFailures THEN tries[c] + 1 ELSE tries[c]
Becomes(c, state) == work' = [work EXCEPT ![c] = state]

Init ==
    /\ work \in [Tasks -> {"absent", "waiting"}]
    /\ tries = [c \in Tasks |-> 0]
    /\ deaths = 0

\* Triggers and people create work, several tasks in one step.
Create ==
    /\ \E new \in SUBSET {c \in Tasks : work[c] = "absent"} :
          work' = [c \in Tasks |-> IF c \in new THEN "waiting" ELSE work[c]]
    /\ UNCHANGED tries

Start(c) ==
    /\ work[c] = "waiting"
    /\ Cardinality(InFlight) < Ceiling
    /\ ~\E d \in InFlight : SharesRepo(c, d)
    /\ Becomes(c, "running")
    /\ UNCHANGED tries

Succeed(c) == work[c] = "running" /\ Becomes(c, "closed") /\ UNCHANGED tries

HandOver(c) == work[c] \in {"running", "waiting"} /\ Becomes(c, "handed") /\ UNCHANGED tries

\* A failure is charged while the run is still in flight, and then decides
\* between a retry and a person.  The task may have been closed meanwhile: a
\* failing run releases it first, and the sweep of expired work may come between.
Charge(c) ==
    /\ work[c] \in {"running", "lost", "closed"}
    /\ tries' = [tries EXCEPT ![c] = Failed(c)]
    /\ \/ Becomes(c, work[c])
       \/ work[c] = "lost" /\ Failed(c) < MaxFailures /\ Becomes(c, "waiting")

Retry(c) ==
    /\ work[c] = "running"
    /\ tries[c] \in 1..(MaxFailures - 1)
    /\ Becomes(c, "waiting")
    /\ UNCHANGED tries

\* Also what was handed to a person: the sweep asks only for pending and unclaimed.
Expire(c) == work[c] \in {"waiting", "handed"} /\ Becomes(c, "closed") /\ UNCHANGED tries

\* A lost run that had used its last try goes to a person.
Abandon(c) ==
    /\ work[c] = "lost" /\ tries[c] = MaxFailures
    /\ Becomes(c, "handed")
    /\ UNCHANGED tries

\* The process dies: every run in flight is lost, unless it was already past
\* the point where its task was released or blocked.
Die ==
    /\ deaths' = deaths + 1
    /\ \E after \in [{c \in Tasks : work[c] \in {"running", "lost"}} ->
                       {"lost", "waiting", "handed"}] :
          work' = [c \in Tasks |-> IF c \in DOMAIN after THEN after[c] ELSE work[c]]
    /\ UNCHANGED tries

Live ==
    \/ Create
    \/ \E c \in Tasks : \/ Start(c) \/ Succeed(c) \/ HandOver(c) \/ Charge(c)
                        \/ Retry(c) \/ Expire(c) \/ Abandon(c)

Next == Die \/ (Live /\ UNCHANGED deaths)

Spec == Init /\ [][Next]_vars
=============================================================================
