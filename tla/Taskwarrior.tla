---------------------------- MODULE Taskwarrior ----------------------------
(***************************************************************************)
(* One task of the Taskwarrior store, as pu's wrapper (pu/taskstore.py)    *)
(* reads and writes it.  The `task` binary itself is outside the           *)
(* repository: the wrapper relies on each command being applied to the     *)
(* task as it stands, and on the binary refusing (exit 1, which `run`      *)
(* turns into TaskError) to start a started task, to stop an idle one and  *)
(* to finish a closed one.  Tags, annotations and UDAs are kept only as    *)
(* far as the pipeline branches on them.                                   *)
(***************************************************************************)
EXTENDS Naturals

\* Who holds the claim: the store only knows "started or not"; the model
\* remembers who started it, so that properties can speak of whose claim it is.
Claimants == {"nobody", "pu", "person"}

Statuses == {"absent", "pending", "completed"}

\* afk: the tag that lets an agent be given the task; needs_human: handed to
\* a person; failures: annotations that begin with FAILURE_PREFIX.
TaskRecord(maxFailures) ==
    [status: Statuses, claim: Claimants, afk: BOOLEAN, needs_human: BOOLEAN,
     failures: 0..maxFailures]

Absent == [status |-> "absent", claim |-> "nobody", afk |-> FALSE,
           needs_human |-> FALSE, failures |-> 0]

\* `task import` of a new record carrying the afk tag.
Created == [status |-> "pending", claim |-> "nobody", afk |-> TRUE,
            needs_human |-> FALSE, failures |-> 0]

Pending(t) == t.status = "pending"
Active(t) == t.claim # "nobody"

\* export "+READY -ACTIVE" narrowed by records.Task.runnable.
Runnable(t) == Pending(t) /\ ~Active(t) /\ t.afk

\* What the binary accepts; anything else is a TaskError.
StartAccepted(t) == Pending(t) /\ ~Active(t)
StopAccepted(t) == Pending(t) /\ Active(t)
DoneAccepted(t) == Pending(t)

\* The four writes.
Started(t, who) == [t EXCEPT !.claim = who]
Stopped(t) == [t EXCEPT !.claim = "nobody"]
Done(t) == [t EXCEPT !.status = "completed", !.claim = "nobody"]
\* guards.block: annotate, then +needs_human -afk.
Blocked(t) == [t EXCEPT !.needs_human = TRUE, !.afk = FALSE]
=============================================================================
