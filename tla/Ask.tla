-------------------------------- MODULE Ask --------------------------------
(***************************************************************************)
(* Questions from the dashboard (pu/ask.py, POST and GET /ask): one session *)
(* at a time for the whole unit, under a lock that the submitting thread    *)
(* takes and the answering thread gives back.  A question's record is all   *)
(* its asker ever sees.                                                     *)
(***************************************************************************)
EXTENDS Naturals

CONSTANTS
    Questions,
    None,
    MaxMishaps    \* bound: deaths, threads that do not start, records not written

VARIABLES
    asked,       \* each question's record: none, running, done or error
    asking,      \* where its submission or its session is
    lock,        \* who took _ASK_LOCK
    orphaned,    \* history: records nobody will end
    leaked,      \* history: the lock was left by a thread that did not start
    mishaps

askVars == <<asked, asking, lock, orphaned, leaked, mishaps>>

AskInit ==
    /\ asked = [q \in Questions |-> "none"]
    /\ asking = [q \in Questions |-> "none"]
    /\ lock = None
    /\ orphaned = {} /\ leaked = FALSE /\ mishaps = 0

Put(q, step) == asking' = [asking EXCEPT ![q] = step]
Mishap == mishaps < MaxMishaps /\ mishaps' = mishaps + 1

\* A record whose write fails stays what it was, or is emptied by it.
Write(q, status) ==
    \/ asked' = [asked EXCEPT ![q] = status] /\ UNCHANGED <<orphaned, mishaps>>
    \/ /\ Mishap /\ orphaned' = orphaned \cup {q}
       /\ asked' \in {asked, [asked EXCEPT ![q] = "none"]}

\* The gates were read before; an empty or a long question is refused, too.
Submit(q) ==
    /\ asking[q] = "none"
    /\ \/ Write(q, "error") /\ Put(q, "over")
       \/ Put(q, "submitted") /\ UNCHANGED <<asked, orphaned, mishaps>>
    /\ UNCHANGED <<lock, leaked>>

RefuseBusy(q) ==
    /\ asking[q] = "submitted" /\ lock # None
    /\ Write(q, "error") /\ Put(q, "over")
    /\ UNCHANGED <<lock, leaked>>

Acquire(q) ==
    /\ asking[q] = "submitted" /\ lock = None
    /\ lock' = q
    /\ Write(q, "running")
    /\ Put(q, "starting")
    /\ UNCHANGED leaked

StartThread(q) ==
    /\ asking[q] = "starting"
    /\ \/ Put(q, "session") /\ UNCHANGED <<orphaned, leaked, mishaps>>
       \/ Mishap /\ Put(q, "over") /\ orphaned' = orphaned \cup {q} /\ leaked' = TRUE
    /\ UNCHANGED <<asked, lock>>

\* The session is killed at its time limit, and its error is the answer.
TimesOut(q) ==
    /\ asking[q] = "session"
    /\ Write(q, "error")
    /\ Put(q, "release")
    /\ UNCHANGED <<lock, leaked>>

\* The session answers, fails, or cannot be started.
SessionEnds(q) ==
    /\ asking[q] = "session"
    /\ \E status \in {"done", "error"} : Write(q, status)
    /\ Put(q, "release")
    /\ UNCHANGED <<lock, leaked>>

\* Mutation: only an answer gives the lock back.
ReleaseIfDone(q) ==
    /\ asking[q] = "release"
    /\ lock' = IF asked[q] = "done" THEN None ELSE lock
    /\ Put(q, "over")
    /\ UNCHANGED <<asked, orphaned, leaked, mishaps>>
Release(q) ==
    /\ asking[q] = "release"
    /\ lock' = None
    /\ Put(q, "over")
    /\ UNCHANGED <<asked, orphaned, leaked, mishaps>>

\* The process dies, with the lock and every session; the records stay.
AskDie ==
    /\ Mishap
    /\ orphaned' = orphaned \cup {q \in Questions : asking[q] \notin {"none", "over"}}
    /\ asking' = [q \in Questions |-> IF asking[q] = "none" THEN "none" ELSE "over"]
    /\ lock' = None /\ leaked' = FALSE
    /\ UNCHANGED asked

Answering(q) == StartThread(q) \/ SessionEnds(q) \/ TimesOut(q) \/ Release(q)
AskNext ==
    \/ \E q \in Questions : Submit(q) \/ RefuseBusy(q) \/ Acquire(q) \/ Answering(q)
    \/ AskDie

\* Threads go on, and a session ends by itself or at its timeout.
AskFairness == \A q \in Questions :
    WF_askVars(RefuseBusy(q) \/ Acquire(q)) /\ WF_askVars(Answering(q))
-----------------------------------------------------------------------------
\* The panel is never shut for good: the lock comes back after every question
\* that got it, unless its thread could not be started, which shuts it for as
\* long as the process lives; and a record that says running ends, unless the
\* process died, the thread did not start or the record could not be written.
PanelComesBack ==
    /\ lock # None ~> lock = None \/ leaked
    /\ \A q \in Questions : asked[q] = "running" ~> asked[q] \in {"done", "error"} \/ q \in orphaned
=============================================================================
