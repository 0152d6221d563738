-------------------------- MODULE PipelineDispatch --------------------------
(***************************************************************************)
(* The tick as an implementation of Dispatch.  A task is running from its  *)
(* claim until the thread that runs it has left the settling, and lost     *)
(* while its claim is kept, or its failure is being charged, with no such  *)
(* thread.                                                                 *)
(***************************************************************************)
EXTENDS Pipeline

InFlightFor(c) ==
    \E th \in Threads : job[th] = c /\ pc[th] \in {"mark", "register"} \cup Launched
BeingRecovered(c) ==
    \E th \in Threads : job[th] = c /\ pc[th] \in {"recCount", "recBlock"}

workOf(c) ==
    CASE task[c].status = "absent" -> "absent"
      [] task[c].status = "completed" -> "closed"
      [] Pending(task[c]) /\ InFlightFor(c) -> "running"
      [] Pending(task[c]) /\ ~InFlightFor(c) /\ (Active(task[c]) \/ BeingRecovered(c)) -> "lost"
      [] OTHER -> IF task[c].afk THEN "waiting" ELSE "handed"

D == INSTANCE Dispatch WITH
        work <- [c \in Tasks |-> workOf(c)],
        tries <- [c \in Tasks |-> task[c].failures],
        deaths <- crashes

\* While only pu writes the store, every step of every tick is a step of Dispatch
\* or changes nothing it can see, at the default ceiling of one and at any other if
\* every task works in a repository.
ImplementsDispatch == D!Spec
=============================================================================
