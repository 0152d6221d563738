------------------------------ MODULE Schedule ------------------------------
(***************************************************************************)
(* Triggers that watch the clock: `source.kind = "schedule"`, a calendar   *)
(* (cron) or an interval (pu/triggers.py), evaluated by every tick that    *)
(* gets past the gates (emit_due_work, pu/pipeline.py).  A fired trigger   *)
(* creates a task, writes its body, and only then stamps its cursor; the   *)
(* tick can fail or the process die after any of the three.                *)
(*                                                                         *)
(* Time is a count of minutes.  A calendar is read on the wall clock of    *)
(* its zone, which is the count plus an offset that changes with DST.      *)
(***************************************************************************)
EXTENDS Integers, FiniteSets

CONSTANTS
    Triggers,
    Calendars,     \* the triggers with a cron expression; the rest have an interval
    Fields,        \* Calendars -> the five parsed fields
    Every,         \* Triggers \ Calendars -> every_seconds, in minutes
    Date,          \* wall-clock minute -> its minute, hour, day, month and weekday
    AnyDay, AnyWeekday,  \* what `*` parses to in the two day fields
    Offset,        \* minute -> offset of the zone
    Horizon,       \* _CRON_HORIZON_MINUTES
    MaxClock,      \* bound: how long the run lasts
    MaxDelay,      \* bound: minutes from an evaluation to its stamp
    MaxSwitches,   \* bound: how often a trigger is switched on or off
    MaxFailures    \* bound: how often a tick fails or dies

Never == -1
Minutes == 0..MaxClock

ASSUME ScheduleAssumption ==
    /\ "none" \notin Triggers
    /\ Calendars \subseteq Triggers
    /\ Offset \in [Minutes -> Nat]
    /\ Every \in [Triggers \ Calendars -> Nat \ {0}]
    /\ Horizon \in Nat /\ MaxClock \in Nat /\ MaxDelay \in Nat
    /\ MaxSwitches \in Nat /\ MaxFailures \in Nat

VARIABLES
    clock,
    on,         \* the trigger's `enabled`
    fired_at,   \* cursors.json: the stamp of the last fire, or Never
    pc, todo,   \* where the tick is, and the triggers it has still to look at
    at, moment, \* the trigger it has in hand and when it evaluated it
    created,    \* history: tasks created for each trigger
    stamps,     \* history: fires stamped
    reached,    \* history: the wall-clock minute at which the last stamped fire was evaluated
    idle,       \* history: the trigger the last step evaluated and found not due
    switches, failures

vars == <<clock, on, fired_at, pc, todo, at, moment, created, stamps, reached, idle,
          switches, failures>>
history == <<created, stamps, reached>>
-----------------------------------------------------------------------------
Wall(t) == t + Offset[t]
\* A minute ago, the baseline of a calendar that has never fired.
Since(t, last) == IF last = Never THEN Wall(t) - 1 ELSE Wall(last)

\* Day of month and day of week are ORed when both are restricted.
CronMatches(fields, date) ==
    LET day == date.day \in fields.dom
        week == date.weekday \in fields.dow
    IN /\ date.minute \in fields.minute
       /\ date.hour \in fields.hour
       /\ date.month \in fields.month
       /\ IF fields.dom # AnyDay /\ fields.dow # AnyWeekday THEN day \/ week ELSE day /\ week

Named(trigger, minute) == CronMatches(Fields[trigger], Date[minute])

\* Mutation: the minute of the last fire is looked at again.
CronDueAgain(trigger, last, t) ==
    \E step \in Since(t, last)..Wall(t) :
        step < Since(t, last) + 1 + Horizon /\ Named(trigger, step)
\* Mutation: only the present minute is looked at.
CronDueNow(trigger, last, t) == Named(trigger, Wall(t))

\* Walk the wall clock minute by minute from the last fire to now, at most
\* Horizon minutes of it.
CronDue(trigger, last, t) ==
    \E step \in (Since(t, last) + 1)..Wall(t) :
        step < Since(t, last) + 1 + Horizon /\ Named(trigger, step)

IntervalDue(trigger, last, t) == last = Never \/ t - last >= Every[trigger]

Due(trigger, last, t) ==
    IF trigger \in Calendars THEN CronDue(trigger, last, t) ELSE IntervalDue(trigger, last, t)
-----------------------------------------------------------------------------
Init ==
    /\ clock = 0
    /\ on = [trigger \in Triggers |-> TRUE]
    /\ fired_at = [trigger \in Triggers |-> Never]
    /\ pc = "idle" /\ todo = {} /\ at = "none" /\ moment = Never
    /\ created = [trigger \in Triggers |-> 0]
    /\ stamps = [trigger \in Triggers |-> 0]
    /\ reached = [trigger \in Triggers |-> Never]
    /\ idle = "none"
    /\ switches = 0 /\ failures = 0

\* The clock moves whatever the tick is doing; ticks themselves may stay away
\* for as long as the host sleeps or a gate blocks.
Pass ==
    /\ clock < MaxClock
    /\ moment # Never => clock - moment < MaxDelay
    /\ clock' = clock + 1
    /\ idle' = "none"
    /\ UNCHANGED <<on, fired_at, pc, todo, at, moment, history, switches, failures>>

TickBegin ==
    /\ pc = "idle"
    /\ todo' = {trigger \in Triggers : on[trigger]}
    /\ pc' = "evaluate"
    /\ idle' = "none"
    /\ UNCHANGED <<clock, on, fired_at, at, moment, history, switches, failures>>

\* Mutation: the cursor is stamped before the task is created.
EvaluateStampsFirst(trigger) ==
    /\ pc = "evaluate"
    /\ trigger \in todo
    /\ todo' = todo \ {trigger}
    /\ IF Due(trigger, fired_at[trigger], clock)
       THEN /\ at' = trigger /\ moment' = clock /\ pc' = "add"
            /\ fired_at' = [fired_at EXCEPT ![trigger] = clock]
            /\ stamps' = [stamps EXCEPT ![trigger] = @ + 1]
            /\ idle' = "none"
       ELSE /\ idle' = trigger
            /\ UNCHANGED <<at, moment, pc, fired_at, stamps>>
    /\ UNCHANGED <<clock, on, created, reached, switches, failures>>

Evaluate(trigger) ==
    /\ pc = "evaluate"
    /\ trigger \in todo
    /\ todo' = todo \ {trigger}
    /\ IF Due(trigger, fired_at[trigger], clock)
       THEN /\ at' = trigger /\ moment' = clock /\ pc' = "add"
            /\ idle' = "none"
       ELSE /\ idle' = trigger
            /\ UNCHANGED <<at, moment, pc>>
    /\ UNCHANGED <<clock, on, fired_at, created, stamps, reached, switches, failures>>

TickEnd ==
    /\ pc = "evaluate" /\ todo = {}
    /\ pc' = "idle"
    /\ idle' = "none"
    /\ UNCHANGED <<clock, on, fired_at, todo, at, moment, history, switches, failures>>

Add ==
    /\ pc = "add"
    /\ created' = [created EXCEPT ![at] = @ + 1]
    /\ pc' = "body"
    /\ idle' = "none"
    /\ UNCHANGED <<clock, on, fired_at, todo, at, moment, stamps, reached, switches, failures>>

WriteBody ==
    /\ pc = "body"
    /\ pc' = "stamp"
    /\ idle' = "none"
    /\ UNCHANGED <<clock, on, fired_at, todo, at, moment, history, switches, failures>>

\* The stamp is the time it is written, not the time of the evaluation nor
\* the minute that was due.
Stamp ==
    /\ pc = "stamp"
    /\ fired_at' = [fired_at EXCEPT ![at] = clock]
    /\ stamps' = [stamps EXCEPT ![at] = @ + 1]
    /\ reached' = [reached EXCEPT ![at] = Wall(moment)]
    /\ pc' = "evaluate" /\ at' = "none" /\ moment' = Never
    /\ idle' = "none"
    /\ UNCHANGED <<clock, on, todo, created, switches, failures>>

\* A TaskError or OSError out of emit_due_work, or the process dies: either
\* way this tick is over, and what was written stays.
Interrupt ==
    /\ pc # "idle" /\ failures < MaxFailures
    /\ failures' = failures + 1
    /\ pc' = "idle" /\ todo' = {} /\ at' = "none" /\ moment' = Never
    /\ idle' = "none"
    /\ UNCHANGED <<clock, on, fired_at, history, switches>>

\* A person or a session flips `enabled`; the cursor is kept.
Switch(trigger) ==
    /\ switches < MaxSwitches
    /\ switches' = switches + 1
    /\ on' = [on EXCEPT ![trigger] = ~@]
    /\ idle' = "none"
    /\ UNCHANGED <<clock, fired_at, pc, todo, at, moment, history, failures>>

Next ==
    \/ Pass \/ TickBegin \/ TickEnd \/ Add \/ WriteBody \/ Stamp \/ Interrupt
    \/ \E trigger \in Triggers : Evaluate(trigger) \/ Switch(trigger)

Spec == Init /\ [][Next]_vars
-----------------------------------------------------------------------------
\* A calendar that has fired once catches every named minute after that: when
\* it is found not due, no named minute has gone by since the last fire, up to
\* those that went by while that fire was being written down.  ("Walking
\* forward from the last fire catches it, once, late", cron_due.)
NamedMinutesAreCaught ==
    \A trigger \in Calendars :
        (idle = trigger /\ fired_at[trigger] # Never) =>
            \A minute \in (reached[trigger] + 1)..Wall(clock) :
                Named(trigger, minute) => minute <= Wall(fired_at[trigger])

\* The wall-clock minutes that minute t brings: its own, and those the zone
\* jumps over to reach it when DST begins.
Brings(t) == {Wall(t)} \cup (IF t = 0 THEN {} ELSE (Wall(t - 1) + 1)..Wall(t))
NamedTimes(trigger, until) ==
    {t \in 0..until : \E minute \in Brings(t) : Named(trigger, minute)}
\* How often the trigger had reason to fire up to a minute.
Occasions(trigger, until) ==
    IF trigger \in Calendars
    THEN Cardinality(NamedTimes(trigger, until))
    ELSE 1 + until \div Every[trigger]

\* A schedule creates at most one task per minute that brings a named one, or per
\* interval, that has passed, whatever DST, downtime and late ticks do; a failure between the
\* task and the stamp costs one duplicate, no more.
NoMoreTasksThanDue ==
    \A trigger \in Triggers : created[trigger] <= Occasions(trigger, clock) + failures

\* A fire is never recorded without its task, even by a tick that fails or
\* dies half way ("the task is created before the cursor advances").
NoFireWithoutTask == \A trigger \in Triggers : stamps[trigger] <= created[trigger]
=============================================================================
