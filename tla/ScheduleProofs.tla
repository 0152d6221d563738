--------------------------- MODULE ScheduleProofs ---------------------------
(* What holds of the clock triggers for every calendar, offset and bound.  *)
EXTENDS Schedule, FiniteSetTheorems, WellFoundedInduction, TLAPS

Typed ==
    /\ created \in [Triggers -> Nat]
    /\ stamps \in [Triggers -> Nat]
    /\ todo \subseteq Triggers
    /\ pc \in {"idle", "evaluate", "add", "body", "stamp"}
    /\ pc \in {"add", "body", "stamp"} => at \in Triggers

\* Between the task and the stamp, the task is one more than the stamps know.
TaskAheadOfStamp == pc \in {"body", "stamp"} => stamps[at] < created[at]

TaskInv == Typed /\ NoFireWithoutTask /\ TaskAheadOfStamp

\* No task yet, no stamp yet.
LEMMA TaskInvInit == Init => TaskInv
BY DEF Init, TaskInv, Typed, NoFireWithoutTask, TaskAheadOfStamp

\* Only Add and Stamp change the two counters, and Add comes first: emit_due_work
\* creates the task (pipeline.py:1264) before it saves the cursor (1317).
LEMMA TaskInvNext == TaskInv /\ [Next]_vars => TaskInv'
<1> SUFFICES ASSUME TaskInv, [Next]_vars PROVE TaskInv'
    OBVIOUS
<1> USE DEF TaskInv, Typed, NoFireWithoutTask, TaskAheadOfStamp
<1>1. CASE Pass
      BY <1>1 DEF Pass, history
<1>2. CASE TickBegin
      BY <1>2 DEF TickBegin, history
<1>3. CASE TickEnd
      BY <1>3 DEF TickEnd, history
<1>4. CASE Add
      BY <1>4 DEF Add
<1>5. CASE WriteBody
      BY <1>5 DEF WriteBody, history
<1>6. CASE Stamp
      BY <1>6 DEF Stamp
<1>7. CASE Interrupt
      BY <1>7 DEF Interrupt, history
<1>8. ASSUME NEW trigger \in Triggers, Evaluate(trigger) PROVE TaskInv'
  <2>1. CASE Due(trigger, fired_at[trigger], clock)
        BY <1>8, <2>1 DEF Evaluate
  <2>2. CASE ~Due(trigger, fired_at[trigger], clock)
        BY <1>8, <2>2 DEF Evaluate
  <2> QED BY <2>1, <2>2
<1>9. ASSUME NEW trigger \in Triggers, Switch(trigger) PROVE TaskInv'
      BY <1>9 DEF Switch, history
<1>10. CASE UNCHANGED vars
      BY <1>10 DEF vars
<1> QED BY <1>1, <1>2, <1>3, <1>4, <1>5, <1>6, <1>7, <1>8, <1>9, <1>10 DEF Next

\* A clock trigger is never stamped as fired without the task it stands for,
\* whatever the calendar, however late the ticks and wherever they fail.
THEOREM NoFireIsLost == Spec => []NoFireWithoutTask
<1>1. TaskInv => NoFireWithoutTask
      BY DEF TaskInv
<1> QED BY TaskInvInit, TaskInvNext, <1>1, PTL DEF Spec
-----------------------------------------------------------------------------
(* How often a trigger had reason to fire.                                 *)

\* The minutes with reason to fire up to some time are finitely many, and no
\* fewer up to a later time.
LEMMA NamedTimesGrow ==
    ASSUME NEW trigger, NEW s \in Int, NEW t \in Int, s <= t
    PROVE  /\ Cardinality(NamedTimes(trigger, s)) \in Nat
           /\ Cardinality(NamedTimes(trigger, t)) \in Nat
           /\ Cardinality(NamedTimes(trigger, s)) <= Cardinality(NamedTimes(trigger, t))
<1>0. 0 \in Int
      OBVIOUS
<1>1. IsFiniteSet(0..s) /\ IsFiniteSet(0..t)
      BY <1>0, FS_Interval, Zenon
<1>2. NamedTimes(trigger, s) \in SUBSET (0..s) /\ NamedTimes(trigger, t) \in SUBSET (0..t)
      BY DEF NamedTimes
<1>3. IsFiniteSet(NamedTimes(trigger, s)) /\ IsFiniteSet(NamedTimes(trigger, t))
      BY <1>1, <1>2, FS_Subset, Zenon
<1>4. NamedTimes(trigger, s) \in SUBSET NamedTimes(trigger, t)
      BY SMT DEF NamedTimes
<1> HIDE DEF NamedTimes
<1> QED BY <1>3, <1>4, FS_Subset, FS_CardinalityType

\* If a time in between has reason to fire, there is one more.
LEMMA NamedTimesGain ==
    ASSUME NEW trigger, NEW s \in Int, NEW t \in Int,
           NEW u \in (s + 1)..t, u \in NamedTimes(trigger, t)
    PROVE  Cardinality(NamedTimes(trigger, s)) + 1 <= Cardinality(NamedTimes(trigger, t))
<1> DEFINE S == NamedTimes(trigger, s)
           T == NamedTimes(trigger, t)
<1>0. 0 \in Int
      OBVIOUS
<1>1. IsFiniteSet(0..t) /\ IsFiniteSet(0..s)
      BY <1>0, FS_Interval, Zenon
<1>2. T \in SUBSET (0..t) /\ S \in SUBSET (0..s)
      BY DEF NamedTimes
<1>3. IsFiniteSet(T) /\ IsFiniteSet(S)
      BY <1>1, <1>2, FS_Subset, Zenon
<1>4. u \notin S
      BY DEF NamedTimes
<1>5. S \cup {u} \in SUBSET T
      BY SMT DEF NamedTimes
<1>6. u \in T /\ Cardinality(S) \in Nat /\ Cardinality(T) \in Nat
      BY <1>3, FS_CardinalityType
<1> HIDE DEF S, T
<1>7. /\ Cardinality(S \cup {u}) = Cardinality(S) + 1
      BY <1>3, <1>4, FS_AddElement
<1>8. Cardinality(S \cup {u}) <= Cardinality(T)
      BY <1>3, <1>5, FS_Subset
<1> QED BY <1>6, <1>7, <1>8 DEF S, T

\* A set of natural numbers has a least one.
LEMMA HasLeast ==
    ASSUME NEW T \in SUBSET Nat, T # {}
    PROVE  \E u \in T : \A v \in T : u <= v
<1> DEFINE R == {ss \in Nat \X Nat : ss[1] < ss[2]}
<1>1. IsWellFoundedOn(R, Nat)
      BY NatLessThanWellFounded DEF OpToRel
<1> HIDE DEF R
<1>2. PICK u \in T : \A v \in T : ~ (<<v, u>> \in R)
      BY <1>1, WFMin
<1>3. ASSUME NEW v \in T PROVE u <= v
  <2>1. <<v, u>> \notin R /\ u \in Nat /\ v \in Nat
        BY <1>2
  <2> QED BY <2>1 DEF R
<1> QED BY <1>3

\* The walk of cron_due over the wall clock names a minute that was brought after
\* the last fire: at the first time the wall clock is not short of it.
LEMMA CronDueIsNamed ==
    ASSUME NEW trigger, NEW last \in Minutes \cup {Never}, NEW t \in Minutes, last <= t,
           CronDue(trigger, last, t)
    PROVE  \E u \in (last + 1)..t : u \in NamedTimes(trigger, t)
<1>1. \A s \in Minutes : Wall(s) \in Int /\ s \in Nat
      BY ScheduleAssumption DEF Wall, Minutes
<1>2. PICK now \in Int : now = Wall(t)
      BY <1>1
<1>3. PICK minute \in (Since(t, last) + 1)..Wall(t) : Named(trigger, minute)
      BY Zenon DEF CronDue
<1>4. CASE last = Never
  <2>1. minute \in (now - 1 + 1)..now
        BY <1>2, <1>3, <1>4 DEF Since
  <2>1a. minute = Wall(t)
        BY <1>2, <2>1
  <2>2. t \in (last + 1)..t /\ t \in 0..t
        BY <1>1, <1>4 DEF Never
  <2> QED BY <1>3, <2>1a, <2>2 DEF NamedTimes, Brings
<1>5. CASE last # Never
  <2>0. PICK then \in Int : then = Wall(last)
        BY <1>1, <1>5
  <2>a. minute \in (then + 1)..now
        BY <1>2, <1>3, <1>5, <2>0 DEF Since
  <2>1. last \in Minutes /\ Wall(last) \in Int /\ Wall(last) < minute /\ minute <= Wall(t)
        BY <1>2, <1>5, <2>0, <2>a
  <2> DEFINE T == {u \in (last + 1)..t : minute <= Wall(u)}
  <2>2. last \in Nat /\ t \in Nat /\ minute \in Int
        BY <1>1, <2>1, <2>a
  <2>3. last # t
        BY <2>1
  <2>4. t \in T /\ T \in SUBSET Nat
        BY <2>1, <2>2, <2>3
  <2>5. PICK u \in T : \A v \in T : u <= v
        BY <2>4, HasLeast, Zenon
  <2>6. u \in (last + 1)..t /\ u \in Nat /\ u # 0 /\ minute <= Wall(u)
        BY <2>2
  <2>7. Wall(u - 1) < minute
    <3>1. u - 1 \in Minutes
          BY <2>2, <2>6, ScheduleAssumption DEF Minutes
    <3>2. Wall(u - 1) \in Int
          BY <1>1, <3>1
    <3>3. CASE u - 1 = last
          BY <2>1, <3>3
    <3>4. CASE u - 1 # last
      <4>1. u - 1 \in (last + 1)..t /\ ~ (u <= u - 1)
            BY <2>2, <2>6, <3>4
      <4> QED BY <2>5, <4>1, <3>2, <2>2
    <3> QED BY <3>3, <3>4
  <2>8. Wall(u) \in Int /\ Wall(u - 1) \in Int
    <3>1. u \in Minutes /\ u - 1 \in Minutes
          BY <2>2, <2>6, ScheduleAssumption DEF Minutes
    <3> QED BY <1>1, <3>1
  <2>9. minute \in (Wall(u - 1) + 1)..Wall(u) /\ u \in 0..t
        BY <2>2, <2>6, <2>7, <2>8
  <2> QED BY <1>3, <2>6, <2>9 DEF NamedTimes, Brings
<1> QED BY <1>4, <1>5

\* Whole intervals: k of them fit in n minutes when n is k of them long.
LEMMA WholeIntervals ==
    ASSUME NEW n \in Int, NEW e \in Nat \ {0}
    PROVE  /\ n \div e \in Int
           /\ \A m \in Int : n <= m => n \div e <= m \div e
           /\ \A m \in Int : m - n >= e => n \div e + 1 <= m \div e
<1>1. n \div e \in Int
      OBVIOUS
<1>2. ASSUME NEW m \in Int, n <= m PROVE n \div e <= m \div e
      BY <1>2
<1>3. ASSUME NEW m \in Int, m - n >= e PROVE n \div e + 1 <= m \div e
  <2>1. (n + e) \div e = n \div e + 1
        OBVIOUS
  <2> QED BY <1>3, <2>1
<1> QED BY <1>1, <1>2, <1>3

\* Reasons to fire never become fewer, and a trigger that is due has one more
\* than it had at its last fire.
LEMMA OccasionsCount ==
    ASSUME NEW trigger \in Triggers, NEW s \in Minutes \cup {Never}, NEW t \in Minutes, s <= t
    PROVE  /\ Occasions(trigger, s) \in Int /\ Occasions(trigger, t) \in Int
           /\ Occasions(trigger, s) <= Occasions(trigger, t)
           /\ Due(trigger, s, t) => Occasions(trigger, s) + 1 <= Occasions(trigger, t)
<1>1. s \in Int /\ t \in Int /\ s >= -1 /\ t >= 0
      BY ScheduleAssumption DEF Minutes, Never
<1>2. CASE trigger \in Calendars
  <2>1. /\ Cardinality(NamedTimes(trigger, s)) \in Nat
        /\ Cardinality(NamedTimes(trigger, t)) \in Nat
        /\ Cardinality(NamedTimes(trigger, s)) <= Cardinality(NamedTimes(trigger, t))
        BY <1>1, NamedTimesGrow
  <2>2. ASSUME Due(trigger, s, t)
        PROVE  Cardinality(NamedTimes(trigger, s)) + 1 <= Cardinality(NamedTimes(trigger, t))
    <3>1. PICK u \in (s + 1)..t : u \in NamedTimes(trigger, t)
          BY <1>2, <2>2, CronDueIsNamed DEF Due
    <3> QED BY <1>1, <3>1, NamedTimesGain
  <2> QED BY <1>2, <2>1, <2>2 DEF Occasions
<1>3. CASE trigger \notin Calendars
  <2> DEFINE e == Every[trigger]
  <2>1. e \in Nat \ {0}
        BY <1>3, ScheduleAssumption
  <2> HIDE DEF e
  <2>2. /\ s \div e \in Int /\ t \div e \in Int
        /\ s \div e <= t \div e
        /\ t - s >= e => s \div e + 1 <= t \div e
        BY <1>1, <2>1, WholeIntervals
  <2>3. s = Never => s \div e + 1 <= t \div e
    <3>1. ASSUME s = Never PROVE s \div e = -1 /\ t \div e >= 0
          BY <1>1, <2>1, <3>1 DEF Never
    <3> QED BY <3>1, <2>2
  <2> QED BY <1>3, <2>2, <2>3 DEF Occasions, Due, IntervalDue, e
<1> QED BY <1>2, <1>3
-----------------------------------------------------------------------------
(* No more tasks than reasons to fire, and no named minute overlooked.     *)

InHand == pc \in {"add", "body", "stamp"}
Counted == failures \in Nat

\* The clock is never behind a stamp, nor behind the evaluation in hand, which
\* is never behind the last stamp of its trigger.
Clocked ==
    /\ clock \in Minutes
    /\ fired_at \in [Triggers -> Minutes \cup {Never}]
    /\ \A trigger \in Triggers : fired_at[trigger] <= clock
    /\ InHand => moment \in Minutes /\ moment <= clock

\* Every stamp had a reason to fire no other stamp had, up to the last of them;
\* the fire in hand has one of its own.
StampsAreDue ==
    /\ \A trigger \in Triggers : stamps[trigger] <= Occasions(trigger, fired_at[trigger])
    /\ InHand => stamps[at] + 1 <= Occasions(at, moment)

\* A task that no stamp knows of is the one in hand, or was left by a failure.
Unstamped(trigger) == IF pc \in {"body", "stamp"} /\ at = trigger THEN 1 ELSE 0
ExtrasAreFailures ==
    \A trigger \in Triggers :
        created[trigger] <= stamps[trigger] + failures + Unstamped(trigger)

\* What was found not due a moment ago is not due: nothing has moved since.
IdleIsNotDue ==
    \A trigger \in Triggers : idle = trigger => ~ Due(trigger, fired_at[trigger], clock)

DueInv == Typed /\ Counted /\ Clocked /\ StampsAreDue /\ ExtrasAreFailures /\ IdleIsNotDue

\* Before the first fire there is nothing to account for.
LEMMA OccasionsNever ==
    ASSUME NEW trigger \in Triggers PROVE Occasions(trigger, Never) = 0
<1>1. CASE trigger \in Calendars
  <2>1. NamedTimes(trigger, Never) = {}
        BY DEF NamedTimes, Never
  <2> QED BY <1>1, <2>1, FS_EmptySet DEF Occasions
<1>2. CASE trigger \notin Calendars
  <2> DEFINE e == Every[trigger]
  <2>1. e \in Nat \ {0}
        BY <1>2, ScheduleAssumption
  <2> HIDE DEF e
  <2>2. 1 + (-1) \div e = 0
        BY <2>1
  <2> QED BY <1>2, <2>2 DEF Occasions, Never, e
<1> QED BY <1>1, <1>2

\* Nothing has fired yet.
LEMMA DueInvInit == Init => DueInv
<1> SUFFICES ASSUME Init PROVE DueInv
    OBVIOUS
<1>1. Typed /\ Counted /\ ExtrasAreFailures
      BY DEF Init, Typed, Counted, ExtrasAreFailures, Unstamped
<1>2. Clocked
      BY ScheduleAssumption DEF Init, Clocked, InHand, Minutes, Never
<1>3. StampsAreDue
      BY OccasionsNever DEF Init, StampsAreDue, InHand
<1>4. IdleIsNotDue
      BY ScheduleAssumption DEF Init, IdleIsNotDue
<1> QED BY <1>1, <1>2, <1>3, <1>4 DEF DueInv

\* Nothing but the clock, the switches and the place in the tick moves: the
\* counts stand, and no evaluation was taken in hand.
LEMMA CountsStand ==
    ASSUME DueInv, UNCHANGED <<fired_at, created, stamps, at, moment>>,
           failures' \in Nat, failures <= failures',
           clock' \in Minutes, clock <= clock',
           pc' \in {"idle", "evaluate", "add", "body", "stamp"}, InHand' => InHand,
           pc' \in {"body", "stamp"} <=> pc \in {"body", "stamp"},
           todo' \subseteq Triggers, idle' = "none"
    PROVE  DueInv'
<1> USE DEF DueInv
<1>1. Typed' /\ Counted'
      BY DEF Typed, Counted, InHand
<1>2. Clocked'
  <2>1. clock \in Int /\ clock' \in Int /\ \A t \in Minutes \cup {Never} : t \in Int
        BY ScheduleAssumption DEF Clocked, Minutes, Never
  <2>2. ASSUME NEW trigger \in Triggers PROVE fired_at[trigger] <= clock'
    <3>1. fired_at[trigger] \in Int /\ fired_at[trigger] <= clock
          BY <2>1 DEF Clocked
    <3> QED BY <2>1, <3>1
  <2>3. ASSUME InHand' PROVE moment \in Minutes /\ moment <= clock'
    <3>1. moment \in Minutes /\ moment \in Int /\ moment <= clock
          BY <2>1, <2>3 DEF Clocked
    <3> QED BY <2>1, <3>1
  <2>4. fired_at' = fired_at /\ moment' = moment
        OBVIOUS
  <2> QED BY <2>2, <2>3, <2>4 DEF Clocked
<1>3. StampsAreDue'
  <2>1. fired_at' = fired_at /\ stamps' = stamps /\ at' = at /\ moment' = moment
        OBVIOUS
  <2> QED BY <2>1 DEF StampsAreDue
<1>4. ExtrasAreFailures'
      BY DEF ExtrasAreFailures, Unstamped, Typed, Counted
<1>5. IdleIsNotDue'
      BY ScheduleAssumption DEF IdleIsNotDue
<1> QED BY <1>1, <1>2, <1>3, <1>4, <1>5

\* A step of the tick on the trigger in hand keeps the counts in order: the clock
\* brings occasions and takes none, and a due evaluation has one of its own.
LEMMA DueInvNext == DueInv /\ [Next]_vars => DueInv'
<1> SUFFICES ASSUME DueInv, [Next]_vars PROVE DueInv'
    OBVIOUS
<1>0. /\ clock \in Nat /\ clock \in Minutes /\ failures \in Nat
      /\ \A t \in Minutes \cup {Never} : t \in Int
      BY ScheduleAssumption DEF DueInv, Clocked, Counted, Minutes, Never
<1>1. CASE Pass
  <2>1. clock' \in Minutes /\ clock <= clock'
        BY <1>0, <1>1, ScheduleAssumption DEF Pass, Minutes
  <2> QED BY <1>0, <1>1, <2>1, CountsStand DEF Pass, history, DueInv, Typed, InHand
<1>2. CASE TickBegin
      BY <1>0, <1>2, CountsStand DEF TickBegin, history, DueInv, Typed, InHand
<1>3. CASE TickEnd
      BY <1>0, <1>3, CountsStand DEF TickEnd, history, DueInv, Typed, InHand
<1>4. CASE Add
  <2>1. Typed' /\ Counted' /\ Clocked' /\ StampsAreDue'
        BY <1>4 DEF Add, DueInv, Typed, Counted, Clocked, StampsAreDue, InHand
  <2>2. ExtrasAreFailures'
        BY <1>0, <1>4 DEF Add, DueInv, Typed, ExtrasAreFailures, Unstamped
  <2>3. IdleIsNotDue'
        BY <1>4, ScheduleAssumption DEF Add, IdleIsNotDue
  <2> QED BY <2>1, <2>2, <2>3 DEF DueInv
<1>5. CASE WriteBody
      BY <1>0, <1>5, CountsStand DEF WriteBody, history, DueInv, Typed, InHand
<1>6. CASE Stamp
  <2>1. InHand /\ at \in Triggers /\ moment \in Minutes /\ moment <= clock
        BY <1>6 DEF Stamp, InHand, DueInv, Typed, Clocked
  <2>2. Typed' /\ Counted'
        BY <1>6, <2>1 DEF Stamp, DueInv, Typed, Counted
  <2>3. Clocked'
        BY <1>0, <1>6, <2>1 DEF Stamp, DueInv, Clocked, InHand
  <2>4. StampsAreDue'
    <3>1. /\ Occasions(at, moment) \in Int /\ Occasions(at, clock) \in Int
          /\ Occasions(at, moment) <= Occasions(at, clock)
          BY <1>0, <2>1, OccasionsCount
    <3>2. stamps[at] + 1 <= Occasions(at, clock)
      <4>1. stamps[at] \in Nat /\ stamps[at] + 1 <= Occasions(at, moment)
            BY <2>1 DEF DueInv, Typed, StampsAreDue
      <4> QED BY <3>1, <4>1
    <3>3. fired_at' = [fired_at EXCEPT ![at] = clock] /\ stamps' = [stamps EXCEPT ![at] = @ + 1]
          BY <1>6 DEF Stamp
    <3>4. ASSUME NEW trigger \in Triggers
          PROVE  stamps'[trigger] <= Occasions(trigger, fired_at'[trigger])
      <4>1. CASE trigger = at
        <5>1. fired_at'[trigger] = clock /\ stamps'[trigger] = stamps[at] + 1
              BY <3>3, <4>1, <2>1 DEF DueInv, Typed, Clocked
        <5> QED BY <3>2, <4>1, <5>1
      <4>2. CASE trigger # at
        <5>1. fired_at'[trigger] = fired_at[trigger] /\ stamps'[trigger] = stamps[trigger]
              BY <3>3, <4>2 DEF DueInv, Typed, Clocked
        <5> QED BY <5>1 DEF DueInv, StampsAreDue
      <4> QED BY <4>1, <4>2
    <3>5. ~ InHand'
          BY <1>6 DEF Stamp, InHand
    <3> QED BY <3>4, <3>5 DEF StampsAreDue
  <2>5. ExtrasAreFailures'
        BY <1>0, <1>6, <2>1 DEF Stamp, DueInv, Typed, ExtrasAreFailures, Unstamped
  <2>6. IdleIsNotDue'
        BY <1>6, ScheduleAssumption DEF Stamp, IdleIsNotDue
  <2> QED BY <2>2, <2>3, <2>4, <2>5, <2>6 DEF DueInv
<1>7. CASE Interrupt
  <2>1. ~ InHand' /\ pc' = "idle" /\ failures' = failures + 1
        BY <1>7 DEF Interrupt, InHand
  <2>2. Typed' /\ Counted' /\ Clocked' /\ StampsAreDue'
        BY <1>0, <1>7, <2>1
        DEF Interrupt, history, DueInv, Typed, Counted, Clocked, StampsAreDue
  <2>3. ExtrasAreFailures'
        BY <1>0, <1>7, <2>1 DEF Interrupt, history, DueInv, Typed, ExtrasAreFailures, Unstamped
  <2>4. IdleIsNotDue'
        BY <1>7, ScheduleAssumption DEF Interrupt, IdleIsNotDue
  <2> QED BY <2>2, <2>3, <2>4 DEF DueInv
<1>8. ASSUME NEW trigger \in Triggers, Evaluate(trigger) PROVE DueInv'
  <2>1. pc = "evaluate" /\ trigger \in todo
        /\ UNCHANGED <<clock, on, fired_at, created, stamps, reached, switches, failures>>
        /\ todo' = todo \ {trigger}
        BY <1>8 DEF Evaluate
  <2>2. CASE Due(trigger, fired_at[trigger], clock)
    <3>1. at' = trigger /\ moment' = clock /\ pc' = "add" /\ idle' = "none"
          BY <1>8, <2>2 DEF Evaluate
    <3>2. Typed' /\ Counted' /\ Clocked'
          BY <1>0, <2>1, <3>1 DEF DueInv, Typed, Counted, Clocked
    <3>3. StampsAreDue'
      <4>1. /\ fired_at[trigger] \in Minutes \cup {Never} /\ fired_at[trigger] <= clock
            /\ stamps[trigger] \in Nat /\ stamps[trigger] <= Occasions(trigger, fired_at[trigger])
            BY DEF DueInv, Clocked, Typed, StampsAreDue
      <4>2. /\ Occasions(trigger, fired_at[trigger]) \in Int /\ Occasions(trigger, clock) \in Int
            /\ Occasions(trigger, fired_at[trigger]) + 1 <= Occasions(trigger, clock)
            BY <1>0, <2>2, <4>1, OccasionsCount
      <4>3. stamps[trigger] + 1 <= Occasions(trigger, clock)
            BY <4>1, <4>2
      <4>4. fired_at' = fired_at /\ stamps' = stamps
            BY <2>1
      <4> QED BY <3>1, <4>3, <4>4 DEF DueInv, StampsAreDue
    <3>4. ExtrasAreFailures'
          BY <2>1, <3>1 DEF DueInv, ExtrasAreFailures, Unstamped
    <3>5. IdleIsNotDue'
          BY <3>1, ScheduleAssumption DEF IdleIsNotDue
    <3> QED BY <3>2, <3>3, <3>4, <3>5 DEF DueInv
  <2>3. CASE ~ Due(trigger, fired_at[trigger], clock)
    <3>1. idle' = trigger /\ UNCHANGED <<at, moment, pc>>
          BY <1>8, <2>3 DEF Evaluate
    <3>2. Typed' /\ Counted' /\ Clocked'
          BY <2>1, <3>1 DEF DueInv, Typed, Counted, Clocked, InHand
    <3>3. StampsAreDue'
      <4>1. fired_at' = fired_at /\ stamps' = stamps /\ at' = at /\ moment' = moment
            /\ (InHand' <=> InHand)
            BY <2>1, <3>1 DEF InHand
      <4> QED BY <4>1 DEF DueInv, StampsAreDue
    <3>4. ExtrasAreFailures'
          BY <2>1, <3>1 DEF DueInv, ExtrasAreFailures, Unstamped
    <3>5. IdleIsNotDue'
      <4>1. fired_at' = fired_at /\ clock' = clock
            BY <2>1
      <4> QED BY <2>3, <3>1, <4>1 DEF IdleIsNotDue
    <3> QED BY <3>2, <3>3, <3>4, <3>5 DEF DueInv
  <2> QED BY <2>2, <2>3
<1>9. ASSUME NEW trigger \in Triggers, Switch(trigger) PROVE DueInv'
      BY <1>0, <1>9, CountsStand DEF Switch, history, DueInv, Typed, InHand
<1>10. CASE UNCHANGED vars
  <2>1. Typed' /\ Counted' /\ Clocked' /\ ExtrasAreFailures'
        BY <1>10 DEF vars, DueInv, Typed, Counted, Clocked, ExtrasAreFailures, Unstamped, InHand
  <2>2. StampsAreDue'
    <3>1. fired_at' = fired_at /\ stamps' = stamps /\ at' = at /\ moment' = moment
          /\ (InHand' <=> InHand)
          BY <1>10 DEF vars, InHand
    <3> QED BY <3>1 DEF DueInv, StampsAreDue
  <2>3. IdleIsNotDue'
    <3>1. fired_at' = fired_at /\ clock' = clock /\ idle' = idle
          BY <1>10 DEF vars
    <3> QED BY <3>1 DEF DueInv, IdleIsNotDue
  <2> QED BY <2>1, <2>2, <2>3 DEF DueInv
<1> QED BY <1>1, <1>2, <1>3, <1>4, <1>5, <1>6, <1>7, <1>8, <1>9, <1>10 DEF Next

\* A clock trigger never makes more tasks than it had reasons to fire, plus one
\* for each tick that failed or died, for every calendar, interval, zone and
\* pattern of late ticks (cron_due and interval_due, triggers.py; emit_due_work).
THEOREM NoTaskTooMany == Spec => []NoMoreTasksThanDue
<1>1. DueInv => NoMoreTasksThanDue
  <2> SUFFICES ASSUME DueInv, NEW trigger \in Triggers
               PROVE  created[trigger] <= Occasions(trigger, clock) + failures
      BY DEF NoMoreTasksThanDue
  <2>1. /\ clock \in Minutes /\ failures \in Nat
        /\ created[trigger] \in Nat /\ stamps[trigger] \in Nat
        /\ fired_at[trigger] \in Minutes \cup {Never} /\ fired_at[trigger] <= clock
        /\ stamps[trigger] <= Occasions(trigger, fired_at[trigger])
        /\ created[trigger] <= stamps[trigger] + failures + Unstamped(trigger)
        BY DEF DueInv, Typed, Counted, Clocked, StampsAreDue, ExtrasAreFailures
  <2>2. CASE pc \in {"body", "stamp"} /\ at = trigger
    <3>1. moment \in Minutes /\ moment <= clock /\ stamps[trigger] + 1 <= Occasions(trigger, moment)
          BY <2>2 DEF DueInv, Clocked, StampsAreDue, InHand
    <3>2. /\ Occasions(trigger, moment) \in Int /\ Occasions(trigger, clock) \in Int
          /\ Occasions(trigger, moment) <= Occasions(trigger, clock)
          BY <2>1, <3>1, OccasionsCount
    <3>3. Unstamped(trigger) = 1
          BY <2>2 DEF Unstamped
    <3> QED BY <2>1, <3>1, <3>2, <3>3
  <2>3. CASE ~ (pc \in {"body", "stamp"} /\ at = trigger)
    <3>1. /\ Occasions(trigger, fired_at[trigger]) \in Int /\ Occasions(trigger, clock) \in Int
          /\ Occasions(trigger, fired_at[trigger]) <= Occasions(trigger, clock)
          BY <2>1, OccasionsCount
    <3>2. Unstamped(trigger) = 0
          BY <2>3 DEF Unstamped
    <3> QED BY <2>1, <3>1, <3>2
  <2> QED BY <2>2, <2>3
<1> QED BY DueInvInit, DueInvNext, <1>1, PTL DEF Spec

\* A calendar found not due has let no named minute go by since its last fire, as
\* long as the wall clock is within the horizon of the walk of that fire; what
\* lies beyond is the price of the bound (_CRON_HORIZON_MINUTES).
CaughtWithinHorizon ==
    \A trigger \in Calendars :
        (/\ idle = trigger /\ fired_at[trigger] # Never
         /\ Wall(clock) - Wall(fired_at[trigger]) <= Horizon) =>
            \A minute \in (Wall(fired_at[trigger]) + 1)..Wall(clock) : ~ Named(trigger, minute)

\* Walking forward from the last fire catches the minutes a downtime ran over.
THEOREM NoMinuteIsOverlooked == Spec => []CaughtWithinHorizon
<1>1. DueInv => CaughtWithinHorizon
  <2> SUFFICES ASSUME DueInv, NEW trigger \in Calendars, idle = trigger,
                      fired_at[trigger] # Never,
                      Wall(clock) - Wall(fired_at[trigger]) <= Horizon,
                      NEW minute \in (Wall(fired_at[trigger]) + 1)..Wall(clock),
                      Named(trigger, minute)
               PROVE  FALSE
      BY DEF CaughtWithinHorizon
  <2>1. trigger \in Triggers /\ fired_at[trigger] \in Minutes /\ clock \in Minutes
        BY ScheduleAssumption DEF DueInv, Clocked
  <2>2. PICK then \in Int, now \in Int : then = Wall(fired_at[trigger]) /\ now = Wall(clock)
        BY <2>1, ScheduleAssumption DEF Wall, Minutes
  <2>3. Since(clock, fired_at[trigger]) = then
        BY <2>2 DEF Since
  <2>4. minute \in (then + 1)..now /\ minute < then + 1 + Horizon
        BY <2>2, ScheduleAssumption
  <2>5. CronDue(trigger, fired_at[trigger], clock)
        BY <2>2, <2>3, <2>4, Zenon DEF CronDue
  <2>6. ~ CronDue(trigger, fired_at[trigger], clock)
        BY <2>1 DEF DueInv, IdleIsNotDue, Due
  <2> QED BY <2>5, <2>6
<1> QED BY DueInvInit, DueInvNext, <1>1, PTL DEF Spec

\* No stretch of the wall clock as long as the horizon, of those the run gets to
\* see the end of, is without a minute that the calendar names: every calendar
\* that names a minute at least once in fourteen days.
NoLongGap(trigger) ==
    \A s, t \in Minutes :
        Wall(t) - Wall(s) >= Horizon =>
            \E minute \in (Wall(s) + 1)..(Wall(s) + Horizon) : Named(trigger, minute)

\* Of such calendars no named minute after the first fire is lost, however long
\* the process runs and however late the ticks (the docstring of cron_due,
\* triggers.py): past the horizon the walk has met a named minute before it ends.
THEOREM NamedMinutesAreNotLost ==
    ASSUME \A trigger \in Calendars : NoLongGap(trigger)
    PROVE  Spec => []NamedMinutesAreCaught
<1>1. DueInv /\ CaughtWithinHorizon => NamedMinutesAreCaught
  <2> SUFFICES ASSUME DueInv, CaughtWithinHorizon, NEW trigger \in Calendars, idle = trigger,
                      fired_at[trigger] # Never,
                      NEW minute \in (reached[trigger] + 1)..Wall(clock),
                      Named(trigger, minute)
               PROVE  minute <= Wall(fired_at[trigger])
      BY DEF NamedMinutesAreCaught
  <2>1. trigger \in Triggers /\ fired_at[trigger] \in Minutes /\ clock \in Minutes
        BY ScheduleAssumption DEF DueInv, Clocked
  <2>2. PICK then \in Int, now \in Int : then = Wall(fired_at[trigger]) /\ now = Wall(clock)
        BY <2>1, ScheduleAssumption DEF Wall, Minutes
  <2>3. CASE now - then <= Horizon
    <3>1. \A m \in (then + 1)..now : ~ Named(trigger, m)
          BY <2>2, <2>3 DEF CaughtWithinHorizon
    <3>2. minute \in Int /\ minute <= now
          BY <2>2
    <3>3. ~ (minute > then)
          BY <3>1, <3>2, <2>2
    <3> QED BY <2>2, <3>2, <3>3
  <2>4. CASE now - then > Horizon
    <3>1. now - then >= Horizon
          BY <2>2, <2>4, ScheduleAssumption
    <3>2. PICK step \in (then + 1)..(then + Horizon) : Named(trigger, step)
          BY <2>1, <2>2, <3>1 DEF NoLongGap
    <3>3. step \in (then + 1)..now /\ step < then + 1 + Horizon
          BY <2>2, <2>4, ScheduleAssumption
    <3>4. Since(clock, fired_at[trigger]) = then
          BY <2>2 DEF Since
    <3>5. CronDue(trigger, fired_at[trigger], clock)
          BY <2>2, <3>2, <3>3, <3>4, Zenon DEF CronDue
    <3>6. ~ CronDue(trigger, fired_at[trigger], clock)
          BY <2>1 DEF DueInv, IdleIsNotDue, Due
    <3> QED BY <3>5, <3>6
  <2> QED BY <2>2, <2>3, <2>4, ScheduleAssumption
<1> QED BY DueInvInit, DueInvNext, NoMinuteIsOverlooked, <1>1, PTL DEF Spec
=============================================================================
