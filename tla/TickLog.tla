------------------------------ MODULE TickLog ------------------------------
(***************************************************************************)
(* The why-not log (pu/control.py) and the time pu was held up that /stats  *)
(* reads off it (pu/stats.py).  Every tick notes its decision after it has  *)
(* left the tick lock, so a tick that ends with its session may cross one   *)
(* that declines.  A decision like the last is not written; a log that is   *)
(* full is first cut down to its newest lines, as they were read.           *)
(***************************************************************************)
EXTENDS Naturals, Sequences, FiniteSets, FiniteSetsExt

CONSTANTS
    Noters,             \* the threads in which ticks end
    Reasons,            \* what holds a launch up, as stats.unit sorts reasons
    Ran,                \* the decision of a tick that ran a session
    MaxLines, KeepLines,
    MaxClock,           \* bound: time
    MaxNotings          \* bound: decisions noted

ASSUME TickLogAssumption ==
    MaxLines \in Nat /\ KeepLines \in 0..MaxLines /\ Ran \notin Reasons

VARIABLES
    clock,
    log,        \* ticks.jsonl: when and what
    note,       \* what each noter has read and is about to do
    trimmed,    \* history: the log has been cut
    was,        \* history: for each moment past, what had been decided last
    latest,     \* history: what was decided last
    doubt,      \* history: the noting of it crossed another or did not end
    muddled,    \* history: there has been such a one
    notings

tickLogVars == <<clock, log, note, trimmed, was, latest, doubt, muddled, notings>>

Decisions == Reasons \cup {Ran}
NotNoting == [step |-> "idle", entry |-> <<>>, lines |-> <<>>]
Noting == {n \in Noters : note[n] # NotNoting}

TickLogInit ==
    /\ clock = 0 /\ log = <<>>
    /\ note = [n \in Noters |-> NotNoting]
    /\ trimmed = FALSE /\ was = <<>> /\ latest = Ran
    /\ doubt = FALSE /\ muddled = FALSE /\ notings = 0

\* A tick that ran a session is always written.
Repeats(d) == d # Ran /\ log # <<>> /\ log[Len(log)].why = d

ReadLog(n, d) ==
    /\ note[n] = NotNoting /\ notings < MaxNotings
    /\ notings' = notings + 1
    /\ note' = IF Repeats(d) THEN note
               ELSE [note EXCEPT ![n] =
                        [entry |-> <<clock, d>>,
                         step |-> IF Len(log) >= MaxLines THEN "trim" ELSE "append",
                         lines |-> IF Len(log) >= MaxLines THEN log ELSE <<>>]]
    /\ latest' = d /\ doubt' = (Noting # {}) /\ muddled' = (muddled \/ Noting # {})
    /\ UNCHANGED <<clock, log, trimmed, was>>

\* Mutation: the oldest lines are kept.
TrimNewest(n) ==
    /\ note[n].step = "trim"
    /\ log' = SubSeq(note[n].lines, 1, KeepLines)
    /\ trimmed' = TRUE
    /\ note' = [note EXCEPT ![n].step = "append", ![n].lines = <<>>]
    /\ UNCHANGED <<clock, was, latest, doubt, muddled, notings>>
Trim(n) ==
    /\ note[n].step = "trim"
    /\ LET lines == note[n].lines
       IN log' = SubSeq(lines, Len(lines) - KeepLines + 1, Len(lines))
    /\ trimmed' = TRUE
    /\ note' = [note EXCEPT ![n].step = "append", ![n].lines = <<>>]
    /\ UNCHANGED <<clock, was, latest, doubt, muddled, notings>>

AppendLine(n) ==
    /\ note[n].step = "append"
    /\ log' = Append(log, [at |-> note[n].entry[1], why |-> note[n].entry[2]])
    /\ note' = [note EXCEPT ![n] = NotNoting]
    /\ UNCHANGED <<clock, trimmed, was, latest, doubt, muddled, notings>>

\* The process dies, or the disk is full.
NotingBreaks ==
    /\ Noting # {}
    /\ note' = [n \in Noters |-> NotNoting]
    /\ doubt' = TRUE /\ muddled' = TRUE
    /\ UNCHANGED <<clock, log, trimmed, was, latest, notings>>

TimePasses ==
    /\ clock < MaxClock
    /\ clock' = clock + 1
    /\ was' = Append(was, latest)
    /\ UNCHANGED <<log, note, trimmed, latest, doubt, muddled, notings>>

TickLogNext ==
    \/ \E n \in Noters : \/ \E d \in Decisions : ReadLog(n, d)
                         \/ Trim(n) \/ AppendLine(n)
    \/ NotingBreaks \/ TimePasses
-----------------------------------------------------------------------------
Later(m, n) == IF m >= n THEN m ELSE n

\* time_in: each line lasts until the next, the last one until now.
TimeIn(reason, since) ==
    LET end(i) == IF i = Len(log) THEN clock ELSE log[i + 1].at
        held == {i \in DOMAIN log : log[i].why = reason /\ end(i) > since}
    IN MapThenSumSet(LAMBDA i : end(i) - Later(log[i].at, since), held)

\* How long it really was, from a moment on.
HeldUp(reason, since) == Cardinality({t \in (since + 1)..clock : was[t] = reason})

\* The newest line says what was decided last, unless the noting of that
\* decision crossed another one or was cut off.
NewestIsTheLast ==
    Noting = {} => doubt \/ (IF log = <<>> THEN Ran ELSE log[Len(log)].why) = latest

\* And as long as none ever was, the time counted for each reason is the time it
\* held pu up: from any moment the log still reaches back to, and never more than
\* that from an earlier one.
LogTellsWhy ==
    /\ NewestIsTheLast
    /\ Noting = {} /\ ~muddled => \A reason \in Reasons, since \in 0..clock :
           /\ TimeIn(reason, since) <= HeldUp(reason, since)
           /\ ~trimmed \/ since >= log[1].at => TimeIn(reason, since) = HeldUp(reason, since)
=============================================================================
