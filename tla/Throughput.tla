----------------------------- MODULE Throughput -----------------------------
(***************************************************************************)
(* The most sessions that ran at once, as /stats works it out of the run    *)
(* records of a window (stats.throughput): the starts and the ends in the   *)
(* order of time, ends first, and one added or taken off at each.           *)
(***************************************************************************)
EXTENDS Integers, Sequences, FiniteSets, Folds

CONSTANTS
    Ended,        \* the runs that can be in the window
    MaxMoment     \* bound: time

ASSUME ThroughputAssumption == MaxMoment \in Nat

VARIABLES window    \* the runs recorded in the window, with start and end

Spans == {s \in (0..MaxMoment) \X (0..MaxMoment) : s[1] <= s[2]}

ThroughputInit == window = <<>>

\* recorded_at is the end; the start is duration_ms before it, which is
\* nothing for a run that reported no duration.
RunRecorded(span) ==
    /\ Len(window) < Ended
    /\ window' = Append(window, span)

ThroughputNext == \E span \in Spans : RunRecorded(span)

Edges == {<<window[i][1], 1, i>> : i \in DOMAIN window}
         \cup {<<window[i][2], -1, i>> : i \in DOMAIN window}
\* Mutation: a session that starts as another ends counts beside it.
StartsFirst(e, f) == e[1] < f[1] \/ (e[1] = f[1] /\ e[2] >= f[2])
EndsFirst(e, f) == e[1] < f[1] \/ (e[1] = f[1] /\ e[2] <= f[2])

\* One step is added or taken off, and the most there ever were is kept.
MeetEdge(e, acc) ==
    [running |-> acc.running + e[2],
     peak |-> IF acc.running + e[2] > acc.peak THEN acc.running + e[2] ELSE acc.peak]

\* Sorted, the last edge is met after all the others have been.
LastMet(edges) == CHOOSE e \in edges : \A f \in edges : EndsFirst(f, e)

PeakSimultaneous ==
    MapThenFoldSet(MeetEdge, [running |-> 0, peak |-> 0], LAMBDA e : e, LastMet, Edges).peak

RunningAt(t) == Cardinality({i \in DOMAIN window : window[i][1] <= t /\ t < window[i][2]})

\* The peak is reached at some moment and passed at none, although the sweep
\* meets starts and ends of one moment in an order of its own, and the end of
\* a run without a duration before its start.
PeakIsReached ==
    /\ \A t \in 0..MaxMoment : RunningAt(t) <= PeakSimultaneous
    /\ \E t \in 0..MaxMoment : RunningAt(t) = PeakSimultaneous
=============================================================================
