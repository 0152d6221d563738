------------------------------ MODULE Notices ------------------------------
(***************************************************************************)
(* Routine news for the owner (pu/notify.py).  A door that flips a switch   *)
(* appends a line to a file; the deciding tick sends what is there as one   *)
(* message once nothing new has come for a while, and removes the file if   *)
(* the message was delivered.  The doors run in threads of their own and    *)
(* take no lock.                                                            *)
(***************************************************************************)
EXTENDS Naturals

CONSTANTS
    Lines,
    MaxTrouble    \* bound: full disks, failed removals and deaths together

VARIABLES
    queued,      \* history: lines a door has queued
    pending,     \* the whole lines in pending_notices.jsonl
    damaged,     \* and one was cut short
    burst,       \* the newest line is younger than QUIET_SECONDS
    flush,       \* the flush of the deciding tick, and the lines it read
    received,    \* history: how often the owner got each line
    lost,        \* history: lines that came after a flush had read, or were cut short
    kept,        \* history: lines delivered by a flush that did not remove the file
    trouble

noticesVars == <<queued, pending, damaged, burst, flush, received, lost, kept, trouble>>

NotFlushing == [step |-> "idle", lines |-> {}]

NoticesInit ==
    /\ queued = {} /\ pending = {} /\ damaged = FALSE /\ burst = FALSE
    /\ flush = NotFlushing
    /\ received = [l \in Lines |-> 0]
    /\ lost = {} /\ kept = {} /\ trouble = 0

Trouble == trouble < MaxTrouble /\ trouble' = trouble + 1

\* queue_owner.  What goes wrong is swallowed, and leaves part of the line.
Queue(l) ==
    /\ l \notin queued /\ queued' = queued \cup {l}
    /\ burst' = TRUE
    /\ \/ pending' = pending \cup {l} /\ UNCHANGED <<damaged, lost, trouble>>
       \/ Trouble /\ damaged' = TRUE /\ lost' = lost \cup {l} /\ UNCHANGED pending
    /\ UNCHANGED <<flush, received, kept>>

BurstEnds ==
    /\ burst /\ burst' = FALSE
    /\ UNCHANGED <<queued, pending, damaged, flush, received, lost, kept, trouble>>

\* One line that cannot be read keeps the whole file from being sent.
FlushReads ==
    /\ flush = NotFlushing
    /\ pending # {} /\ ~damaged /\ ~burst
    /\ flush' = [step |-> "send", lines |-> pending]
    /\ UNCHANGED <<queued, pending, damaged, burst, received, lost, kept, trouble>>

\* Mutation: the file is removed whatever became of the message.
RefusedDrops ==
    /\ flush.step = "send"
    /\ flush' = [flush EXCEPT !.step = "unlink"]
    /\ UNCHANGED <<queued, pending, damaged, burst, received, lost, kept, trouble>>
\* Nobody holds the owner role, or the bridge is away: kept for the next tick.
Refused ==
    /\ flush.step = "send"
    /\ flush' = NotFlushing
    /\ UNCHANGED <<queued, pending, damaged, burst, received, lost, kept, trouble>>

Delivered ==
    /\ flush.step = "send"
    /\ received' = [l \in Lines |-> IF l \in flush.lines THEN received[l] + 1 ELSE received[l]]
    /\ flush' = [flush EXCEPT !.step = "unlink"]
    /\ UNCHANGED <<queued, pending, damaged, burst, lost, kept, trouble>>

\* Mutation: a file that has grown since is left for the next tick.
UnlinkUngrown ==
    /\ flush.step = "unlink"
    /\ flush' = NotFlushing
    /\ IF pending = flush.lines THEN pending' = {} /\ damaged' = FALSE
       ELSE UNCHANGED <<pending, damaged>>
    /\ UNCHANGED <<queued, burst, received, lost, kept, trouble>>
\* The whole file goes, with what was queued since it was read.
Unlink ==
    /\ flush.step = "unlink"
    /\ flush' = NotFlushing
    /\ pending' = {} /\ damaged' = FALSE
    /\ lost' = lost \cup (pending \ flush.lines)
    /\ UNCHANGED <<queued, burst, received, kept, trouble>>

\* The removal fails, or the process dies with the flush at any step.
FlushBreaks ==
    /\ flush # NotFlushing /\ Trouble
    /\ flush' = NotFlushing
    /\ kept' = IF flush.step = "unlink" THEN kept \cup flush.lines ELSE kept
    /\ UNCHANGED <<queued, pending, damaged, burst, received, lost>>

NoticesNext ==
    \/ \E l \in Lines : Queue(l)
    \/ BurstEnds \/ FlushReads \/ Refused \/ Delivered \/ Unlink \/ FlushBreaks

\* The gateway keeps poking, and the owner is reached if that is tried again
\* and again.
NoticesFairness ==
    /\ WF_noticesVars(BurstEnds) /\ WF_noticesVars(FlushReads)
    /\ WF_noticesVars(Refused \/ Delivered) /\ SF_noticesVars(Delivered)
    /\ WF_noticesVars(Unlink)
-----------------------------------------------------------------------------
\* However long nobody can be reached, a queued line is told, unless it came
\* between the reading of the file and its removal, or the file has a line
\* that was cut short: from then on nothing is sent.
NoticesArrive ==
    \A l \in Lines : l \in queued ~> (received[l] > 0 \/ l \in lost \/ damaged)

\* The owner is told a line twice only if a flush had delivered it and could
\* not remove the file.
ToldTwiceIsTrouble == \A l \in Lines : received[l] > 1 => l \in kept
=============================================================================
