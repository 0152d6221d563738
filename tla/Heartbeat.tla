----------------------------- MODULE Heartbeat -----------------------------
(***************************************************************************)
(* The silence watchdog (silence in pu/control.py).  A tick, under the tick *)
(* lock and before the gates, reads when the last one was, stamps itself    *)
(* with the counters that /stats reads, and tells the owner if the gap was  *)
(* too long.  The stamp's write empties the file first; nothing stops the   *)
(* tick if it fails.                                                        *)
(***************************************************************************)
EXTENDS Naturals

CONSTANTS
    Silent,        \* a longer gap is silence: ten beats, at least ten minutes
    MaxNow,        \* bound: time
    MaxBeats,      \* bound: ticks
    MaxLapses      \* bound: deaths, writes and messages that fail

VARIABLES
    now,
    stamp,         \* heartbeat.json
    beat,          \* what the tick has read and is about to do
    last,          \* history: the last tick, whether a silence ended with it, and
                   \* whether the owner was told of one
    saved,         \* history: the stamp is the last tick's
    tally,         \* history: ticks and silences so far
    unbroken,      \* history: every tick was stamped
    lapses

heartbeatVars == <<now, stamp, beat, last, saved, tally, unbroken, lapses>>

Unreadable == [readable |-> FALSE, at |-> 0, ticks |-> 0, silences |-> 0]
NoBeat == [step |-> "idle", gap |-> FALSE, record |-> Unreadable]

HeartbeatInit ==
    /\ now = 0 /\ stamp = Unreadable /\ beat = NoBeat
    /\ last = [at |-> 0, silent |-> FALSE, told |-> FALSE, lapsed |-> FALSE]
    /\ saved = FALSE /\ tally = [ticks |-> 0, silences |-> 0]
    /\ unbroken = TRUE /\ lapses = 0

Lapse == lapses < MaxLapses /\ lapses' = lapses + 1

TimeGoesBy ==
    /\ now < MaxNow /\ beat = NoBeat
    /\ now' = now + 1
    /\ UNCHANGED <<stamp, beat, last, saved, tally, unbroken, lapses>>

Gap == stamp.readable /\ now - stamp.at > Silent

\* Mutation: only a silence moves the stamp on.
StampAtSilence ==
    [readable |-> TRUE, at |-> IF Gap \/ ~stamp.readable THEN now ELSE stamp.at,
     ticks |-> stamp.ticks + 1, silences |-> stamp.silences + (IF Gap THEN 1 ELSE 0)]
\* A file that cannot be read starts the counters again.
Stamp ==
    [readable |-> TRUE, at |-> now,
     ticks |-> stamp.ticks + 1, silences |-> stamp.silences + (IF Gap THEN 1 ELSE 0)]

ReadStamp ==
    /\ beat = NoBeat /\ tally.ticks < MaxBeats
    /\ beat' = [step |-> "open", gap |-> Gap, record |-> Stamp]
    /\ LET silent == tally.ticks > 0 /\ now - last.at > Silent
       IN /\ last' = [at |-> now, silent |-> silent, told |-> FALSE,
                      lapsed |-> tally.ticks > 0 /\ ~saved]
          /\ tally' = [ticks |-> tally.ticks + 1,
                       silences |-> tally.silences + (IF silent THEN 1 ELSE 0)]
    /\ saved' = FALSE
    /\ UNCHANGED <<now, stamp, unbroken, lapses>>

OpenStamp ==
    /\ beat.step = "open"
    /\ \/ stamp' = Unreadable /\ beat' = [beat EXCEPT !.step = "write"]
          /\ UNCHANGED <<unbroken, lapses>>
       \/ Lapse /\ beat' = [beat EXCEPT !.step = "tell"] /\ unbroken' = FALSE /\ UNCHANGED stamp
    /\ UNCHANGED <<now, last, saved, tally>>

WriteStamp ==
    /\ beat.step = "write"
    /\ \/ stamp' = beat.record /\ saved' = TRUE /\ UNCHANGED <<unbroken, lapses>>
       \/ Lapse /\ unbroken' = FALSE /\ UNCHANGED <<stamp, saved>>
    /\ beat' = [beat EXCEPT !.step = "tell"]
    /\ UNCHANGED <<now, last, tally>>

\* A message that fails is not sent again.
TellSilence ==
    /\ beat.step = "tell"
    /\ \/ last' = [last EXCEPT !.told = beat.gap] /\ UNCHANGED lapses
       \/ beat.gap /\ Lapse /\ last' = [last EXCEPT !.lapsed = TRUE]
    /\ beat' = NoBeat
    /\ UNCHANGED <<now, stamp, saved, tally, unbroken>>

\* The process dies in the tick.
HeartbeatDie ==
    /\ beat # NoBeat /\ Lapse
    /\ last' = [last EXCEPT !.lapsed = TRUE]
    /\ unbroken' = (unbroken /\ saved)
    /\ beat' = NoBeat
    /\ UNCHANGED <<now, stamp, saved, tally>>

HeartbeatNext ==
    TimeGoesBy \/ ReadStamp \/ OpenStamp \/ WriteStamp \/ TellSilence \/ HeartbeatDie
-----------------------------------------------------------------------------
\* The tick that ends a silence tells of it, and no other tick does: the next
\* one finds the stamp moved on.  It takes a stamp that was not saved, a
\* message that failed or a death for a silence to be passed over or taken for
\* one that was not.  And as long as every tick was stamped, the counters count
\* the ticks and the silences there were.
SilenceIsToldOnce ==
    beat = NoBeat =>
        /\ last.lapsed \/ last.told = last.silent
        /\ unbroken => [ticks |-> stamp.ticks, silences |-> stamp.silences] = tally
=============================================================================
