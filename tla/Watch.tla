------------------------------- MODULE Watch -------------------------------
(***************************************************************************)
(* Triggers that watch a source (`http-json`, `rss`): the tick's evaluation *)
(* (emit_due_work, pu/pipeline.py; evaluate, advanced, fetch_due and        *)
(* after_fetch, pu/triggers.py), the cursors it keeps in cursors.json, and  *)
(* a rename that moves a cursor under the tick's feet (rename_trigger,      *)
(* pu/service.py).                                                          *)
(*                                                                          *)
(* One source is watched under one of Names.  Ticks evaluate one at a time, *)
(* under the tick lock; a rename runs beside them.  Times in a cursor are   *)
(* kept relative to now: `rest` is what is left of the fetch interval and   *)
(* `back` of the back-off.                                                  *)
(***************************************************************************)
EXTENDS Integers, FiniteSets, Sequences, SequencesExt

CONSTANTS
    Names,         \* trigger names: the one in use and those a rename may take
    First,         \* the name in use at the start
    MaxItem,       \* bound: items 1..MaxItem are published, in this order
    Matching,      \* the items the predicate's per-item clauses accept
    Threshold,     \* of the clause [count_since_fire, ">=", Threshold]; 1 is no clause
    Window,        \* the source serves its last Window items
    SeenLimit,     \* SEEN_LIMIT
    Interval,      \* every_seconds, or DEFAULT_FETCH_SECONDS
    MinBackoff, MaxBackoff,
    RetryAfters,   \* the Retry-After values a refusal may carry
    NoHeader,      \* a refusal without one
    MaxFetch,      \* bound: how long a fetch may take
    MaxRenames,    \* bound: renames
    MaxFailures    \* bound: ticks that fail or processes that die

Items == 1..MaxItem
Largest(a, b) == IF a >= b THEN a ELSE b
Smallest(a, b) == IF a <= b THEN a ELSE b

ASSUME WatchAssumption ==
    /\ First \in Names /\ MaxItem \in Nat /\ Matching \subseteq Items
    /\ Threshold \in Nat \ {0} /\ Window \in Nat /\ SeenLimit \in Nat \ {0}
    /\ Interval \in Nat /\ MinBackoff \in Nat /\ MaxBackoff \in Nat /\ MinBackoff <= MaxBackoff
    /\ RetryAfters \subseteq Nat /\ NoHeader \notin RetryAfters
    /\ MaxFetch \in Nat /\ MaxRenames \in Nat /\ MaxFailures \in Nat

VARIABLES
    newest,      \* the source: the last item published
    listed,      \* triggers.jsonl: the names whose last line is enabled
    cursors,     \* cursors.json: a cursor for some of the names
    pc, todo,    \* the tick: where it is, and the names it has still to look at
    at, hand,    \* the trigger it is evaluating and the cursor it will save
    lag,         \* how long ago it looked at the clock, while it fetches
    found,       \* the matched items of the evaluation
    loaded,      \* the cursors it read back in save_cursor
    rpc, from, to, moved, rloaded, \* the rename: where it is, names, cursor, cursors
    carried,     \* history: how many tasks carry each item
    tasks,       \* history: tasks created
    sighted,     \* history: matching items a saved cursor has ever had in `seen`
    owed, slow,  \* history: how long the source has asked to be left alone, and
                 \* how long the fetch that it answered so had taken
    failures, renames

file == <<newest, listed, cursors>>
tick == <<pc, todo, at, hand, lag, found, loaded>>
rename == <<rpc, from, to, moved, rloaded>>
history == <<carried, tasks, sighted, owed, slow>>
vars == <<file, tick, rename, history, failures, renames>>
-----------------------------------------------------------------------------
Empty == [seen |-> <<>>, pending |-> 0, rest |-> 0, back |-> 0, delay |-> 0]
NoCursors == [n \in {} |-> Empty]
Cursor(name) == IF name \in DOMAIN cursors THEN cursors[name] ELSE Empty
Saved(state, name, cursor) ==
    [n \in DOMAIN state \cup {name} |-> IF n = name THEN cursor ELSE state[n]]
SeenMatching(state) == (UNION {ToSet(state[n].seen) : n \in DOMAIN state}) \cap Matching

Fresh(cursor, ids) == ids \ ToSet(cursor.seen)

\* Those that satisfy every clause of the predicate.
Matched(ids) == ids \cap Matching

\* Mutation: the slice keeps the head.
RememberHead(seen, new) ==
    SubSeq(seen \o new, 1, Smallest(SeenLimit, Len(seen) + Len(new)))
\* First-seen order, and the last SeenLimit of it.
Remember(seen, new) ==
    LET all == seen \o new
    IN SubSeq(all, Largest(1, Len(all) - SeenLimit + 1), Len(all))

\* Mutation: doubling from zero.
WaitFromZero(delay, header) ==
    IF header = NoHeader THEN Smallest(delay * 2, MaxBackoff) ELSE header
\* How long a 429 or 503 makes a watch wait.
Wait(delay, header) ==
    IF header = NoHeader
    THEN Smallest(Largest(delay * 2, MinBackoff), MaxBackoff)
    ELSE header

Less(n) == Largest(n - 1, 0)
Older(cursor) == [cursor EXCEPT !.rest = Less(@), !.back = Less(@)]
AllOlder(state) == [n \in DOMAIN state |-> Older(state[n])]
-----------------------------------------------------------------------------
Init ==
    /\ newest = 0 /\ listed = {First} /\ cursors = NoCursors
    /\ pc = "idle" /\ todo = {} /\ at = First /\ hand = Empty /\ lag = 0
    /\ found = {} /\ loaded = NoCursors
    /\ rpc = "none" /\ from = First /\ to = First /\ moved = Empty /\ rloaded = NoCursors
    /\ carried = [i \in Items |-> 0] /\ tasks = 0 /\ sighted = {} /\ owed = 0 /\ slow = 0
    /\ failures = 0 /\ renames = 0

\* The source and the clock move on where a tick can tell: between ticks and
\* while it fetches.
Noticed == pc \in {"idle", "fetch"}

Publish ==
    /\ Noticed /\ newest < MaxItem
    /\ newest' = newest + 1
    /\ UNCHANGED <<listed, cursors, tick, rename, history, failures, renames>>

\* A unit of time: everything kept as an instant gets that much older.
Pass ==
    /\ Noticed /\ (pc = "fetch" => lag < MaxFetch)
    /\ lag' = IF pc = "fetch" THEN lag + 1 ELSE lag
    /\ cursors' = AllOlder(cursors) /\ hand' = Older(hand)
    /\ loaded' = AllOlder(loaded)
    /\ moved' = Older(moved) /\ rloaded' = AllOlder(rloaded)
    /\ owed' = Less(owed)
    /\ UNCHANGED <<newest, listed, pc, todo, at, found, rpc, from, to, carried, tasks,
                   sighted, slow, failures, renames>>

TickBegin ==
    /\ pc = "idle"
    /\ todo' = listed
    /\ pc' = "next"
    /\ UNCHANGED <<file, at, hand, lag, found, loaded, rename, history, failures, renames>>

TickEnd ==
    /\ pc = "next" /\ todo = {}
    /\ pc' = "idle"
    /\ UNCHANGED <<file, todo, at, hand, lag, found, loaded, rename, history, failures, renames>>

\* Take a trigger in hand with its cursor, unless it fetched recently or is
\* backing off.
Consider(name) ==
    /\ pc = "next" /\ name \in todo
    /\ todo' = todo \ {name}
    /\ IF Cursor(name).back > 0 \/ Cursor(name).rest > 0
       THEN UNCHANGED <<pc, at, hand>>
       ELSE /\ at' = name
            /\ hand' = [Cursor(name) EXCEPT !.rest = Interval]
            /\ pc' = "fetch"
    /\ UNCHANGED <<file, lag, found, loaded, rename, history, failures, renames>>

\* What the source serves, in whatever order it serves it.
Served == {i \in Items : newest - Window < i /\ i <= newest}

\* Mutation: a fire leaves `pending` as it is.
AnswerKeepsPending(new) ==
    LET matched == Matched(ToSet(new))
        pending == hand.pending + Cardinality(matched)
        fired == pending >= Threshold /\ matched # {}
    IN /\ hand' = [hand EXCEPT !.seen = Remember(@, new), !.pending = pending,
                               !.back = 0, !.delay = 0]
       /\ found' = matched
       /\ pc' = IF fired THEN "add" ELSE "load"
       /\ UNCHANGED <<file, todo, at, loaded, rename, history, failures, renames>>

\* Mutation: the cursor advances before the task is created.
AnswerSavesFirst(new) ==
    LET matched == Matched(ToSet(new))
        pending == hand.pending + Cardinality(matched)
        fired == pending >= Threshold /\ matched # {}
    IN /\ hand' = [hand EXCEPT !.seen = Remember(@, new),
                               !.pending = IF fired THEN 0 ELSE pending,
                               !.back = 0, !.delay = 0]
       /\ cursors' = Saved(cursors, at, hand')
       /\ sighted' = sighted \cup SeenMatching(cursors')
       /\ found' = matched
       /\ pc' = IF fired THEN "add" ELSE "load"
       /\ UNCHANGED <<newest, listed, todo, at, loaded, rename, carried, tasks, owed, slow,
                      failures, renames>>

\* A 2xx that can be read, with these ids among others that are remembered.
\* Every id is remembered, the matched ones count, and the trigger fires when
\* enough have been counted and one is new.
Answer(new) ==
    LET matched == Matched(ToSet(new))
        pending == hand.pending + Cardinality(matched)
        fired == pending >= Threshold /\ matched # {}
    IN /\ hand' = [hand EXCEPT !.seen = Remember(@, new),
                               !.pending = IF fired THEN 0 ELSE pending,
                               !.back = 0, !.delay = 0]
       /\ found' = matched
       /\ pc' = IF fired THEN "add" ELSE "load"
       /\ UNCHANGED <<file, todo, at, loaded, rename, history, failures, renames>>

\* A 429 or 503: no conclusion about items, and a back-off that is counted from
\* before the fetch.
Refuse(header) ==
    LET wait == Wait(hand.delay, header)
    IN /\ hand' = [hand EXCEPT !.back = Largest(wait - lag, 0), !.delay = wait]
       /\ owed' = IF header = NoHeader THEN MinBackoff ELSE header
       /\ slow' = lag
       /\ pc' = "load"
       /\ UNCHANGED <<file, todo, at, found, loaded, rename, carried, tasks, sighted,
                      failures, renames>>

\* Another failure keeps the length of the last back-off; a 2xx that cannot
\* be read resets it.  Neither says anything about items.
Fail ==
    /\ \E delay \in {hand.delay, 0} : hand' = [hand EXCEPT !.delay = delay]
    /\ pc' = "load"
    /\ UNCHANGED <<file, todo, at, found, loaded, rename, history, failures, renames>>

\* A clause of the predicate that cannot be used: the trigger is passed over,
\* and its cursor is left without even the fetch.
PassOver ==
    /\ pc' = "next" /\ at' = First /\ hand' = Empty
    /\ UNCHANGED <<file, todo, found, loaded, rename, history, failures, renames>>

Fetch ==
    /\ pc = "fetch" /\ lag' = 0
    /\ \/ \E new \in SetToSeqs(Fresh(hand, Served)) : Answer(new)
       \/ \E header \in RetryAfters \cup {NoHeader} : Refuse(header)
       \/ Fail \/ PassOver

\* The task is created, in a store this module does not look at again.
Add ==
    /\ pc = "add"
    /\ carried' = [i \in Items |-> carried[i] + (IF i \in found THEN 1 ELSE 0)]
    /\ tasks' = tasks + 1
    /\ pc' = "body"
    /\ UNCHANGED <<file, todo, at, hand, lag, found, loaded, rename, sighted, owed, slow, failures, renames>>

WriteBody ==
    /\ pc = "body"
    /\ pc' = "load"
    /\ UNCHANGED <<file, todo, at, hand, lag, found, loaded, rename, history, failures, renames>>

\* save_cursor reads the whole file back ...
Load ==
    /\ pc = "load"
    /\ loaded' = cursors
    /\ pc' = "save"
    /\ UNCHANGED <<file, todo, at, hand, lag, found, rename, history, failures, renames>>

\* ... and replaces it.
Save ==
    /\ pc = "save"
    /\ cursors' = Saved(loaded, at, hand)
    /\ sighted' = sighted \cup SeenMatching(cursors')
    /\ pc' = "next" /\ at' = First /\ hand' = Empty /\ found' = {} /\ loaded' = NoCursors
    /\ UNCHANGED <<newest, listed, todo, lag, rename, carried, tasks, owed, slow, failures, renames>>

RenameOver ==
    /\ rpc' = "none" /\ from' = First /\ to' = First
    /\ moved' = Empty /\ rloaded' = NoCursors

Abandon ==
    /\ pc' = "idle" /\ todo' = {} /\ at' = First /\ hand' = Empty /\ lag' = 0
    /\ found' = {} /\ loaded' = NoCursors
    /\ owed' = IF pc \in {"load", "save"} THEN 0 ELSE owed
    /\ UNCHANGED <<file, carried, tasks, sighted, slow, renames>>

\* The store, the body or the cursor cannot be written: the exception leaves
\* emit_due_work, and with it the tick.
Fault ==
    /\ pc \in {"add", "body", "load", "save"} /\ failures < MaxFailures
    /\ failures' = failures + 1
    /\ Abandon
    /\ UNCHANGED rename

\* The process dies, and a rename with it.
Crash ==
    /\ pc # "idle" \/ rpc # "none"
    /\ failures < MaxFailures
    /\ failures' = failures + 1
    /\ Abandon
    /\ RenameOver
-----------------------------------------------------------------------------
\* rename_trigger: the new name's line, the old name's line, then the cursor.
RenameBegin(old, new) ==
    /\ rpc = "none" /\ renames < MaxRenames
    /\ old \in listed /\ new \notin listed
    /\ renames' = renames + 1
    /\ listed' = listed \cup {new}
    /\ from' = old /\ to' = new /\ rpc' = "retire"
    /\ UNCHANGED <<newest, cursors, tick, moved, rloaded, history, failures>>

RenameRetire ==
    /\ rpc = "retire"
    /\ listed' = listed \ {from}
    /\ rpc' = "read"
    /\ UNCHANGED <<newest, cursors, tick, from, to, moved, rloaded, history, failures, renames>>

RenameRead ==
    /\ rpc = "read"
    /\ IF from \in DOMAIN cursors
       THEN /\ rpc' = "load" /\ moved' = cursors[from]
            /\ UNCHANGED <<from, to, rloaded>>
       ELSE RenameOver
    /\ UNCHANGED <<file, tick, history, failures, renames>>

RenameLoad ==
    /\ rpc = "load"
    /\ rloaded' = cursors
    /\ rpc' = "save"
    /\ UNCHANGED <<file, tick, from, to, moved, history, failures, renames>>

RenameSave ==
    /\ rpc = "save"
    /\ cursors' = Saved(rloaded, to, moved)
    /\ sighted' = sighted \cup SeenMatching(cursors')
    /\ RenameOver
    /\ UNCHANGED <<newest, listed, tick, carried, tasks, owed, slow, failures, renames>>
-----------------------------------------------------------------------------
Next ==
    \/ Publish \/ Pass
    \/ TickBegin \/ TickEnd \/ Fetch \/ Add \/ WriteBody \/ Load \/ Save
    \/ \E name \in Names : Consider(name)
    \/ Fault \/ Crash
    \/ \E old, new \in Names : RenameBegin(old, new)
    \/ RenameRetire \/ RenameRead \/ RenameLoad \/ RenameSave

Spec == Init /\ [][Next]_vars
-----------------------------------------------------------------------------
CursorRecord == [seen : Seq(Items), pending : Nat, rest : Nat, back : Nat, delay : Nat]

\* An item that a cursor has marked as seen, and that the predicate accepts,
\* is carried by a task or is one of the fewer than Threshold items that were
\* counted towards a fire: no crash, failure or rename loses it ("the other
\* order marks the items seen and loses the work with nobody the wiser",
\* pipeline.py).
NothingSeenUnreported ==
    Cardinality({i \in sighted : carried[i] = 0}) <= (Threshold - 1) * (tasks + 1)

\* Each item is reported once, once more for each tick that fails or dies, and
\* at most twice more for a rename that runs beside ticks -- under the new name
\* before its cursor has arrived, and from a cursor that arrives stale --
\* whatever order the source serves its items in ("a feed that reorders or
\* backfills still reports each item once", triggers.py).
ItemsReportedOnce == \A i \in Items : carried[i] <= 1 + failures + 2 * renames

\* A task takes Threshold items nobody has counted before ("every third post"),
\* except for one repeated by a failure.
TasksCountNewItems ==
    renames = 0 => tasks * Threshold
                       <= Cardinality(Matching \cap 1..newest) + Threshold * failures

\* A source that has refused is fetched again no earlier than it asked to be, or
\* than the shortest back-off when it did not say, less the time the refused fetch
\* took: the wait is counted from the instant the tick decided to fetch, and no
\* other fetch, restart or failure shortens it -- unless the refusal was lost with
\* the tick that received it.
RefusalsAreHonoured == (renames = 0 /\ pc = "fetch") => owed <= slow
=============================================================================
