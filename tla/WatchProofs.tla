---------------------------- MODULE WatchProofs ----------------------------
(***************************************************************************)
(* What a watched source can rely on, for any feed, predicate, window,     *)
(* intervals and number of failures, while its trigger keeps its name.     *)
(***************************************************************************)
EXTENDS Watch, SequenceTheorems, FiniteSetTheorems, TLAPS

-----------------------------------------------------------------------------
(* Cursors and waits.                                                      *)

\* A cursor, as far as its back-off goes.
WellFormed(c) ==
    /\ c = [seen |-> c.seen, pending |-> c.pending, rest |-> c.rest,
            back |-> c.back, delay |-> c.delay]
    /\ c.back \in Nat /\ c.delay \in Nat

\* A refusal is waited out for as long as the source asked, or for the
\* shortest back-off at least.
LEMMA WaitsLongEnough ==
    ASSUME NEW d \in Nat, NEW header \in RetryAfters \cup {NoHeader}
    PROVE  /\ Wait(d, header) \in Nat
           /\ (IF header = NoHeader THEN MinBackoff ELSE header) \in Nat
           /\ (IF header = NoHeader THEN MinBackoff ELSE header) <= Wait(d, header)
    BY WatchAssumption DEF Wait, Smallest, Largest

LEMMA LessKeepsOrder ==
    ASSUME NEW m \in Nat, NEW n \in Nat, m <= n
    PROVE  Less(m) \in Nat /\ Less(n) \in Nat /\ Less(m) <= Less(n)
    BY DEF Less, Largest

LEMMA OlderCursor ==
    ASSUME NEW c, WellFormed(c)
    PROVE  WellFormed(Older(c)) /\ Older(c).back = Less(c.back)
    <1>1. Less(c.back) \in Nat
        BY LessKeepsOrder DEF WellFormed
    <1> DEFINE half == [c EXCEPT !.rest = Less(@)]
    <1>2. half = [seen |-> c.seen, pending |-> c.pending, rest |-> Less(c.rest),
                  back |-> c.back, delay |-> c.delay]
        BY DEF WellFormed
    <1>3. Older(c) = [half EXCEPT !.back = Less(@)]
        BY DEF WellFormed, Older
    <1> HIDE DEF half
    <1>4. Older(c) = [seen |-> c.seen, pending |-> c.pending, rest |-> Less(c.rest),
                      back |-> Less(c.back), delay |-> c.delay]
        BY <1>2, <1>3
    <1> QED
        BY <1>1, <1>4 DEF WellFormed

LEMMA EmptyCursor == WellFormed(Empty) /\ Empty.back = 0
    BY DEF WellFormed, Empty

-----------------------------------------------------------------------------
(* The invariant.                                                          *)

Locations == {"idle", "next", "fetch", "add", "body", "load", "save"}

\* With no rename there is one trigger and its cursor.
OneName ==
    /\ renames = 0 /\ rpc = "none" /\ listed = {First}
    /\ todo \subseteq {First} /\ at = First /\ pc \in Locations

CursorsTyped ==
    /\ WellFormed(hand) /\ WellFormed(moved)
    /\ cursors = [n \in DOMAIN cursors |-> cursors[n]]
    /\ \A n \in DOMAIN cursors : WellFormed(cursors[n])
    /\ loaded = [n \in DOMAIN loaded |-> loaded[n]]
    /\ \A n \in DOMAIN loaded : WellFormed(loaded[n])

\* What is owed to the source is covered, but for what its refusal took, by the
\* cursor in hand once it has been answered, and else by the one on disk; and
\* while it is asked no more than that is owed.
Covered ==
    /\ owed \in Nat /\ slow \in Nat /\ lag \in Nat
    /\ owed <= slow + IF pc \in {"load", "save"} THEN hand.back ELSE Cursor(First).back
    /\ pc \in {"fetch", "add", "body"} => owed <= slow

Honoured == OneName /\ CursorsTyped /\ Covered

LEMMA HonouredInit == Init => Honoured
    BY EmptyCursor DEF Init, Honoured, OneName, CursorsTyped, Covered, Locations,
       NoCursors, Cursor

LEMMA HonouredStep ==
    ASSUME MaxRenames = 0, Honoured, [Next]_vars
    PROVE  Honoured'
    <1> USE DEF Honoured, OneName, CursorsTyped, Covered, Locations, file, tick, rename, history
    <1>0. WellFormed(Cursor(First)) /\ Cursor(First).back \in Nat
        BY EmptyCursor DEF Cursor, WellFormed
    <1>1. CASE Publish
        BY <1>1 DEF Publish, Cursor
    <1>2. CASE Pass
        <2>1. /\ cursors' = AllOlder(cursors) /\ hand' = Older(hand)
              /\ loaded' = AllOlder(loaded) /\ moved' = Older(moved) /\ owed' = Less(owed)
              /\ lag' \in Nat /\ UNCHANGED <<slow, renames, rpc, listed, todo, at, pc>>
              /\ pc \in {"idle", "fetch"}
            BY <1>2 DEF Pass, Noticed
        <2>2. /\ DOMAIN cursors' = DOMAIN cursors
              /\ \A n \in DOMAIN cursors : cursors'[n] = Older(cursors[n])
              /\ cursors' = [n \in DOMAIN cursors' |-> cursors'[n]]
            BY <2>1 DEF AllOlder
        <2>3. /\ DOMAIN loaded' = DOMAIN loaded
              /\ \A n \in DOMAIN loaded : loaded'[n] = Older(loaded[n])
              /\ loaded' = [n \in DOMAIN loaded' |-> loaded'[n]]
            BY <2>1 DEF AllOlder
        <2>4. CursorsTyped'
            BY <2>1, <2>2, <2>3, OlderCursor
        <2>5. Cursor(First)'.back = Less(Cursor(First).back)
            <3>1. CASE First \in DOMAIN cursors
                BY <2>2, <3>1, OlderCursor DEF Cursor
            <3>2. CASE First \notin DOMAIN cursors
                BY <2>2, <3>2, EmptyCursor DEF Cursor, Less, Largest
            <3> QED
                BY <3>1, <3>2
        <2>6. owed <= slow + Cursor(First).back /\ Cursor(First).back \in Nat
            BY <1>0, <2>1
        <2>7. /\ Less(owed) \in Nat /\ Less(owed) <= slow + Less(Cursor(First).back)
              /\ owed <= slow => Less(owed) <= slow
            BY <2>6 DEF Less, Largest
        <2> HIDE DEF CursorsTyped
        <2> QED
            BY <2>1, <2>4, <2>5, <2>7
    <1>3. CASE TickBegin
        BY <1>3 DEF TickBegin, Cursor
    <1>4. CASE TickEnd
        BY <1>4 DEF TickEnd, Cursor
    <1>5. ASSUME NEW name \in Names, Consider(name)
          PROVE  Honoured'
        <2>1. name = First /\ UNCHANGED <<cursors, loaded, moved, owed, slow, lag, renames, rpc, listed>>
            BY <1>5 DEF Consider
        <2>2. CASE UNCHANGED <<pc, at, hand>>
            BY <1>5, <2>1, <2>2 DEF Consider, Cursor
        <2>3. CASE /\ ~(Cursor(name).back > 0) /\ at' = name
                   /\ hand' = [Cursor(name) EXCEPT !.rest = Interval] /\ pc' = "fetch"
            <3>1. WellFormed(hand')
                BY <1>0, <2>1, <2>3 DEF WellFormed
            <3>2. owed <= slow
                BY <1>0, <1>5, <2>1, <2>3 DEF Consider
            <3> QED
                BY <1>5, <2>1, <2>3, <3>1, <3>2, <1>0 DEF Consider, Cursor
        <2> QED
            BY <1>5, <2>2, <2>3 DEF Consider
    <1>6. CASE Fetch
        <2>1. pc = "fetch" /\ owed <= slow /\ lag' = 0
            BY <1>6 DEF Fetch
        <2>2. ASSUME NEW new \in SetToSeqs(Fresh(hand, Served)), Answer(new)
              PROVE  Honoured'
            <3>1. /\ WellFormed(hand') /\ hand'.back = 0
                  /\ pc' \in {"add", "load"}
                  /\ UNCHANGED <<file, todo, at, loaded, rename, history, failures, renames>>
                BY <2>2 DEF Answer, WellFormed
            <3>2. owed <= slow + 0
                BY <2>1
            <3> QED
                BY <1>0, <2>1, <3>1, <3>2 DEF Cursor
        <2>3. ASSUME NEW header \in RetryAfters \cup {NoHeader}, Refuse(header)
              PROVE  Honoured'
            <3>1. hand.delay \in Nat
                BY DEF WellFormed
            <3> DEFINE wait == Wait(hand.delay, header)
                       left == Largest(wait - lag, 0)
            <3>2. wait \in Nat /\ left \in Nat /\ wait <= lag + left
                BY <3>1, WaitsLongEnough DEF Largest
            <3>3. /\ hand' = [hand EXCEPT !.back = left, !.delay = wait] /\ slow' = lag
                  /\ owed' = IF header = NoHeader THEN MinBackoff ELSE header
                BY <2>3 DEF Refuse
            <3>4. owed' \in Nat /\ owed' <= wait
                BY <3>1, <3>3, WaitsLongEnough, WatchAssumption
            <3> HIDE DEF wait, left
            <3>5. WellFormed(hand') /\ hand'.back = left
                BY <3>2, <3>3 DEF WellFormed
            <3>6. slow' \in Nat /\ owed' <= slow' + hand'.back
                BY <3>2, <3>3, <3>4, <3>5
            <3> QED
                BY <2>1, <2>3, <3>4, <3>5, <3>6 DEF Refuse
        <2>4. CASE Fail
            <3>1. WellFormed(hand')
                BY <2>4 DEF Fail, WellFormed
            <3>2. owed <= slow + hand'.back
                BY <2>1, <3>1 DEF WellFormed
            <3> QED
                BY <2>1, <2>4, <3>1, <3>2 DEF Fail
        <2>5. CASE PassOver
            BY <1>0, <2>1, <2>5, EmptyCursor DEF PassOver, Cursor
        <2> QED
            BY <1>6, <2>2, <2>3, <2>4, <2>5 DEF Fetch
    <1>7. CASE Add
        BY <1>7 DEF Add, Cursor
    <1>8. CASE WriteBody
        <2>1. owed <= slow + hand.back
            BY <1>8 DEF WellFormed, WriteBody
        <2> QED
            BY <1>8, <2>1 DEF WriteBody
    <1>9. CASE Load
        BY <1>9 DEF Load
    <1>10. CASE Save
        <2>1. /\ cursors' = Saved(loaded, First, hand)
              /\ hand' = Empty /\ loaded' = NoCursors /\ pc' = "next" /\ at' = First
              /\ UNCHANGED <<owed, slow, lag, moved, renames, rpc, listed, todo>>
            BY <1>10 DEF Save
        <2>2. /\ DOMAIN cursors' = DOMAIN loaded \cup {First}
              /\ cursors' = [n \in DOMAIN cursors' |-> cursors'[n]]
              /\ \A n \in DOMAIN cursors' : cursors'[n] = IF n = First THEN hand ELSE loaded[n]
            BY <2>1 DEF Saved
        <2>3. CursorsTyped'
            BY <2>1, <2>2, EmptyCursor DEF NoCursors
        <2>4. Cursor(First)' = hand
            BY <2>2 DEF Cursor
        <2>5. owed <= slow + hand.back
            BY <1>10 DEF Save
        <2> QED
            BY <2>1, <2>3, <2>4, <2>5
    <1>11. ASSUME Abandon, UNCHANGED <<cursors, listed, renames>>, rpc' = "none", WellFormed(moved)'
           PROVE  Honoured'
        BY <1>0, <1>11, EmptyCursor DEF Abandon, Cursor, NoCursors
    <1>12. CASE Fault
        BY <1>11, <1>12 DEF Fault, Abandon
    <1>13. CASE Crash
        BY <1>11, <1>13, EmptyCursor DEF Crash, Abandon, RenameOver
    <1>14. CASE (\E old, new \in Names : RenameBegin(old, new))
                 \/ RenameRetire \/ RenameRead \/ RenameLoad \/ RenameSave
        BY <1>14 DEF RenameBegin, RenameRetire, RenameRead, RenameLoad, RenameSave
    <1>15. CASE UNCHANGED vars
        BY <1>15 DEF vars, Cursor
    <1> QED
        BY <1>1, <1>2, <1>3, <1>4, <1>5, <1>6, <1>7, <1>8, <1>9, <1>10, <1>12, <1>13,
           <1>14, <1>15 DEF Next

\* A source that has refused is asked again earlier than it said, or than the
\* shortest back-off, by no more than the refused fetch took, unless the refusal
\* went with its tick: however long fetches take, and whatever the source serves
\* and the tick meets, as long as nobody renames the trigger.
THEOREM RefusalsStand ==
    ASSUME MaxRenames = 0
    PROVE  Spec => []RefusalsAreHonoured
    <1>1. Honoured /\ [Next]_vars => Honoured'
        BY HonouredStep
    <1>2. Honoured => RefusalsAreHonoured
        BY DEF Honoured, Covered, RefusalsAreHonoured
    <1> QED
        BY <1>1, <1>2, HonouredInit, PTL DEF Spec

-----------------------------------------------------------------------------
(* What is kept of the items.                                              *)

\* Evaluating, from the cursor that is taken in hand to the one that is saved.
Busy == pc \in {"fetch", "add", "body", "load", "save"}
OnDisk == Cursor(First)
Fires == OnDisk.pending + Cardinality(found) >= Threshold
\* The task of the evaluation is there, and the cursor does not know yet.
Reported == pc = "body" \/ (pc \in {"load", "save"} /\ Fires)
Untold == {i \in sighted : carried[i] = 0}

CountsTyped ==
    /\ newest \in Nat /\ tasks \in Nat /\ failures \in Nat /\ carried \in [Items -> Nat]
    /\ DOMAIN cursors \subseteq {First}
    /\ pc = "save" => loaded = cursors

\* A cursor on disk has had what it marks as seen sighted, and counts fewer
\* items than a fire takes.
DiskKept ==
    /\ OnDisk.seen \in Seq(Items) /\ OnDisk.pending \in 0..(Threshold - 1)
    /\ sighted \subseteq Matching /\ ToSet(OnDisk.seen) \cap Matching \subseteq sighted

\* The cursor in hand is the one on disk and what was found since.
HandKept ==
    IF Busy
    THEN /\ hand.seen \in Seq(Items) /\ found \subseteq Matching
         /\ ToSet(hand.seen) \cap Matching \subseteq sighted \cup found
         /\ hand.pending = IF Fires THEN 0 ELSE OnDisk.pending + Cardinality(found)
         /\ pc = "fetch" => found = {} /\ hand.seen = OnDisk.seen
         /\ pc \in {"add", "body"} => Fires
         /\ Reported => \A i \in found : carried[i] > 0
    ELSE found = {}

\* Each task leaves at most Threshold - 1 counted items behind.
DebtCovered ==
    Cardinality(Untold) <= (Threshold - 1) * tasks + (IF Reported THEN 0 ELSE OnDisk.pending)

Kept == CountsTyped /\ DiskKept /\ HandKept /\ DebtCovered

\* Sets of matching items are finite.
LEMMA MatchingFinite ==
    ASSUME NEW S \in SUBSET Matching
    PROVE  IsFiniteSet(S) /\ Cardinality(S) \in Nat
    <1>1. IsFiniteSet(Items)
        BY FS_Interval, WatchAssumption DEF Items
    <1>2. S \in SUBSET Items
        BY WatchAssumption
    <1> QED
        BY <1>1, <1>2, FS_Subset, FS_CardinalityType

LEMMA MatchingUnion ==
    ASSUME NEW S \in SUBSET Matching, NEW T \in SUBSET Matching
    PROVE  /\ Cardinality(S \cup T) <= Cardinality(S) + Cardinality(T)
           /\ S \cap T = {} => Cardinality(S \cup T) = Cardinality(S) + Cardinality(T)
           /\ S \subseteq T => Cardinality(S) <= Cardinality(T)
    <1>1. /\ IsFiniteSet(S) /\ Cardinality(S) \in Nat
          /\ IsFiniteSet(T) /\ Cardinality(T) \in Nat
          /\ IsFiniteSet(S \cap T) /\ Cardinality(S \cap T) \in Nat
        BY MatchingFinite
    <1>2. Cardinality(S \cup T) = Cardinality(S) + Cardinality(T) - Cardinality(S \cap T)
        BY <1>1, FS_Union
    <1>3. S \cap T = {} => Cardinality(S \cap T) = 0
        BY FS_EmptySet
    <1>4. S \subseteq T => Cardinality(S) <= Cardinality(T)
        BY <1>1, FS_Subset
    <1> QED
        BY <1>1, <1>2, <1>3, <1>4

LEMMA OneMoreTimes ==
    ASSUME NEW m \in Int, NEW n \in Int
    PROVE  /\ (m + 1) * n = m * n + n
           /\ n * (m + 1) = n * m + n
    BY SMT

LEMMA LastOnes ==
    ASSUME NEW n \in Nat, NEW limit \in Nat \ {0}
    PROVE  /\ Largest(1, n - limit + 1) \in 1..(n + 1)
           /\ n - Largest(1, n - limit + 1) + 1 = Smallest(limit, n)
    BY DEF Largest, Smallest

\* The end of a sequence.
LEMMA EndOfSeq ==
    ASSUME NEW all \in Seq(Items), NEW limit \in Nat \ {0}
    PROVE  LET r == SubSeq(all, Largest(1, Len(all) - limit + 1), Len(all))
           IN /\ r \in Seq(Items) /\ Len(r) = Smallest(limit, Len(all))
              /\ \A p \in 1..Len(r) :
                    /\ p + (Len(all) - Len(r)) \in 1..Len(all)
                    /\ r[p] = all[p + (Len(all) - Len(r))]
    <1>1. Len(all) \in Nat
        BY LenProperties
    <1>2. PICK n \in Nat : n = Len(all)
        BY <1>1
    <1>3. PICK first \in 1..(n + 1) :
              first = Largest(1, n - limit + 1) /\ n - first + 1 = Smallest(limit, n)
        BY <1>2, LastOnes
    <1>4. PICK r : r = SubSeq(all, first, n)
        OBVIOUS
    <1>5. \A p \in first..n : all[p] \in Items
        BY <1>2, ElementOfSeq
    <1>6. /\ r \in Seq(Items) /\ Len(r) = n - first + 1
          /\ \A p \in 1..(n - first + 1) : r[p] = all[first + p - 1]
        BY <1>4, <1>5, SubSeqProperties
    <1>7. ASSUME NEW p \in 1..Len(r)
          PROVE  p + (n - Len(r)) \in 1..n /\ r[p] = all[p + (n - Len(r))]
        <2>1. p + (n - Len(r)) = first + p - 1
            BY <1>6
        <2> QED
            BY <1>6, <2>1
    <1> QED
        BY <1>2, <1>3, <1>4, <1>6, <1>7

\* What is remembered is the end of what was seen, old and new.
LEMMA RememberEnd ==
    ASSUME NEW s \in Seq(Items), NEW t \in Seq(Items)
    PROVE  LET all == s \o t
               r == Remember(s, t)
           IN /\ r \in Seq(Items) /\ all \in Seq(Items)
              /\ Len(all) = Len(s) + Len(t) /\ Len(r) = Smallest(SeenLimit, Len(all))
              /\ \A p \in 1..Len(r) : /\ p + (Len(all) - Len(r)) \in 1..Len(all)
                                      /\ r[p] = all[p + (Len(all) - Len(r))]
              /\ \A p \in 1..Len(all) : all[p] = IF p <= Len(s) THEN s[p] ELSE t[p - Len(s)]
              /\ ToSet(r) \subseteq ToSet(s) \cup ToSet(t)
    <1>1. PICK all : all = s \o t
        OBVIOUS
    <1>2. /\ all \in Seq(Items) /\ Len(all) = Len(s) + Len(t)
          /\ Len(s) \in Nat /\ DOMAIN s = 1..Len(s) /\ Len(t) \in Nat /\ DOMAIN t = 1..Len(t)
          /\ \A p \in 1..Len(all) : all[p] = IF p <= Len(s) THEN s[p] ELSE t[p - Len(s)]
        BY <1>1, ConcatProperties, LenProperties
    <1>3. PICK r : r = Remember(s, t)
        OBVIOUS
    <1>4. r = SubSeq(all, Largest(1, Len(all) - SeenLimit + 1), Len(all))
        BY <1>1, <1>3 DEF Remember
    <1>5. /\ r \in Seq(Items) /\ Len(r) = Smallest(SeenLimit, Len(all))
          /\ \A p \in 1..Len(r) : /\ p + (Len(all) - Len(r)) \in 1..Len(all)
                                  /\ r[p] = all[p + (Len(all) - Len(r))]
        BY <1>2, <1>4, EndOfSeq, WatchAssumption
    <1>6. \A p \in 1..Len(all) : all[p] \in ToSet(s) \cup ToSet(t)
        <2> SUFFICES ASSUME NEW p \in 1..Len(all) PROVE all[p] \in ToSet(s) \cup ToSet(t)
            OBVIOUS
        <2>1. CASE p <= Len(s)
            BY <1>2, <2>1 DEF ToSet
        <2>2. CASE p > Len(s)
            <3>1. p - Len(s) \in DOMAIN t /\ all[p] = t[p - Len(s)]
                BY <1>2, <2>2
            <3> QED
                BY <3>1 DEF ToSet
        <2> QED
            BY <1>2, <2>1, <2>2
    <1>7. ToSet(r) \subseteq ToSet(s) \cup ToSet(t)
        <2>1. DOMAIN r = 1..Len(r)
            BY <1>5, LenProperties
        <2> QED
            BY <1>5, <1>6, <2>1 DEF ToSet
    <1> QED
        BY <1>1, <1>2, <1>3, <1>5, <1>7

LEMMA OlderSame ==
    ASSUME NEW c, WellFormed(c)
    PROVE  Older(c).seen = c.seen /\ Older(c).pending = c.pending
    <1> DEFINE half == [c EXCEPT !.rest = Less(@)]
    <1>1. half = [seen |-> c.seen, pending |-> c.pending, rest |-> Less(c.rest),
                  back |-> c.back, delay |-> c.delay]
        BY DEF WellFormed
    <1>2. Older(c) = [half EXCEPT !.back = Less(@)]
        BY DEF WellFormed, Older
    <1> HIDE DEF half
    <1> QED
        BY <1>1, <1>2

-----------------------------------------------------------------------------
(* What the steps do to the items, with one name.  A quiet step changes    *)
(* nothing of them; a drop ends an evaluation; the others find, tell and   *)
(* save.                                                                   *)

Quiet ==
    /\ UNCHANGED <<sighted, carried, tasks, failures, found>>
    /\ newest' \in Nat /\ newest <= newest'
    /\ OnDisk'.seen = OnDisk.seen /\ OnDisk'.pending = OnDisk.pending
    /\ DOMAIN cursors' \subseteq {First} /\ (pc' = "save" => loaded' = cursors')
    /\ Busy' <=> Busy
    /\ Busy => hand'.seen = hand.seen /\ hand'.pending = hand.pending
    /\ pc' \in {"fetch", "add", "body"} => pc' = pc
    /\ Reported' <=> Reported

TakesInHand ==
    /\ UNCHANGED <<newest, sighted, carried, tasks, failures, found, cursors>>
    /\ ~Busy /\ pc' = "fetch"
    /\ hand'.seen = OnDisk.seen /\ hand'.pending = OnDisk.pending

Drops ==
    /\ UNCHANGED <<newest, sighted, carried, tasks, cursors>>
    /\ failures' \in {failures, failures + 1} /\ (Reported => failures' = failures + 1)
    /\ ~Busy' /\ found' = {}

Finds ==
    /\ UNCHANGED <<newest, sighted, carried, tasks, failures, cursors>>
    /\ pc = "fetch" /\ pc' = IF Fires' THEN "add" ELSE "load"
    /\ \E new \in SetToSeqs(Fresh(hand, Served)) :
          /\ hand'.seen = Remember(hand.seen, new)
          /\ found' = ToSet(new) \cap Matching
          /\ hand'.pending = IF Fires' THEN 0 ELSE OnDisk.pending + Cardinality(found')

Tells ==
    /\ UNCHANGED <<newest, sighted, failures, found, cursors>>
    /\ pc = "add" /\ pc' = "body"
    /\ hand'.seen = hand.seen /\ hand'.pending = hand.pending
    /\ carried' = [i \in Items |-> carried[i] + (IF i \in found THEN 1 ELSE 0)]
    /\ tasks' = tasks + 1

Saves ==
    /\ UNCHANGED <<newest, carried, tasks, failures>>
    /\ pc = "save" /\ ~Busy' /\ found' = {}
    /\ DOMAIN cursors' = {First} /\ OnDisk' = hand
    /\ sighted' = sighted \cup (ToSet(hand.seen) \cap Matching)

ItemStep == Quiet \/ TakesInHand \/ Drops \/ Finds \/ Tells \/ Saves

\* What is new to a cursor comes as items, each once, of the window.
LEMMA NewOnes ==
    ASSUME NEW c, NEW new \in SetToSeqs(Fresh(c, Served))
    PROVE  /\ new \in Seq(Items) /\ ToSet(new) \subseteq Items
           /\ Len(new) \in Nat /\ DOMAIN new = 1..Len(new)
           /\ \A p \in 1..Len(new) : new[p] \in Served /\ new[p] \notin ToSet(c.seen)
           /\ \A p, q \in 1..Len(new) : p # q => new[p] # new[q]
    <1> DEFINE S == Fresh(c, Served)
    <1>1. S \subseteq Items /\ S \subseteq Served
        BY DEF Fresh, Served
    <1>2. IsFiniteSet(S) /\ Cardinality(S) \in Nat
        <2>1. IsFiniteSet(Items)
            BY FS_Interval, WatchAssumption DEF Items
        <2>2. S \in SUBSET Items
            BY <1>1
        <2> HIDE DEF S
        <2> QED
            BY <2>1, <2>2, FS_Subset, FS_CardinalityType
    <1>3. PICK n \in Nat : n = Cardinality(S)
        BY <1>2
    <1>4. new \in [1..n -> S] /\ \A p, q \in 1..n : p # q => new[p] # new[q]
        BY <1>3, Zenon DEF SetToSeqs
    <1>5. new \in Seq(Items) /\ Len(new) = n
        BY <1>1, <1>4
    <1>6. \A p \in 1..n : new[p] \in Served /\ new[p] \notin ToSet(c.seen)
        BY <1>4 DEF Fresh
    <1> HIDE DEF S
    <1> QED
        BY <1>1, <1>4, <1>5, <1>6 DEF ToSet

\* One name goes through its own few states.
LEMMA Stays == ASSUME Honoured, Kept PROVE WellFormed(OnDisk) /\ (found = {} => ~Fires)
    <1>1. WellFormed(OnDisk)
        BY EmptyCursor DEF Honoured, CursorsTyped, OnDisk, Cursor
    <1>2. ~(OnDisk.pending + 0 >= Threshold)
        BY WatchAssumption DEF Kept, DiskKept
    <1>3. found = {} => ~Fires
        BY <1>2, FS_EmptySet, Zenon DEF Fires
    <1> QED
        BY <1>1, <1>3

LEMMA QuietSteps ==
    ASSUME MaxRenames = 0, Honoured, Kept,
           Publish \/ TickBegin \/ TickEnd \/ WriteBody \/ Load
    PROVE  Quiet
    <1> USE Stays DEF Honoured, OneName, Kept, CountsTyped, file, tick, rename, history,
            Quiet, OnDisk, Cursor, Busy, Reported, Fires
    <1>1. CASE Publish
        BY <1>1 DEF Publish, Noticed
    <1>2. CASE TickBegin
        BY <1>2 DEF TickBegin
    <1>3. CASE TickEnd
        BY <1>3 DEF TickEnd
    <1>4. CASE WriteBody
        BY <1>4 DEF WriteBody, HandKept
    <1>5. CASE Load
        BY <1>5 DEF Load
    <1> QED
        BY <1>1, <1>2, <1>3, <1>4, <1>5

LEMMA PassIsQuiet == ASSUME Honoured, Kept, Pass PROVE Quiet
    <1>1. /\ cursors' = AllOlder(cursors) /\ hand' = Older(hand) /\ loaded' = AllOlder(loaded)
          /\ UNCHANGED <<newest, pc, found, carried, tasks, sighted, failures>>
          /\ pc \in {"idle", "fetch"}
        BY DEF Pass, Noticed
    <1>2. /\ DOMAIN cursors' = DOMAIN cursors
          /\ \A n \in DOMAIN cursors : cursors'[n] = Older(cursors[n])
        BY <1>1 DEF AllOlder
    <1>3. OnDisk'.seen = OnDisk.seen /\ OnDisk'.pending = OnDisk.pending
        <2>1. CASE First \in DOMAIN cursors
            BY <1>2, <2>1, OlderSame DEF OnDisk, Cursor, Honoured, CursorsTyped
        <2>2. CASE First \notin DOMAIN cursors
            BY <1>2, <2>2 DEF OnDisk, Cursor
        <2> QED
            BY <2>1, <2>2
    <1>4. hand'.seen = hand.seen /\ hand'.pending = hand.pending
        BY <1>1, OlderSame DEF Honoured, CursorsTyped
    <1>5. (Busy' <=> Busy) /\ (Reported' <=> Reported)
        BY <1>1, <1>3 DEF Busy, Reported, Fires
    <1> QED
        BY <1>1, <1>2, <1>3, <1>4, <1>5 DEF Quiet, Kept, CountsTyped

LEMMA ConsiderIsQuiet ==
    ASSUME Honoured, Kept, NEW name \in Names, Consider(name)
    PROVE  Quiet \/ TakesInHand
    <1> USE DEF Honoured, OneName, Kept, CountsTyped, file, tick, rename, history
    <1>1. name = First /\ pc = "next"
        BY DEF Consider
    <1>2. CASE UNCHANGED <<pc, at, hand>>
        BY <1>1, <1>2 DEF Consider, Quiet, OnDisk, Cursor, Busy, Reported, Fires
    <1>3. CASE hand' = [Cursor(name) EXCEPT !.rest = Interval] /\ pc' = "fetch"
        <2>1. hand'.seen = OnDisk.seen /\ hand'.pending = OnDisk.pending
            BY <1>1, <1>3, Stays DEF OnDisk, WellFormed
        <2> QED
            BY <1>1, <1>3, <2>1 DEF Consider, TakesInHand, Busy
    <1> QED
        BY <1>2, <1>3 DEF Consider

LEMMA FetchSteps == ASSUME Honoured, Kept, Fetch PROVE Quiet \/ Drops \/ Finds
    <1> USE DEF Honoured, OneName, Kept, CountsTyped, file, tick, rename, history
    <1>1. /\ pc = "fetch" /\ found = {} /\ ~Fires /\ ~Reported
          /\ hand.seen = OnDisk.seen /\ hand.pending = OnDisk.pending
        <2>1. pc = "fetch" /\ found = {} /\ hand.seen = OnDisk.seen
            BY DEF Fetch, HandKept, Busy
        <2>2. ~Fires /\ Cardinality(found) = 0 /\ OnDisk.pending \in Nat
            BY <2>1, Stays, FS_EmptySet, WatchAssumption DEF DiskKept
        <2> QED
            BY <2>1, <2>2 DEF HandKept, Busy, Reported
    <1>2. WellFormed(hand)
        BY DEF CursorsTyped
    <1>3. ASSUME NEW new \in SetToSeqs(Fresh(hand, Served)), Answer(new)
          PROVE  Finds
        <2>1. UNCHANGED <<newest, sighted, carried, tasks, failures, cursors>>
            BY <1>3 DEF Answer
        <2>2. OnDisk' = OnDisk
            BY <2>1 DEF OnDisk, Cursor
        <2>3. found' = ToSet(new) \cap Matching
            BY <1>3 DEF Answer, Matched
        <2>4. /\ Cardinality(found') \in Nat
              /\ found' = {} <=> Cardinality(found') = 0
            BY <2>3, MatchingFinite, FS_EmptySet
        <2>5. Fires' <=> /\ hand.pending + Cardinality(found') >= Threshold
                         /\ found' # {}
            BY <1>1, <2>2, <2>4, WatchAssumption DEF Fires, DiskKept
        <2>6. /\ pc' = IF Fires' THEN "add" ELSE "load"
              /\ hand'.seen = Remember(hand.seen, new)
              /\ hand'.pending = IF Fires' THEN 0 ELSE OnDisk.pending + Cardinality(found')
            BY <1>1, <1>2, <1>3, <2>3, <2>5 DEF Answer, Matched, WellFormed
        <2> QED
            BY <1>1, <2>1, <2>3, <2>6 DEF Finds
    <1>4. ASSUME pc' = "load", hand'.seen = hand.seen, hand'.pending = hand.pending,
                 UNCHANGED <<newest, cursors, loaded, found, carried, tasks, sighted, failures>>
          PROVE  Quiet
        BY <1>1, <1>4 DEF Quiet, OnDisk, Cursor, Busy, Reported, Fires
    <1>5. ASSUME NEW header \in RetryAfters \cup {NoHeader}, Refuse(header)
          PROVE  Quiet
        BY <1>2, <1>4, <1>5 DEF Refuse, WellFormed
    <1>6. CASE Fail
        BY <1>2, <1>4, <1>6 DEF Fail, WellFormed
    <1>7. CASE PassOver
        BY <1>1, <1>7 DEF PassOver, Drops, Busy
    <1> QED
        BY <1>3, <1>5, <1>6, <1>7 DEF Fetch

LEMMA AddTells == ASSUME Honoured, Kept, Add PROVE Tells
    BY DEF Add, Tells, file, Kept, CountsTyped

LEMMA SaveSaves == ASSUME Honoured, Kept, Save PROVE Saves
    <1>1. /\ pc = "save" /\ loaded = cursors /\ at = First /\ DOMAIN cursors \subseteq {First}
          /\ cursors' = Saved(cursors, First, hand)
        BY DEF Save, Honoured, OneName, Kept, CountsTyped
    <1>2. DOMAIN cursors' = {First} /\ cursors'[First] = hand
        BY <1>1 DEF Saved
    <1>3. SeenMatching(cursors') = ToSet(hand.seen) \cap Matching
        <2>1. {ToSet(cursors'[n].seen) : n \in DOMAIN cursors'} = {ToSet(hand.seen)}
            BY <1>2
        <2>2. UNION {ToSet(hand.seen)} = ToSet(hand.seen)
            OBVIOUS
        <2>3. SeenMatching(cursors')
                  = (UNION {ToSet(cursors'[n].seen) : n \in DOMAIN cursors'}) \cap Matching
            BY Zenon DEF SeenMatching
        <2> QED
            BY <2>1, <2>2, <2>3
    <1>4. OnDisk' = hand
        BY <1>2 DEF OnDisk, Cursor
    <1> QED
        BY <1>2, <1>3, <1>4 DEF Save, Saves, Busy

LEMMA BreaksDrop == ASSUME Honoured, Kept, Fault \/ Crash PROVE Drops
    <1>1. failures' = failures + 1 /\ Abandon
        BY DEF Fault, Crash
    <1> QED
        BY <1>1 DEF Abandon, Drops, Busy, Kept, CountsTyped, file

\* Without renames, every step is one of these.
LEMMA StepsOnItems ==
    ASSUME MaxRenames = 0, Honoured, Kept, [Next]_vars
    PROVE  ItemStep
    <1>1. CASE UNCHANGED vars
        BY <1>1 DEF vars, file, tick, history, ItemStep, Quiet, OnDisk, Cursor, Busy, Reported,
           Fires, Kept, CountsTyped
    <1>2. ~ (\E old, new \in Names : RenameBegin(old, new))
        BY WatchAssumption DEF RenameBegin, Honoured, OneName
    <1>3. ~ (RenameRetire \/ RenameRead \/ RenameLoad \/ RenameSave)
        BY DEF RenameRetire, RenameRead, RenameLoad, RenameSave, Honoured, OneName
    <1> QED
        BY <1>1, <1>2, <1>3, QuietSteps, PassIsQuiet, ConsiderIsQuiet, FetchSteps, AddTells,
           SaveSaves, BreaksDrop DEF Next, ItemStep

-----------------------------------------------------------------------------
(* What was sighted is told, or is one of the counted few.                 *)

LEMMA KeptInit == Init => Kept
    <1> SUFFICES ASSUME Init PROVE Kept
        OBVIOUS
    <1>1. OnDisk = Empty /\ ~Busy /\ ~Reported /\ sighted = {} /\ Untold = {} /\ found = {}
        BY DEF Init, OnDisk, Cursor, NoCursors, Busy, Reported, Untold
    <1>2. CountsTyped
        BY DEF Init, CountsTyped, NoCursors
    <1>3. DiskKept
        BY <1>1, EmptySeq, WatchAssumption DEF DiskKept, Empty, ToSet
    <1>4. DebtCovered
        BY <1>1, FS_EmptySet, WatchAssumption DEF DebtCovered, Empty, Init
    <1> QED
        BY <1>1, <1>2, <1>3, <1>4 DEF Kept, HandKept

LEMMA KeptStep == ASSUME Kept, ItemStep PROVE Kept'
    <1> USE DEF Kept
    <1>1. CASE Quiet
        <2>1. CountsTyped' /\ DiskKept' /\ DebtCovered'
            BY <1>1 DEF Quiet, CountsTyped, DiskKept, DebtCovered, Untold
        <2>2. Fires' <=> Fires
            BY <1>1 DEF Quiet, Fires
        <2>3. HandKept'
            BY <1>1, <2>2 DEF Quiet, HandKept
        <2> QED
            BY <2>1, <2>3
    <1>2. CASE TakesInHand
        <2>1. OnDisk' = OnDisk /\ found' = {} /\ Busy' /\ Cardinality(found') = 0
            BY <1>2, FS_EmptySet DEF TakesInHand, OnDisk, Cursor, HandKept, Busy
        <2>2. ~Fires' /\ ~Reported' /\ ~Reported /\ OnDisk.pending \in Nat
            BY <1>2, <2>1, WatchAssumption DEF TakesInHand, DiskKept, Fires, Reported, Busy
        <2> QED
            BY <1>2, <2>1, <2>2
            DEF TakesInHand, CountsTyped, DiskKept, DebtCovered, Untold, HandKept
    <1>3. CASE Drops
        <2>1. OnDisk' = OnDisk /\ ~Reported' /\ OnDisk.pending \in Nat
            BY <1>3, WatchAssumption DEF Drops, OnDisk, Cursor, Reported, Busy, DiskKept
        <2>2. Untold' = Untold /\ Cardinality(Untold) \in Nat
            BY <1>3, MatchingFinite DEF Drops, Untold, DiskKept
        <2>3. (Threshold - 1) * tasks \in Int
            BY WatchAssumption DEF CountsTyped
        <2>4. DebtCovered'
            <3> DEFINE left == (Threshold - 1) * tasks
            <3>1. Cardinality(Untold) <= left + (IF Reported THEN 0 ELSE OnDisk.pending)
                BY DEF DebtCovered
            <3>2. left \in Int
                BY <2>3
            <3> HIDE DEF left
            <3>3. Cardinality(Untold) <= left + OnDisk.pending
                BY <2>1, <2>2, <3>1, <3>2
            <3>4. Cardinality(Untold') <= left + OnDisk'.pending
                BY <2>1, <2>2, <3>3
            <3>5. tasks' = tasks
                BY <1>3 DEF Drops
            <3>6. Cardinality(Untold') <= (Threshold - 1) * tasks' + OnDisk'.pending
                BY <3>4, <3>5, Zenon DEF left
            <3> QED
                BY <2>1, <3>6, Zenon DEF DebtCovered
        <2> QED
            BY <1>3, <2>1, <2>4 DEF Drops, CountsTyped, DiskKept, HandKept, Busy
    <1>4. CASE Finds
        <2>1. PICK new \in SetToSeqs(Fresh(hand, Served)) :
                  /\ hand'.seen = Remember(hand.seen, new)
                  /\ found' = ToSet(new) \cap Matching
                  /\ hand'.pending = IF Fires' THEN 0 ELSE OnDisk.pending + Cardinality(found')
            BY <1>4 DEF Finds
        <2>2. new \in Seq(Items) /\ ToSet(new) \subseteq Items
            BY <2>1, NewOnes
        <2>3. /\ Remember(hand.seen, new) \in Seq(Items)
              /\ ToSet(Remember(hand.seen, new)) \subseteq ToSet(hand.seen) \cup ToSet(new)
            BY <1>4, <2>2, RememberEnd DEF Finds, HandKept, Busy
        <2>4. OnDisk' = OnDisk /\ ~Reported /\ ~Reported' /\ Busy'
            BY <1>4 DEF Finds, OnDisk, Cursor, Reported, Busy
        <2>5. HandKept'
            BY <1>4, <2>1, <2>3, <2>4 DEF Finds, HandKept, Busy
        <2> QED
            BY <1>4, <2>4, <2>5 DEF Finds, CountsTyped, DiskKept, DebtCovered, Untold
    <1>5. CASE Tells
        <2>1. OnDisk' = OnDisk /\ Fires' /\ Fires /\ ~Reported /\ Reported' /\ Busy /\ Busy'
            BY <1>5 DEF Tells, OnDisk, Cursor, Fires, Reported, Busy, HandKept
        <2>2. /\ carried' \in [Items -> Nat] /\ \A i \in Items : carried'[i] >= carried[i]
              /\ \A i \in found : carried'[i] > 0
            BY <1>5, <2>1, WatchAssumption DEF Tells, CountsTyped, HandKept
        <2>3. Untold' \subseteq Untold /\ Untold \subseteq Matching
            BY <1>5, <2>2, WatchAssumption DEF Tells, Untold, DiskKept, CountsTyped
        <2>4. /\ Cardinality(Untold') <= Cardinality(Untold)
              /\ Cardinality(Untold') \in Nat /\ Cardinality(Untold) \in Nat
            BY <2>3, MatchingFinite, MatchingUnion
        <2>5. (Threshold - 1) * (tasks + 1) = (Threshold - 1) * tasks + (Threshold - 1)
            BY OneMoreTimes, WatchAssumption DEF CountsTyped
        <2>6. DebtCovered'
            <3> DEFINE left == (Threshold - 1) * tasks
            <3>1. left \in Int /\ Cardinality(Untold) <= left + OnDisk.pending
                BY <2>1, WatchAssumption DEF DebtCovered, CountsTyped
            <3>2. Cardinality(Untold') <= (Threshold - 1) * tasks'
                <4>1. (Threshold - 1) * tasks' = left + (Threshold - 1)
                    BY <1>5, <2>5 DEF Tells
                <4> HIDE DEF left
                <4> QED
                    BY <2>4, <3>1, <4>1, WatchAssumption DEF DiskKept
            <3> DEFINE total == (Threshold - 1) * tasks'
            <3>3. total \in Int
                BY <1>5, WatchAssumption DEF Tells, CountsTyped
            <3>4. Cardinality(Untold') <= total
                BY <3>2
            <3> HIDE DEF total
            <3>5. Cardinality(Untold') <= total + (IF Reported' THEN 0 ELSE OnDisk'.pending)
                BY <2>1, <3>3, <3>4
            <3> QED
                BY <3>5, Zenon DEF DebtCovered, total
        <2>7. HandKept'
            BY <1>5, <2>1, <2>2 DEF Tells, HandKept
        <2> QED
            BY <1>5, <2>1, <2>2, <2>6, <2>7 DEF Tells, CountsTyped, DiskKept
    <1>6. CASE Saves
        <2>1. /\ Busy /\ OnDisk' = hand /\ ~Reported' /\ (Reported <=> Fires)
              /\ sighted' = sighted \cup (ToSet(hand.seen) \cap Matching)
              /\ UNCHANGED <<newest, carried, tasks, failures>>
            BY <1>6 DEF Saves, Busy, Reported
        <2>2. sighted' \subseteq sighted \cup found /\ found \subseteq Matching
            BY <2>1 DEF HandKept
        <2>3. /\ Cardinality(found) \in Nat /\ Cardinality(Untold) \in Nat
              /\ Cardinality(Untold \cup found) <= Cardinality(Untold) + Cardinality(found)
              /\ Untold \subseteq Matching
            BY <2>2, MatchingFinite, MatchingUnion DEF Untold, DiskKept
        <2>4. Untold' \subseteq IF Fires THEN Untold ELSE Untold \cup found
            BY <2>1, <2>2 DEF Untold, HandKept
        <2>5. /\ Cardinality(Untold') \in Nat
              /\ Cardinality(Untold') <= IF Fires THEN Cardinality(Untold)
                                         ELSE Cardinality(Untold) + Cardinality(found)
            <3>1. CASE Fires
                BY <2>3, <2>4, <3>1, MatchingFinite, MatchingUnion
            <3>2. CASE ~Fires
                <4>1. Untold' \subseteq Untold \cup found /\ Untold \cup found \subseteq Matching
                    BY <2>2, <2>3, <2>4, <3>2
                <4>2. /\ Cardinality(Untold') <= Cardinality(Untold \cup found)
                      /\ Cardinality(Untold') \in Nat /\ Cardinality(Untold \cup found) \in Nat
                    BY <4>1, MatchingFinite, MatchingUnion
                <4> QED
                    BY <2>3, <3>2, <4>2
            <3> QED
                BY <3>1, <3>2
        <2>6. DebtCovered'
            <3> DEFINE left == (Threshold - 1) * tasks
            <3>1. /\ left \in Int
                  /\ Cardinality(Untold) <= left + (IF Fires THEN 0 ELSE OnDisk.pending)
                BY <2>1, WatchAssumption DEF DebtCovered, CountsTyped
            <3>2. hand.pending = IF Fires THEN 0 ELSE OnDisk.pending + Cardinality(found)
                BY <2>1 DEF HandKept
            <3> HIDE DEF left
            <3>3. Cardinality(Untold') <= left + hand.pending
                BY <2>3, <2>5, <3>1, <3>2, WatchAssumption DEF DiskKept
            <3> USE DEF left
            <3> QED
                BY <2>1, <3>3 DEF DebtCovered
        <2>7. DiskKept'
            <3>1. hand.pending \in 0..(Threshold - 1)
                BY <2>1, <2>3, WatchAssumption DEF HandKept, DiskKept, Fires
            <3> QED
                BY <2>1, <3>1 DEF HandKept, DiskKept
        <2> QED
            BY <1>6, <2>1, <2>6, <2>7 DEF Saves, CountsTyped, HandKept, Busy
    <1> QED
        BY <1>1, <1>2, <1>3, <1>4, <1>5, <1>6 DEF ItemStep

\* Whatever its window forgets and its ticks meet, a trigger that keeps its name
\* loses no item it has marked as seen: each is in a task, or among the fewer
\* than Threshold that were counted towards one.
THEOREM SeenIsReported ==
    ASSUME MaxRenames = 0
    PROVE  Spec => []NothingSeenUnreported
    <1>1. Init => Honoured /\ Kept
        BY HonouredInit, KeptInit
    <1>2. Honoured /\ Kept /\ [Next]_vars => Honoured' /\ Kept'
        BY HonouredStep, StepsOnItems, KeptStep
    <1>3. Kept => NothingSeenUnreported
        <2> SUFFICES ASSUME Kept PROVE NothingSeenUnreported
            OBVIOUS
        <2> DEFINE left == (Threshold - 1) * tasks
        <2>1. left \in Int /\ (Threshold - 1) * (tasks + 1) = left + (Threshold - 1)
            BY OneMoreTimes, WatchAssumption DEF Kept, CountsTyped
        <2>2. /\ Cardinality(Untold) <= left + (IF Reported THEN 0 ELSE OnDisk.pending)
              /\ Cardinality(Untold) \in Nat
            BY MatchingFinite DEF Kept, DebtCovered, DiskKept, Untold
        <2> HIDE DEF left
        <2>3. Cardinality(Untold) <= (Threshold - 1) * (tasks + 1)
            BY <2>1, <2>2, WatchAssumption DEF Kept, DiskKept
        <2> QED
            BY <2>3 DEF NothingSeenUnreported, Untold
    <1> QED
        BY <1>1, <1>2, <1>3, PTL DEF Spec

-----------------------------------------------------------------------------
(* What is forgotten is no longer served.  Item i is published i-th, so    *)
(* what a cursor remembers is in that order but for a window: the last     *)
(* SeenLimit of it hold whatever the source may serve again.               *)

Ordered(s, top) == \A p \in DOMAIN s :
    /\ s[p] <= top
    /\ \A q \in DOMAIN s : p <= q => s[p] - Window < s[q]
    /\ \A q \in DOMAIN s : p < q => s[p] # s[q]
Recalls(s, items, top) == \A i \in items : top - Window < i => i \in ToSet(s)

NothingForgotten ==
    /\ sighted \subseteq 1..newest
    /\ Ordered(OnDisk.seen, newest) /\ Recalls(OnDisk.seen, sighted, newest)
    /\ Busy => /\ Ordered(hand.seen, newest) /\ Recalls(hand.seen, sighted \cup found, newest)
               /\ found \subseteq ToSet(hand.seen) \cap 1..newest
               /\ found \cap sighted = {}

\* What the source serves now and was not remembered, each once.
NewTo(s, new, top) == \A p \in DOMAIN new :
    /\ top - Window < new[p] /\ new[p] <= top /\ new[p] \notin ToSet(s)
    /\ \A q \in DOMAIN new : p # q => new[p] # new[q]

\* No more come with or after an item than two windows hold.
LEMMA FewFollow ==
    ASSUME NEW top \in Nat, NEW n \in Nat, NEW f \in [1..n -> Int], NEW p \in 1..n
    PROVE  Ordered(f, top) => n - p + 1 <= top - f[p] + Window
    <1>1. SUFFICES ASSUME Ordered(f, top)
                   PROVE  n - p + 1 <= top - f[p] + Window
        OBVIOUS
    <1>2. f[p] \in Int /\ Window \in Nat
        BY WatchAssumption
    <1>3. PICK low \in Int : f[p] = low + Window - 1
        <2>1. f[p] - Window + 1 \in Int /\ f[p] = (f[p] - Window + 1) + Window - 1
            BY <1>2
        <2> QED
            BY <2>1
    <1> DEFINE S == p..n
               T == low..top
               place == [q \in S |-> f[q]]
    <1>4. place \in [S -> T]
        BY <1>1, <1>2, <1>3 DEF Ordered
    <1>5. \A q \in S : \A r \in S : q < r => f[q] # f[r]
        BY <1>1 DEF Ordered
    <1>6. \A q \in S : \A r \in S : place[q] = place[r] => q = r
        BY <1>5
    <1>7. top \in Int /\ n \in Int /\ p \in Int /\ p <= n
        OBVIOUS
    <1>8. IsFiniteSet(T) /\ Cardinality(S) <= Cardinality(T)
        <2>1. IsFiniteSet(T)
            BY <1>7, FS_Interval, Zenon
        <2>2. place \in Injection(S, T)
            BY <1>4, <1>6, Zenon DEF Injection, IsInjective
        <2> HIDE DEF S, T, place
        <2> QED
            BY <2>1, <2>2, FS_Injection
    <1>9. Cardinality(S) = n - p + 1
        <2>1. Cardinality(S) = IF p > n THEN 0 ELSE n - p + 1
            BY <1>7, FS_Interval, Zenon
        <2> HIDE DEF S
        <2> QED
            BY <1>7, <2>1
    <1>10. low <= top /\ top - f[p] + Window = top - low + 1
        <2>1. f[p] - Window < f[p] /\ f[p] <= top
            BY <1>1, <1>2 DEF Ordered
        <2> QED
            BY <1>2, <1>3, <2>1
    <1>11. Cardinality(T) = top - low + 1
        <2>1. Cardinality(T) = IF low > top THEN 0 ELSE top - low + 1
            BY <1>7, FS_Interval, Zenon
        <2> HIDE DEF T
        <2> QED
            BY <1>10, <2>1
    <1> HIDE DEF S, T, place
    <1> QED
        BY <1>8, <1>9, <1>10, <1>11

\* The order stays when the new ones are added,
LEMMA JoinOrdered ==
    ASSUME NEW top \in Nat, NEW n \in Nat, NEW m \in Nat,
           NEW f \in [1..n -> Int], NEW g \in [1..m -> Int], NEW h \in [1..(n + m) -> Int]
    PROVE  /\ Ordered(f, top) /\ NewTo(f, g, top)
           /\ \A p \in 1..(n + m) : h[p] = IF p <= n THEN f[p] ELSE g[p - n]
           => Ordered(h, top)
    <1>1. SUFFICES ASSUME Ordered(f, top), NewTo(f, g, top),
                          \A p \in 1..(n + m) : h[p] = IF p <= n THEN f[p] ELSE g[p - n]
                   PROVE  Ordered(h, top)
        OBVIOUS
    <1>2. ASSUME NEW p \in 1..n
          PROVE  /\ f[p] \in Int /\ f[p] \in ToSet(f) /\ f[p] <= top
                 /\ \A q \in 1..n : /\ p <= q => f[p] - Window < f[q]
                                    /\ p < q => f[p] # f[q]
        BY <1>1 DEF Ordered, ToSet
    <1>3. ASSUME NEW p \in 1..m
          PROVE  /\ g[p] \in Int /\ g[p] \notin ToSet(f) /\ g[p] <= top /\ top - Window < g[p]
                 /\ \A q \in 1..m : p # q => g[p] # g[q]
        BY <1>1 DEF NewTo
    <1>4. Window \in Nat
        BY WatchAssumption
    <1>5. ASSUME NEW p \in 1..(n + m), NEW q \in 1..(n + m), p <= q
          PROVE  /\ h[p] <= top /\ h[p] - Window < h[q]
                 /\ p < q => h[p] # h[q]
        <2>1. CASE q <= n
            <3>1. h[p] = f[p] /\ h[q] = f[q] /\ p \in 1..n /\ q \in 1..n
                BY <1>1, <1>5, <2>1
            <3> QED
                BY <1>2, <1>5, <3>1
        <2>2. CASE p <= n /\ q > n
            <3>1. h[p] = f[p] /\ h[q] = g[q - n] /\ p \in 1..n /\ q - n \in 1..m
                BY <1>1, <2>2
            <3>2. f[p] \in Int /\ f[p] \in ToSet(f) /\ f[p] <= top
                BY <1>2, <3>1
            <3>3. g[q - n] \in Int /\ g[q - n] \notin ToSet(f) /\ top - Window < g[q - n]
                BY <1>3, <3>1
            <3> QED
                BY <1>4, <3>1, <3>2, <3>3
        <2>3. CASE p > n
            <3>1. /\ h[p] = g[p - n] /\ h[q] = g[q - n] /\ p - n \in 1..m /\ q - n \in 1..m
                  /\ p < q => p - n # q - n
                BY <1>1, <1>5, <2>3
            <3>2. /\ g[p - n] \in Int /\ g[p - n] <= top
                  /\ g[q - n] \in Int /\ top - Window < g[q - n]
                  /\ p < q => g[p - n] # g[q - n]
                BY <1>3, <3>1
            <3>3. \A a, b \in Int : a <= top /\ top - Window < b => a - Window < b
                BY <1>4
            <3> QED
                BY <3>1, <3>2, <3>3
        <2> QED
            BY <1>5, <2>1, <2>2, <2>3
    <1> QED
        BY <1>5 DEF Ordered

\* and when the oldest go.
LEMMA TailOrdered ==
    ASSUME NEW top \in Nat, NEW n \in Nat, NEW k \in Nat, NEW d \in Nat,
           NEW h \in [1..n -> Int], NEW r \in [1..k -> Int]
    PROVE  /\ Ordered(h, top)
           /\ \A p \in 1..k : p + d \in 1..n /\ r[p] = h[p + d]
           => Ordered(r, top)
    <1>1. SUFFICES ASSUME Ordered(h, top), \A p \in 1..k : p + d \in 1..n /\ r[p] = h[p + d]
                   PROVE  Ordered(r, top)
        OBVIOUS
    <1>2. ASSUME NEW p \in 1..k, NEW q \in 1..k, p <= q
          PROVE  /\ r[p] <= top /\ r[p] - Window < r[q]
                 /\ p < q => r[p] # r[q]
        <2>1. /\ p + d \in 1..n /\ r[p] = h[p + d] /\ q + d \in 1..n /\ r[q] = h[q + d]
              /\ p + d <= q + d /\ (p < q => p + d < q + d)
            BY <1>1, <1>2
        <2> QED
            BY <1>1, <2>1 DEF Ordered
    <1> QED
        BY <1>2 DEF Ordered

\* A cursor's memory as a function.
LEMMA SeqAsFunction ==
    ASSUME NEW s
    PROVE  s \in Seq(Items) => /\ Len(s) \in Nat /\ DOMAIN s = 1..Len(s)
                               /\ s \in [1..Len(s) -> Int]
    <1>1. Items \subseteq Int
        BY DEF Items
    <1> QED
        BY <1>1, LenProperties

\* What is remembered stays in order, and only what the source no longer
\* serves is dropped.
LEMMA RememberKeeps ==
    ASSUME 2 * Window <= SeenLimit + 1, NEW top \in Nat, NEW s, NEW new
    PROVE  /\ s \in Seq(Items) /\ new \in Seq(Items) /\ Ordered(s, top) /\ NewTo(s, new, top)
           => /\ Ordered(Remember(s, new), top)
              /\ Recalls(Remember(s, new), ToSet(s) \cup ToSet(new), top)
    <1>1. SUFFICES ASSUME s \in Seq(Items), new \in Seq(Items),
                          Ordered(s, top), NewTo(s, new, top)
                   PROVE  /\ Ordered(Remember(s, new), top)
                          /\ Recalls(Remember(s, new), ToSet(s) \cup ToSet(new), top)
        OBVIOUS
    <1>2. PICK n : n = Len(s)
        OBVIOUS
    <1>3. PICK m : m = Len(new)
        OBVIOUS
    <1>4. n \in Nat /\ DOMAIN s = 1..n /\ s \in [1..n -> Int]
        BY <1>1, <1>2, SeqAsFunction
    <1>5. m \in Nat /\ DOMAIN new = 1..m /\ new \in [1..m -> Int]
        BY <1>1, <1>3, SeqAsFunction
    <1>6. PICK all : all = s \o new
        OBVIOUS
    <1>7. PICK r : r = Remember(s, new)
        OBVIOUS
    <1>8. /\ r \in Seq(Items) /\ all \in Seq(Items)
          /\ Len(all) = n + m /\ Len(r) = Smallest(SeenLimit, Len(all))
          /\ \A p \in 1..Len(r) : /\ p + (Len(all) - Len(r)) \in 1..Len(all)
                                  /\ r[p] = all[p + (Len(all) - Len(r))]
          /\ \A p \in 1..Len(all) : all[p] = IF p <= n THEN s[p] ELSE new[p - n]
        BY <1>1, <1>2, <1>3, <1>6, <1>7, RememberEnd
    <1>9. PICK k : k = Len(r)
        OBVIOUS
    <1>10. k \in Nat /\ DOMAIN r = 1..k /\ r \in [1..k -> Int]
        BY <1>8, <1>9, SeqAsFunction
    <1>11. all \in [1..(n + m) -> Int]
        BY <1>8, SeqAsFunction
    <1>12. PICK d : d = (n + m) - k
        OBVIOUS
    <1>13. /\ d \in Nat /\ d + k = n + m /\ (d > 0 => k = SeenLimit)
        <2>1. k = IF SeenLimit <= n + m THEN SeenLimit ELSE n + m
            BY <1>8, <1>9 DEF Smallest
        <2> QED
            BY <1>4, <1>5, <1>10, <1>12, <2>1, WatchAssumption
    <1>14. \A p \in 1..k : p + d \in 1..(n + m) /\ r[p] = all[p + d]
        BY <1>8, <1>9, <1>12
    <1>15. \A p \in 1..(n + m) : all[p] = IF p <= n THEN s[p] ELSE new[p - n]
        BY <1>8
    <1>16. Ordered(all, top)
        BY <1>1, <1>4, <1>5, <1>11, <1>15, JoinOrdered
    <1>17. Ordered(r, top)
        <2>1. n + m \in Nat
            BY <1>4, <1>5
        <2> QED
            BY <1>10, <1>11, <1>13, <1>14, <1>16, <2>1, TailOrdered
    <1>18. ASSUME NEW i \in ToSet(s) \cup ToSet(new), top - Window < i
           PROVE  i \in ToSet(r)
        <2>1. PICK p \in 1..(n + m) : all[p] = i
            <3>1. ASSUME NEW q \in 1..n, s[q] = i
                  PROVE  \E p \in 1..(n + m) : all[p] = i
                BY <1>4, <1>5, <1>15, <3>1
            <3>2. ASSUME NEW q \in 1..m, new[q] = i
                  PROVE  \E p \in 1..(n + m) : all[p] = i
                <4>1. /\ q + n \in 1..(n + m) /\ ~(q + n <= n) /\ (q + n) - n = q
                    BY <1>4, <1>5
                <4>2. all[q + n] = new[q]
                    BY <1>15, <4>1
                <4> QED
                    BY <3>2, <4>1, <4>2
            <3> QED
                BY <1>4, <1>5, <3>1, <3>2 DEF ToSet
        <2>2. (n + m) - p + 1 <= top - i + Window /\ i \in Int
            <3>1. n + m \in Nat
                BY <1>4, <1>5
            <3>2. (n + m) - p + 1 <= top - all[p] + Window
                BY <1>11, <1>16, <3>1, FewFollow
            <3>3. all[p] \in Int
                BY <1>11
            <3> QED
                BY <2>1, <3>2, <3>3, Zenon
        <2>3. (n + m) - p + 1 <= SeenLimit
            BY <1>4, <1>5, <1>18, <2>2, WatchAssumption
        <2>4. p - d \in 1..k /\ (p - d) + d = p
            BY <1>4, <1>5, <1>10, <1>13, <2>3, WatchAssumption
        <2>5. r[p - d] = i
            BY <1>14, <2>1, <2>4
        <2> QED
            BY <1>10, <2>4, <2>5 DEF ToSet
    <1>19. Recalls(r, ToSet(s) \cup ToSet(new), top)
        BY <1>18, Zenon DEF Recalls
    <1> QED
        BY <1>7, <1>17, <1>19

\* Another item published leaves all of that.
LEMMA LaterOrder ==
    ASSUME NEW s, NEW items \in SUBSET Items, NEW top \in Nat, NEW later \in Nat, top <= later
    PROVE  /\ s \in Seq(Items) /\ Ordered(s, top) => Ordered(s, later)
           /\ Recalls(s, items, top) => Recalls(s, items, later)
    <1>1. ASSUME s \in Seq(Items), Ordered(s, top)
          PROVE  Ordered(s, later)
        <2>1. \A p \in DOMAIN s : s[p] \in Int
            BY <1>1, SeqAsFunction
        <2> QED
            BY <1>1, <2>1 DEF Ordered
    <1>2. ASSUME Recalls(s, items, top)
          PROVE  Recalls(s, items, later)
        BY <1>2, WatchAssumption DEF Recalls, Items
    <1> QED
        BY <1>1, <1>2

LEMMA NothingForgottenInit == Init => NothingForgotten
    <1> SUFFICES ASSUME Init PROVE NothingForgotten
        OBVIOUS
    <1>1. OnDisk = Empty /\ ~Busy /\ sighted = {} /\ newest = 0
        BY DEF Init, OnDisk, Cursor, NoCursors, Busy
    <1>2. DOMAIN Empty.seen = {}
        BY DEF Empty
    <1> QED
        BY <1>1, <1>2 DEF NothingForgotten, Ordered, Recalls

\* What is new to the cursor has never been sighted.
LEMMA FindsNew ==
    ASSUME 2 * Window <= SeenLimit + 1, Kept, NothingForgotten, Finds
    PROVE  /\ Ordered(hand'.seen, newest) /\ Recalls(hand'.seen, sighted \cup found', newest)
           /\ found' \subseteq ToSet(hand'.seen) \cap 1..newest
           /\ found' \cap sighted = {}
    <1>1. /\ newest \in Nat /\ hand.seen \in Seq(Items) /\ Ordered(hand.seen, newest)
          /\ Recalls(hand.seen, sighted, newest)
          /\ sighted \subseteq Items
        BY WatchAssumption
           DEF Finds, Busy, NothingForgotten, Kept, CountsTyped, HandKept, DiskKept, Recalls
    <1>2. PICK new \in SetToSeqs(Fresh(hand, Served)) :
              /\ hand'.seen = Remember(hand.seen, new)
              /\ found' = ToSet(new) \cap Matching
        BY DEF Finds
    <1>3. /\ new \in Seq(Items) /\ DOMAIN new = 1..Len(new)
          /\ \A p \in 1..Len(new) : new[p] \in Served /\ new[p] \notin ToSet(hand.seen)
          /\ \A p, q \in 1..Len(new) : p # q => new[p] # new[q]
        BY <1>2, NewOnes
    <1>4. \A i \in Served : i \in Int /\ newest - Window < i /\ 1 <= i /\ i <= newest
        BY DEF Served, Items
    <1>5. NewTo(hand.seen, new, newest)
        <2>1. \A p \in DOMAIN new : new[p] \in Served /\ new[p] \notin ToSet(hand.seen)
            BY <1>3, Zenon
        <2>2. \A p, q \in DOMAIN new : p # q => new[p] # new[q]
            BY <1>3, Zenon
        <2> QED
            BY <1>4, <2>1, <2>2, Zenon DEF NewTo
    <1>6. /\ Ordered(hand'.seen, newest)
          /\ Recalls(hand'.seen, ToSet(hand.seen) \cup ToSet(new), newest)
        BY <1>1, <1>2, <1>3, <1>5, RememberKeeps
    <1>7. ASSUME NEW i \in ToSet(new)
          PROVE  /\ newest - Window < i /\ i \in 1..newest
                 /\ i \notin ToSet(hand.seen) /\ i \in ToSet(hand'.seen)
        <2>1. PICK p \in DOMAIN new : i = new[p]
            BY <1>7, Zenon DEF ToSet
        <2>2. i \in Served /\ i \notin ToSet(hand.seen)
            BY <1>3, <2>1, Zenon
        <2>3. newest - Window < i
            BY <1>4, <2>2, Zenon
        <2>4. i \in ToSet(hand'.seen)
            BY <1>6, <1>7, <2>3, Zenon DEF Recalls
        <2> QED
            BY <1>1, <1>4, <2>2, <2>3, <2>4
    <1>8. ASSUME NEW i \in sighted, newest - Window < i
          PROVE  i \in ToSet(hand.seen) /\ i \in ToSet(hand'.seen)
        <2>1. i \in ToSet(hand.seen)
            BY <1>1, <1>8, Zenon DEF Recalls
        <2> QED
            BY <1>6, <1>8, <2>1, Zenon DEF Recalls
    <1>9. Recalls(hand'.seen, sighted \cup found', newest)
        BY <1>2, <1>7, <1>8 DEF Recalls
    <1> QED
        BY <1>2, <1>6, <1>7, <1>8, <1>9

LEMMA NothingForgottenStep ==
    ASSUME 2 * Window <= SeenLimit + 1, Kept, NothingForgotten, ItemStep
    PROVE  NothingForgotten'
    <1>1. /\ newest \in Nat /\ OnDisk.seen \in Seq(Items) /\ sighted \subseteq Items
          /\ Busy => hand.seen \in Seq(Items) /\ found \subseteq Items
        BY WatchAssumption DEF Kept, CountsTyped, DiskKept, HandKept
    <1>2. CASE Quiet
        <2>1. /\ newest' \in Nat /\ newest <= newest' /\ sighted' = sighted /\ found' = found
              /\ OnDisk'.seen = OnDisk.seen /\ (Busy' <=> Busy)
              /\ Busy => hand'.seen = hand.seen
            BY <1>2 DEF Quiet
        <2>2. sighted' \subseteq 1..newest'
            BY <1>1, <2>1 DEF NothingForgotten
        <2>3. Ordered(OnDisk'.seen, newest') /\ Recalls(OnDisk'.seen, sighted', newest')
            BY <1>1, <2>1, LaterOrder DEF NothingForgotten
        <2>4. ASSUME Busy
              PROVE  /\ Ordered(hand'.seen, newest')
                     /\ Recalls(hand'.seen, sighted' \cup found', newest')
                     /\ found' \subseteq ToSet(hand'.seen) \cap 1..newest'
                     /\ found' \cap sighted' = {}
            <3>1. /\ Ordered(hand.seen, newest) /\ Recalls(hand.seen, sighted \cup found, newest)
                  /\ found \subseteq ToSet(hand.seen) \cap 1..newest
                  /\ found \cap sighted = {}
                BY <2>4 DEF NothingForgotten
            <3>2. hand.seen \in Seq(Items) /\ sighted \cup found \in SUBSET Items
                BY <1>1, <2>4
            <3>3. Ordered(hand.seen, newest') /\ Recalls(hand.seen, sighted \cup found, newest')
                BY <1>1, <2>1, <3>1, <3>2, LaterOrder, Zenon
            <3>4. 1..newest \subseteq 1..newest'
                BY <1>1, <2>1
            <3> QED
                BY <2>1, <2>4, <3>1, <3>3, <3>4
        <2> QED
            BY <2>1, <2>2, <2>3, <2>4 DEF NothingForgotten
    <1>3. CASE TakesInHand
        <2>1. /\ OnDisk' = OnDisk /\ hand'.seen = OnDisk.seen /\ found' = {} /\ Busy'
              /\ sighted' = sighted /\ newest' = newest
            BY <1>3 DEF TakesInHand, OnDisk, Cursor, Busy, Kept, HandKept
        <2> QED
            BY <2>1 DEF NothingForgotten, Recalls
    <1>4. CASE Drops
        <2>1. OnDisk' = OnDisk /\ ~Busy' /\ sighted' = sighted /\ newest' = newest
            BY <1>4 DEF Drops, OnDisk, Cursor
        <2> QED
            BY <2>1 DEF NothingForgotten
    <1>5. CASE Finds
        <2>1. OnDisk' = OnDisk /\ sighted' = sighted /\ newest' = newest
            BY <1>5 DEF Finds, OnDisk, Cursor
        <2> QED
            BY <1>5, <2>1, FindsNew DEF NothingForgotten
    <1>6. CASE Tells
        <2>1. /\ OnDisk' = OnDisk /\ hand'.seen = hand.seen /\ found' = found /\ Busy /\ Busy'
              /\ sighted' = sighted /\ newest' = newest
            BY <1>6 DEF Tells, OnDisk, Cursor, Busy
        <2> QED
            BY <2>1 DEF NothingForgotten
    <1>7. CASE Saves
        <2>1. /\ Busy /\ OnDisk' = hand /\ ~Busy' /\ newest' = newest
              /\ sighted' = sighted \cup (ToSet(hand.seen) \cap Matching)
            BY <1>7 DEF Saves, Busy
        <2>2. ToSet(hand.seen) \cap Matching \subseteq sighted \cup found
            BY <2>1 DEF Kept, HandKept
        <2>3. /\ Ordered(hand.seen, newest) /\ Recalls(hand.seen, sighted \cup found, newest)
              /\ found \subseteq 1..newest /\ sighted \subseteq 1..newest
            BY <2>1 DEF NothingForgotten
        <2>4. Recalls(hand.seen, sighted', newest) /\ sighted' \subseteq 1..newest
            BY <2>1, <2>2, <2>3 DEF Recalls
        <2> QED
            BY <2>1, <2>3, <2>4, Zenon DEF NothingForgotten
    <1> QED
        BY <1>2, <1>3, <1>4, <1>5, <1>6, <1>7 DEF ItemStep

-----------------------------------------------------------------------------
(* So no item is counted twice but after a failure.                        *)

OncePerFailure == \A i \in Items :
    carried[i] <= failures + (IF i \in sighted \/ (i \in found /\ Reported) THEN 1 ELSE 0)

TasksPaid ==
    tasks * Threshold + OnDisk.pending
        <= Cardinality(sighted) + Threshold * failures + (IF Reported THEN Threshold ELSE 0)

\* What the evaluation adds to the items counted.
LEMMA FoundAreMore ==
    ASSUME Kept, NothingForgotten, Busy
    PROVE  /\ found \subseteq Matching \cap 1..newest
           /\ Cardinality(found) \in Nat /\ Cardinality(sighted) \in Nat
           /\ Cardinality(sighted \cup found) = Cardinality(sighted) + Cardinality(found)
    <1>1. found \in SUBSET Matching /\ sighted \in SUBSET Matching
        BY DEF Kept, DiskKept, HandKept
    <1>2. sighted \cap found = {} /\ found \subseteq 1..newest
        BY DEF NothingForgotten
    <1> QED
        BY <1>1, <1>2, MatchingFinite, MatchingUnion

LEMMA OncePerFailureStep ==
    ASSUME Kept, NothingForgotten, OncePerFailure, ItemStep
    PROVE  OncePerFailure'
    <1> USE DEF Kept
    <1>1. carried \in [Items -> Nat] /\ failures \in Nat
        BY DEF CountsTyped
    <1>2. ASSUME UNCHANGED <<carried, sighted>>, failures' \in {failures, failures + 1},
                 Reported => failures' = failures + 1 \/ (Reported' /\ found' = found)
          PROVE  OncePerFailure'
        BY <1>1, <1>2 DEF OncePerFailure
    <1>3. CASE Quiet
        BY <1>2, <1>3 DEF Quiet
    <1>4. CASE TakesInHand
        BY <1>2, <1>4 DEF TakesInHand, Reported, Busy
    <1>5. CASE Drops
        BY <1>2, <1>5 DEF Drops
    <1>6. CASE Finds
        BY <1>2, <1>6 DEF Finds, Reported
    <1>7. CASE Tells
        <2>1. /\ UNCHANGED <<sighted, failures, found>> /\ ~Reported /\ Reported'
              /\ found \cap sighted = {}
              /\ carried' = [i \in Items |-> carried[i] + (IF i \in found THEN 1 ELSE 0)]
            BY <1>7 DEF Tells, Reported, Busy, NothingForgotten
        <2> QED
            BY <1>1, <2>1 DEF OncePerFailure
    <1>8. CASE Saves
        <2>1. /\ UNCHANGED <<carried, failures>> /\ ~Reported'
              /\ sighted \cup found \subseteq sighted'
            BY <1>8 DEF Saves, Reported, Busy, NothingForgotten, HandKept
        <2> QED
            BY <1>1, <2>1 DEF OncePerFailure
    <1> QED
        BY <1>3, <1>4, <1>5, <1>6, <1>7, <1>8 DEF ItemStep

LEMMA TasksPaidStep ==
    ASSUME Kept, NothingForgotten, TasksPaid, ItemStep
    PROVE  TasksPaid'
    <1> USE DEF Kept
    <1> DEFINE spent == tasks * Threshold
               forgiven == Threshold * failures
    <1>1. /\ OnDisk.pending \in Nat /\ Cardinality(sighted) \in Nat /\ Threshold \in Nat
          /\ tasks \in Nat /\ failures \in Nat /\ spent \in Int /\ forgiven \in Int
        BY MatchingFinite, WatchAssumption DEF CountsTyped, DiskKept
    <1>2. spent + OnDisk.pending
              <= Cardinality(sighted) + forgiven + (IF Reported THEN Threshold ELSE 0)
        BY Zenon DEF TasksPaid
    <1>3. /\ (tasks + 1) * Threshold = spent + Threshold
          /\ Threshold * (failures + 1) = forgiven + Threshold
        BY <1>1, OneMoreTimes
    <1> HIDE DEF spent, forgiven
    <1>4. ASSUME UNCHANGED <<sighted, tasks>>, OnDisk'.pending = OnDisk.pending,
                 failures' \in {failures, failures + 1},
                 Reported => failures' = failures + 1 \/ Reported'
          PROVE  TasksPaid'
        <2>1. tasks' * Threshold = spent
            BY <1>4 DEF spent
        <2>2. Threshold * failures' = IF failures' = failures THEN forgiven
                                      ELSE forgiven + Threshold
            BY <1>3, <1>4 DEF forgiven
        <2>3. spent + OnDisk'.pending
                  <= Cardinality(sighted') + (IF failures' = failures THEN forgiven
                                              ELSE forgiven + Threshold)
                     + (IF Reported' THEN Threshold ELSE 0)
            BY <1>1, <1>2, <1>4
        <2> QED
            BY <2>1, <2>2, <2>3, Zenon DEF TasksPaid
    <1>5. CASE Quiet
        BY <1>4, <1>5 DEF Quiet
    <1>6. CASE TakesInHand
        BY <1>4, <1>6 DEF TakesInHand, Reported, Busy, OnDisk, Cursor
    <1>7. CASE Drops
        BY <1>4, <1>7 DEF Drops, OnDisk, Cursor
    <1>8. CASE Finds
        BY <1>4, <1>8 DEF Finds, Reported, OnDisk, Cursor
    <1>9. CASE Tells
        <2>1. /\ UNCHANGED <<sighted, failures>> /\ ~Reported /\ Reported'
              /\ OnDisk' = OnDisk /\ tasks' = tasks + 1
            BY <1>9 DEF Tells, Reported, OnDisk, Cursor
        <2>2. tasks' * Threshold = spent + Threshold /\ Threshold * failures' = forgiven
            BY <1>3, <2>1 DEF forgiven
        <2>3. (spent + Threshold) + OnDisk'.pending
                  <= Cardinality(sighted') + forgiven + (IF Reported' THEN Threshold ELSE 0)
            BY <1>1, <1>2, <2>1
        <2> QED
            BY <2>2, <2>3, Zenon DEF TasksPaid
    <1>10. CASE Saves
        <2>1. /\ Busy /\ OnDisk' = hand /\ ~Reported' /\ (Reported <=> Fires)
              /\ sighted' = sighted \cup (ToSet(hand.seen) \cap Matching)
              /\ UNCHANGED <<tasks, failures>>
            BY <1>10 DEF Saves, Busy, Reported
        <2>2. sighted' = sighted \cup found
            BY <2>1 DEF HandKept, NothingForgotten
        <2>3. /\ Cardinality(found) \in Nat
              /\ Cardinality(sighted') = Cardinality(sighted) + Cardinality(found)
            BY <2>1, <2>2, FoundAreMore
        <2>4. hand.pending = IF Fires THEN 0 ELSE OnDisk.pending + Cardinality(found)
            BY <2>1 DEF HandKept
        <2>5. Fires <=> OnDisk.pending + Cardinality(found) >= Threshold
            BY DEF Fires
        <2>6. spent + OnDisk'.pending
                  <= Cardinality(sighted') + forgiven + (IF Reported' THEN Threshold ELSE 0)
            BY <1>1, <1>2, <2>1, <2>3, <2>4, <2>5
        <2>7. tasks' * Threshold = spent /\ Threshold * failures' = forgiven
            BY <2>1 DEF spent, forgiven
        <2> QED
            BY <2>6, <2>7, Zenon DEF TasksPaid
    <1> QED
        BY <1>5, <1>6, <1>7, <1>8, <1>9, <1>10 DEF ItemStep

\* All of that, for a source that serves no more at a time than a cursor
\* remembers twice over.
LEMMA RemembersEnough ==
    ASSUME MaxRenames = 0, 2 * Window <= SeenLimit + 1
    PROVE  Spec => [](Honoured /\ Kept /\ NothingForgotten /\ OncePerFailure /\ TasksPaid)
    <1>1. Init => OncePerFailure /\ TasksPaid
        <2> SUFFICES ASSUME Init PROVE OncePerFailure /\ TasksPaid
            OBVIOUS
        <2>1. /\ OnDisk.pending = 0 /\ ~Reported /\ sighted = {} /\ tasks = 0 /\ failures = 0
              /\ carried = [i \in Items |-> 0]
            BY DEF Init, OnDisk, Cursor, NoCursors, Empty, Reported
        <2>2. Cardinality(sighted) = 0 /\ tasks * Threshold = 0 /\ Threshold * failures = 0
            BY <2>1, FS_EmptySet, WatchAssumption
        <2> QED
            BY <2>1, <2>2 DEF OncePerFailure, TasksPaid
    <1>2. Init => Honoured /\ Kept /\ NothingForgotten
        BY HonouredInit, KeptInit, NothingForgottenInit
    <1>3. Honoured /\ Kept /\ NothingForgotten /\ OncePerFailure /\ TasksPaid /\ [Next]_vars
              => Honoured' /\ Kept' /\ NothingForgotten' /\ OncePerFailure' /\ TasksPaid'
        BY HonouredStep, StepsOnItems, KeptStep, NothingForgottenStep, OncePerFailureStep,
           TasksPaidStep
    <1> QED
        BY <1>1, <1>2, <1>3, PTL DEF Spec

\* Whatever order the source serves its items in, whatever is retried: each is
\* reported once, and once more for each tick that fails or dies, when the
\* trigger keeps its name and a cursor remembers two windows.
THEOREM ItemsAreReportedOnce ==
    ASSUME MaxRenames = 0, 2 * Window <= SeenLimit + 1
    PROVE  Spec => []ItemsReportedOnce
    <1>1. Honoured /\ Kept /\ OncePerFailure => ItemsReportedOnce
        <2> SUFFICES ASSUME Honoured, Kept, OncePerFailure PROVE ItemsReportedOnce
            OBVIOUS
        <2>1. carried \in [Items -> Nat] /\ failures \in Nat /\ renames = 0
            BY DEF Kept, CountsTyped, Honoured, OneName
        <2> QED
            BY <2>1 DEF OncePerFailure, ItemsReportedOnce
    <1> QED
        BY <1>1, RemembersEnough, PTL

\* A task takes Threshold items nobody has counted before, and so does every
\* task after it: none is paid for with an item twice but after a failure.
THEOREM TasksTakeNewItems ==
    ASSUME MaxRenames = 0, 2 * Window <= SeenLimit + 1
    PROVE  Spec => []TasksCountNewItems
    <1>1. Kept /\ NothingForgotten /\ TasksPaid => TasksCountNewItems
        <2> SUFFICES ASSUME Kept, NothingForgotten, TasksPaid
                     PROVE  tasks * Threshold
                                <= Cardinality(Matching \cap 1..newest) + Threshold * failures
            BY DEF TasksCountNewItems
        <2> DEFINE spent == tasks * Threshold
                   forgiven == Threshold * failures
                   published == Matching \cap 1..newest
        <2>1. /\ spent \in Int /\ forgiven \in Int /\ Threshold \in Nat
              /\ OnDisk.pending \in Nat /\ Cardinality(sighted) \in Nat
              /\ Cardinality(published) \in Nat
            BY MatchingFinite, WatchAssumption DEF Kept, CountsTyped, DiskKept
        <2>2. spent + OnDisk.pending
                  <= Cardinality(sighted) + forgiven + (IF Reported THEN Threshold ELSE 0)
            BY Zenon DEF TasksPaid
        <2>3. published \in SUBSET Matching /\ sighted \in SUBSET published
            BY DEF Kept, DiskKept, NothingForgotten
        <2> HIDE DEF spent, forgiven, published
        <2>4. CASE ~Reported
            <3>1. Cardinality(sighted) <= Cardinality(published)
                BY <2>3, MatchingUnion
            <3>2. spent <= Cardinality(published) + forgiven
                BY <2>1, <2>2, <2>4, <3>1
            <3> QED
                BY <3>2, Zenon DEF spent, forgiven, published
        <2>5. CASE Reported
            <3>1. Busy /\ Fires
                BY <2>5 DEF Reported, Busy, Kept, HandKept
            <3>2. /\ found \subseteq published /\ Cardinality(found) \in Nat
                  /\ Cardinality(sighted \cup found) = Cardinality(sighted) + Cardinality(found)
                BY <3>1, FoundAreMore DEF published
            <3>3. Cardinality(sighted \cup found) <= Cardinality(published)
                BY <2>3, <3>2, MatchingUnion
            <3>4. OnDisk.pending + Cardinality(found) >= Threshold
                BY <3>1 DEF Fires
            <3>5. spent <= Cardinality(published) + forgiven
                BY <2>1, <2>2, <2>5, <3>2, <3>3, <3>4
            <3> QED
                BY <3>5, Zenon DEF spent, forgiven, published
        <2> QED
            BY <2>4, <2>5
    <1> QED
        BY <1>1, RemembersEnough, PTL
=============================================================================
