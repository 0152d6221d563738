----------------------------- MODULE OwnerProofs -----------------------------
(***************************************************************************)
(* What the owner is told, for any number of lines, claims and beats: of a  *)
(* switch (Notices), of a stale claim (Upkeep), of a silence (Heartbeat), of *)
(* the last tick, of what held pu up and how long (TickLog), and of how many *)
(* sessions ran at once (Throughput).                                       *)
(***************************************************************************)
EXTENDS Notices, Upkeep, Heartbeat, TickLog, Throughput, FiniteSetTheorems,
        WellFoundedInduction, TLAPS

-----------------------------------------------------------------------------
(* Induction over data, by the least exception, and what a fold comes to.   *)

\* A set of natural numbers that has 0, and the next of each it has, has all.
LEMMA AllNaturals ==
    ASSUME NEW T, 0 \in T, \A n \in Nat : n \in T => n + 1 \in T
    PROVE  Nat \subseteq T
    <1> SUFFICES ASSUME Nat \ T # {}
                 PROVE  FALSE
        OBVIOUS
    <1> DEFINE R == {ss \in Nat \X Nat : ss[1] < ss[2]}
    <1>1. IsWellFoundedOn(R, Nat)
        BY NatLessThanWellFounded DEF OpToRel
    <1> HIDE DEF R
    <1>2. PICK u \in Nat \ T : \A v \in Nat \ T : ~ (<<v, u>> \in R)
        BY <1>1, WFMin
    <1>3. u # 0 /\ u \in Nat
        OBVIOUS
    <1>4. u - 1 \in Nat /\ u - 1 < u /\ u = (u - 1) + 1
        BY <1>3
    <1>5. <<u - 1, u>> \in R
        BY <1>3, <1>4 DEF R
    <1>6. u - 1 \in T
        BY <1>2, <1>4, <1>5
    <1> QED
        BY <1>2, <1>4, <1>6

\* A family of subsets that has each of which it has whatever lacks one element
\* has all.
LEMMA AllSubsets ==
    ASSUME NEW S, IsFiniteSet(S), NEW T,
           \A s \in SUBSET S : (\A x \in s : s \ {x} \in T) => s \in T
    PROVE  \A s \in SUBSET S : s \in T
    <1> SUFFICES ASSUME (SUBSET S) \ T # {}
                 PROVE  FALSE
        OBVIOUS
    <1> DEFINE R == StrictSubsetOrdering(S)
    <1>1. IsWellFoundedOn(R, SUBSET S)
        <2>1. IsWellFoundedOn(R, FiniteSubsetsOf(S))
            BY FS_StrictSubsetOrderingWellFounded
        <2>2. FiniteSubsetsOf(S) = SUBSET S
            BY FS_FiniteSubsetsOfFinite
        <2> HIDE DEF R
        <2> QED
            BY <2>1, <2>2, Zenon
    <1>2. PICK s \in (SUBSET S) \ T :
              \A t \in (SUBSET S) \ T : ~ (<<t, s>> \in StrictSubsetOrdering(S))
        BY <1>1, WFMin
    <1>3. ASSUME NEW x \in s
          PROVE  s \ {x} \in T
        <2>1. s \ {x} \in SUBSET S /\ s \ {x} \subseteq s /\ s \ {x} # s
            BY <1>3
        <2>2. <<s \ {x}, s>> \in StrictSubsetOrdering(S)
            BY <2>1 DEF StrictSubsetOrdering
        <2> QED
            BY <1>2, <2>1, <2>2
    <1> QED
        BY <1>2, <1>3

\* What MapThenFoldSet folds: each subset's value from the one without the element
\* that `pick` takes out of it.
Foldable(S, V, base, pick, take) ==
    /\ IsFiniteSet(S) /\ base \in V
    /\ \A s \in SUBSET S : s # {} => pick[s] \in s
    /\ take \in [S \X V -> V]
IsFold(g, S, V, base, pick, take) ==
    /\ g \in [SUBSET S -> V]
    /\ \A s \in SUBSET S :
          g[s] = IF s = {} THEN base ELSE take[<<pick[s], g[s \ {pick[s]}]>>]

\* There is such a fold.
LEMMA FoldExists ==
    ASSUME NEW S, NEW V, NEW base, NEW pick, NEW take, Foldable(S, V, base, pick, take)
    PROVE  \E g : IsFold(g, S, V, base, pick, take)
    <1> DEFINE Next(g, s) == IF s = {} THEN base ELSE take[<<pick[s], g[s \ {pick[s]}]>>]
               Upto(n) == \E g \in [SUBSET S -> V] :
                              \A s \in SUBSET S : Cardinality(s) <= n => g[s] = Next(g, s)
               T == {n \in Nat : Upto(n)}
    <1> USE DEF Foldable
    <1>1. \A s \in SUBSET S : IsFiniteSet(s) /\ Cardinality(s) \in Nat
        BY FS_Subset, FS_CardinalityType
    <1>2. 0 \in T
        <2> DEFINE g == [s \in SUBSET S |-> base]
        <2>1. g \in [SUBSET S -> V]
            OBVIOUS
        <2>2. ASSUME NEW s \in SUBSET S, Cardinality(s) <= 0
              PROVE  g[s] = Next(g, s)
            <3>1. s = {}
                BY <1>1, <2>2, FS_EmptySet
            <3> QED
                BY <3>1
        <2> HIDE DEF g
        <2> QED
            BY <2>1, <2>2
    <1>3. ASSUME NEW n \in Nat, n \in T
          PROVE  n + 1 \in T
        <2>1. PICK g \in [SUBSET S -> V] :
                  \A s \in SUBSET S : Cardinality(s) <= n => g[s] = Next(g, s)
            BY <1>3
        <2> DEFINE h == [s \in SUBSET S |-> Next(g, s)]
        <2>2. ASSUME NEW s \in SUBSET S
              PROVE  h[s] = Next(g, s) /\ Next(g, s) \in V
            <3>1. CASE s = {}
                BY <3>1
            <3>2. CASE s # {}
                <4>1. pick[s] \in S /\ s \ {pick[s]} \in SUBSET S
                    BY <3>2
                <4>2. g[s \ {pick[s]}] \in V
                    BY <4>1
                <4>3. <<pick[s], g[s \ {pick[s]}]>> \in S \X V
                    BY <4>1, <4>2
                <4> QED
                    BY <3>2, <4>3
            <3> QED
                BY <3>1, <3>2
        <2>3. h \in [SUBSET S -> V]
            BY <2>2
        <2> HIDE DEF h
        <2>4. ASSUME NEW s \in SUBSET S, Cardinality(s) <= n + 1
              PROVE  h[s] = Next(h, s)
            <3>1. CASE s = {}
                BY <2>2, <3>1
            <3>2. CASE s # {}
                <4> DEFINE r == s \ {pick[s]}
                <4>1. r \in SUBSET S /\ Cardinality(r) = Cardinality(s) - 1
                    BY <1>1, <3>2, FS_RemoveElement
                <4>2. Cardinality(r) <= n
                    BY <1>1, <2>4, <4>1
                <4>3. h[r] = g[r]
                    BY <2>1, <2>2, <4>1, <4>2
                <4> QED
                    BY <2>2, <3>2, <4>3
            <3> QED
                BY <3>1, <3>2
        <2> HIDE DEF Next
        <2>5. Upto(n + 1)
            BY <2>3, <2>4
        <2> QED
            BY <2>5
    <1>4. Cardinality(S) \in T
        <2>1. Nat \subseteq T
            <3> HIDE DEF T
            <3> QED
                BY <1>2, <1>3, AllNaturals
        <2>2. Cardinality(S) \in Nat
            BY <1>1
        <2> HIDE DEF T
        <2> QED
            BY <2>1, <2>2
    <1>5. PICK g \in [SUBSET S -> V] :
              \A s \in SUBSET S : Cardinality(s) <= Cardinality(S) => g[s] = Next(g, s)
        BY <1>4
    <1>6. \A s \in SUBSET S : Cardinality(s) <= Cardinality(S)
        BY FS_Subset
    <1>7. \A s \in SUBSET S : g[s] = Next(g, s)
        BY <1>5, <1>6
    <1>8. IsFold(g, S, V, base, pick, take)
        BY <1>7 DEF IsFold
    <1> QED
        BY <1>8

\* The sum of f over each subset of a finite set, one picked element after another.
AddsUp(g, S, f) == \A s \in SUBSET S :
    g[s] = IF s = {} THEN 0 ELSE LET x == CHOOSE x \in s : TRUE IN f[x] + g[s \ {x}]

\* There is such a sum.
LEMMA SumExists ==
    ASSUME NEW S, IsFiniteSet(S), NEW f \in [S -> Int]
    PROVE  \E g \in [SUBSET S -> Int] : AddsUp(g, S, f)
    <1> DEFINE some == [s \in SUBSET S |-> CHOOSE x \in s : TRUE]
               plus == [p \in S \X Int |-> f[p[1]] + p[2]]
    <1>1. \A s \in SUBSET S : some[s] = (CHOOSE x \in s : TRUE) /\ (s # {} => some[s] \in s)
        OBVIOUS
    <1>2. plus \in [S \X Int -> Int] /\ \A x \in S, n \in Int : plus[<<x, n>>] = f[x] + n
        OBVIOUS
    <1> HIDE DEF some, plus
    <1>3. Foldable(S, Int, 0, some, plus)
        BY <1>1, <1>2 DEF Foldable
    <1>4. PICK g : IsFold(g, S, Int, 0, some, plus)
        BY <1>3, FoldExists
    <1>5. g \in [SUBSET S -> Int]
        BY <1>4 DEF IsFold
    <1>6. ASSUME NEW s \in SUBSET S
          PROVE  g[s] = IF s = {} THEN 0 ELSE LET x == CHOOSE x \in s : TRUE IN f[x] + g[s \ {x}]
        <2>1. CASE s = {}
            BY <1>4, <2>1 DEF IsFold
        <2>2. CASE s # {}
            <3>1. PICK x : x = (CHOOSE x_1 \in s : TRUE) /\ x = some[s] /\ x \in S
                BY <1>1, <2>2
            <3>2. g[s \ {x}] \in Int
                BY <1>5
            <3>3. g[s] = plus[<<x, g[s \ {x}]>>]
                BY <1>4, <2>2, <3>1 DEF IsFold
            <3>4. g[s] = f[x] + g[s \ {x}]
                BY <1>2, <3>1, <3>2, <3>3
            <3> QED
                BY <2>2, <3>1, <3>4
        <2> QED
            BY <2>1, <2>2
    <1> QED
        BY <1>5, <1>6 DEF AddsUp

-----------------------------------------------------------------------------
(* Notices: a line that was delivered is in the file only until the flush   *)
(* removes it, or if it could not.                                          *)

LinesTyped ==
    /\ received \in [Lines -> Nat]
    /\ queued \subseteq Lines /\ pending \subseteq queued
    /\ flush.step \in {"idle", "send", "unlink"} /\ flush.lines \subseteq pending
    /\ flush = [step |-> flush.step, lines |-> flush.lines]

DeliveredGoes == \A l \in Lines :
    /\ l \notin queued => received[l] = 0
    /\ l \in pending /\ received[l] > 0
           => l \in kept \/ (flush.step = "unlink" /\ l \in flush.lines)

NoticesInv == LinesTyped /\ DeliveredGoes /\ ToldTwiceIsTrouble

LEMMA NoticesStep ==
    ASSUME NoticesInv, NoticesNext
    PROVE  NoticesInv'
    <1> USE DEF NoticesInv
    <1>1. ASSUME NEW l \in Lines, Queue(l)
          PROVE  NoticesInv'
        BY <1>1 DEF Queue, LinesTyped, DeliveredGoes, ToldTwiceIsTrouble
    <1>2. CASE BurstEnds
        BY <1>2 DEF BurstEnds, LinesTyped, DeliveredGoes, ToldTwiceIsTrouble
    <1>3. CASE FlushReads
        BY <1>3 DEF FlushReads, NotFlushing, LinesTyped, DeliveredGoes, ToldTwiceIsTrouble
    <1>4. CASE Refused
        BY <1>4 DEF Refused, NotFlushing, LinesTyped, DeliveredGoes, ToldTwiceIsTrouble
    <1>5. CASE Delivered
        <2>1. /\ flush.step = "send" /\ flush'.step = "unlink" /\ flush'.lines = flush.lines
              /\ flush' = [step |-> flush'.step, lines |-> flush'.lines]
              /\ UNCHANGED <<queued, pending, kept>>
            BY <1>5 DEF Delivered, LinesTyped
        <2>2. \A l \in Lines : received'[l] = IF l \in flush.lines THEN received[l] + 1
                                              ELSE received[l]
            BY <1>5 DEF Delivered
        <2>3. LinesTyped'
            BY <1>5, <2>1 DEF Delivered, LinesTyped
        <2>4. DeliveredGoes' /\ ToldTwiceIsTrouble'
            BY <2>1, <2>2 DEF LinesTyped, DeliveredGoes, ToldTwiceIsTrouble
        <2> QED
            BY <2>3, <2>4
    <1>6. CASE Unlink
        BY <1>6 DEF Unlink, NotFlushing, LinesTyped, DeliveredGoes, ToldTwiceIsTrouble
    <1>7. CASE FlushBreaks
        BY <1>7 DEF FlushBreaks, NotFlushing, LinesTyped, DeliveredGoes, ToldTwiceIsTrouble
    <1> QED
        BY <1>1, <1>2, <1>3, <1>4, <1>5, <1>6, <1>7 DEF NoticesNext

\* However many lines are queued while a flush is under way, and whatever
\* breaks: the owner gets a line a second time only if a flush had delivered it
\* and could not remove the file.
THEOREM NoLineIsToldTwice ==
    NoticesInit /\ [][NoticesNext]_noticesVars => []ToldTwiceIsTrouble
    <1>1. NoticesInit => NoticesInv
        BY DEF NoticesInit, NotFlushing, NoticesInv, LinesTyped, DeliveredGoes,
               ToldTwiceIsTrouble
    <1>2. NoticesInv /\ [NoticesNext]_noticesVars => NoticesInv'
        <2>1. NoticesInv /\ UNCHANGED noticesVars => NoticesInv'
            BY DEF noticesVars, NoticesInv, LinesTyped, DeliveredGoes, ToldTwiceIsTrouble
        <2> QED
            BY <2>1, NoticesStep
    <1> QED
        BY <1>1, <1>2, PTL DEF NoticesInv

-----------------------------------------------------------------------------
(* Upkeep: a claim that was told of is remembered until the store forgets.  *)

ToldIsRemembered ==
    /\ reported \in [RunTasks -> Nat] /\ life \in [RunTasks -> {"queued", "claimed", "stale",
                                                                "done", "old", "deleted"}]
    /\ chore.step \in {"idle", "notify", "prune"} /\ (chore.step = "idle" => chore.todo = {})
    /\ chore = [step |-> chore.step, todo |-> chore.todo]
    /\ \A t \in RunTasks :
          /\ life[t] = "stale" /\ reported[t] > 0 => t \in told \cup forgotten
          /\ chore.step = "notify" /\ t \in chore.todo
                 => /\ t \in told \cup forgotten
                    /\ reported[t] > 0 => t \in forgotten
    /\ ToldAgainIsForgotten

LEMMA UpkeepStep ==
    ASSUME ToldIsRemembered, UpkeepNext
    PROVE  ToldIsRemembered'
    <1> USE DEF ToldIsRemembered, ToldAgainIsForgotten, Failure
    <1>1. ASSUME NEW t \in RunTasks, ClaimRun(t) \/ LetGo(t) \/ RunGetsOld(t)
          PROVE  ToldIsRemembered'
        BY <1>1 DEF ClaimRun, LetGo, RunGetsOld
    <1>2. ASSUME NEW t \in RunTasks, ClaimAges(t)
          PROVE  ToldIsRemembered'
        BY <1>2 DEF ClaimAges
    <1>3. CASE DayPasses
        BY <1>3 DEF DayPasses
    <1>4. CASE NewlyStale
        BY <1>4 DEF NewlyStale, NoChore, In, Remember
    <1>5. CASE NothingStale
        BY <1>5 DEF NothingStale, NoChore
    <1>6. CASE PruneBegins \/ PruneEnds
        BY <1>6 DEF PruneBegins, PruneEnds, NoChore
    <1>7. ASSUME NEW t \in RunTasks, NotifyStale(t)
          PROVE  ToldIsRemembered'
        BY <1>7 DEF NotifyStale, Tell
    <1>8. ASSUME NEW t \in RunTasks, PruneRun(t) \/ RefusalSkips(t)
          PROVE  ToldIsRemembered'
        BY <1>8 DEF PruneRun, RefusalSkips
    <1>9. CASE UpkeepDie
        BY <1>9 DEF UpkeepDie, NoChore
    <1> QED
        BY <1>1, <1>2, <1>3, <1>4, <1>5, <1>6, <1>7, <1>8, <1>9 DEF UpkeepNext, ChoreStep

\* A stale claim is told of a second time only if what had been told was
\* forgotten, whatever the sessions and the doors do to the tasks meanwhile:
\* what StaleIsToldOnce says of what never happens.
THEOREM NoClaimIsToldTwice ==
    UpkeepInit /\ [][UpkeepNext]_upkeepVars => []ToldAgainIsForgotten
    <1>1. UpkeepInit => ToldIsRemembered
        BY DEF UpkeepInit, NoChore, ToldIsRemembered, ToldAgainIsForgotten
    <1>2. ToldIsRemembered /\ [UpkeepNext]_upkeepVars => ToldIsRemembered'
        <2>1. ToldIsRemembered /\ UNCHANGED upkeepVars => ToldIsRemembered'
            BY DEF upkeepVars, ToldIsRemembered, ToldAgainIsForgotten
        <2> QED
            BY <2>1, UpkeepStep
    <1> QED
        BY <1>1, <1>2, PTL DEF ToldIsRemembered

-----------------------------------------------------------------------------
(* Heartbeat: the stamp says when the last tick was, if it was saved, and   *)
(* how many there were, if all were.                                        *)

Counters(record) == [ticks |-> record.ticks, silences |-> record.silences]
StampRecord == [readable : BOOLEAN, at : Nat, ticks : Nat, silences : Nat]

BeatTyped ==
    /\ now \in Nat /\ stamp \in StampRecord
    /\ beat \in [step : {"idle", "open", "write", "tell"}, gap : BOOLEAN, record : StampRecord]
    /\ (beat.step = "idle" => beat = NoBeat)
    /\ last \in [at : Nat, silent : BOOLEAN, told : BOOLEAN, lapsed : BOOLEAN]
    /\ tally \in [ticks : Nat, silences : Nat]
    /\ saved \in BOOLEAN /\ unbroken \in BOOLEAN

\* The file has the last tick, and the file or the tick in hand the count.
StampIsLast ==
    /\ tally.ticks = 0 => /\ beat = NoBeat /\ tally.silences = 0
                          /\ stamp = Unreadable /\ ~last.silent /\ ~last.told
    /\ saved => stamp.readable /\ stamp.at = last.at /\ tally.ticks > 0
    /\ unbroken /\ saved => Counters(stamp) = tally
    /\ unbroken /\ beat.step \in {"idle", "tell"} => saved \/ tally.ticks = 0
    /\ beat.step \in {"open", "write"} =>
          /\ ~saved /\ beat.record.readable /\ beat.record.at = last.at
          /\ unbroken => Counters(beat.record) = tally

\* The tick in hand has noticed what there was, and the last one told it.
GapIsSilence ==
    \/ last.lapsed
    \/ beat.step = "idle" /\ (last.silent <=> last.told)
    \/ beat.step # "idle" /\ (last.silent <=> beat.gap)

HeartbeatInv == BeatTyped /\ StampIsLast /\ GapIsSilence

LEMMA HeartbeatStep ==
    ASSUME HeartbeatInv, HeartbeatNext
    PROVE  HeartbeatInv'
    <1> USE DEF HeartbeatInv, BeatTyped, StampRecord, Lapse
    <1>1. CASE TimeGoesBy
        BY <1>1 DEF TimeGoesBy, StampIsLast, GapIsSilence
    <1>2. CASE ReadStamp
        <2> DEFINE silent == tally.ticks > 0 /\ now - last.at > Silent
        <2>1. /\ beat = NoBeat /\ beat' = [step |-> "open", gap |-> Gap, record |-> Stamp]
              /\ last' = [at |-> now, silent |-> silent, told |-> FALSE,
                          lapsed |-> tally.ticks > 0 /\ ~saved]
              /\ tally' = [ticks |-> tally.ticks + 1,
                           silences |-> tally.silences + (IF silent THEN 1 ELSE 0)]
              /\ ~saved' /\ UNCHANGED <<now, stamp, unbroken>>
            BY <1>2 DEF ReadStamp
        <2>2. Gap \in BOOLEAN /\ Stamp \in StampRecord /\ Stamp.readable /\ Stamp.at = now
            BY DEF Gap, Stamp
        <2>3. last'.lapsed \/ (Gap <=> silent)
            <3>1. CASE tally.ticks = 0
                BY <3>1 DEF StampIsLast, Gap, Unreadable
            <3>2. CASE saved
                BY <3>2 DEF StampIsLast, Gap
            <3>3. CASE tally.ticks > 0 /\ ~saved
                BY <2>1, <3>3
            <3> QED
                BY <3>1, <3>2, <3>3
        <2>4. unbroken => Counters(Stamp) = tally'
            <3> SUFFICES ASSUME unbroken PROVE Counters(Stamp) = tally'
                OBVIOUS
            <3>1. Counters(stamp) = tally /\ (Gap <=> silent)
                <4>1. CASE tally.ticks = 0
                    BY <4>1 DEF StampIsLast, Counters, Unreadable, Gap
                <4>2. CASE saved
                    BY <4>2 DEF StampIsLast, Gap
                <4> QED
                    BY <2>1, <4>1, <4>2 DEF StampIsLast, NoBeat
            <3>2. stamp.ticks = tally.ticks /\ stamp.silences = tally.silences
                BY <3>1 DEF Counters
            <3> QED
                BY <2>1, <3>1, <3>2 DEF Counters, Stamp
        <2>5. BeatTyped'
            <3> DEFINE lapsed == tally.ticks > 0 /\ ~saved
            <3>1. /\ silent \in BOOLEAN /\ lapsed \in BOOLEAN
                  /\ (IF silent THEN 1 ELSE 0) \in Nat /\ saved' \in BOOLEAN
                BY <1>2 DEF ReadStamp
            <3>2. /\ last' = [at |-> now, silent |-> silent, told |-> FALSE, lapsed |-> lapsed]
                  /\ beat'.step = "open"
                BY <2>1
            <3> HIDE DEF silent, lapsed
            <3>3. last' \in [at : Nat, silent : BOOLEAN, told : BOOLEAN, lapsed : BOOLEAN]
                BY <3>1, <3>2
            <3>4. tally' \in [ticks : Nat, silences : Nat]
                BY <2>1, <3>1
            <3> QED
                BY <2>1, <2>2, <3>1, <3>2, <3>3, <3>4
        <2>6. StampIsLast'
            BY <2>1, <2>2, <2>4 DEF StampIsLast
        <2>7. GapIsSilence'
            BY <2>1, <2>3 DEF GapIsSilence, NoBeat
        <2> QED
            BY <2>5, <2>6, <2>7
    <1>3. CASE OpenStamp
        <2>1. /\ beat.step = "open" /\ beat'.gap = beat.gap /\ beat'.record = beat.record
              /\ beat' \in [step : {"write", "tell"}, gap : BOOLEAN, record : StampRecord]
              /\ \/ stamp' = Unreadable /\ beat'.step = "write" /\ UNCHANGED unbroken
                 \/ unbroken' = FALSE /\ beat'.step = "tell" /\ UNCHANGED stamp
              /\ UNCHANGED <<now, last, saved, tally>>
            BY <1>3 DEF OpenStamp
        <2>2. BeatTyped'
            <3>1. stamp' \in StampRecord /\ unbroken' \in BOOLEAN
                <4>1. Unreadable \in StampRecord
                    BY DEF Unreadable
                <4> HIDE DEF StampRecord
                <4> QED
                    BY <2>1, <4>1
            <3>2. /\ beat' \in [step : {"idle", "open", "write", "tell"}, gap : BOOLEAN,
                                record : StampRecord]
                  /\ beat'.step # "idle"
                BY <2>1
            <3> QED
                BY <2>1, <3>1, <3>2
        <2>3. StampIsLast'
            BY <2>1 DEF StampIsLast, NoBeat
        <2>4. GapIsSilence'
            BY <2>1 DEF GapIsSilence
        <2> QED
            BY <2>2, <2>3, <2>4
    <1>4. CASE WriteStamp
        <2>1. /\ beat.step = "write" /\ beat' = [beat EXCEPT !.step = "tell"]
              /\ UNCHANGED <<now, last, tally>>
              /\ \/ stamp' = beat.record /\ saved' = TRUE /\ UNCHANGED unbroken
                 \/ unbroken' = FALSE /\ UNCHANGED <<stamp, saved>>
            BY <1>4 DEF WriteStamp
        <2>2. BeatTyped'
            BY <2>1
        <2>3. StampIsLast'
            BY <2>1 DEF StampIsLast, NoBeat
        <2>4. GapIsSilence'
            BY <2>1 DEF GapIsSilence
        <2> QED
            BY <2>2, <2>3, <2>4
    <1>5. CASE TellSilence
        <2>1. /\ beat.step = "tell" /\ beat' = NoBeat
              /\ UNCHANGED <<now, stamp, saved, tally, unbroken>>
              /\ \/ last' = [last EXCEPT !.told = beat.gap]
                 \/ last' = [last EXCEPT !.lapsed = TRUE]
            BY <1>5 DEF TellSilence
        <2>2. BeatTyped'
            BY <2>1 DEF NoBeat, Unreadable
        <2>3. StampIsLast'
            BY <2>1 DEF StampIsLast, NoBeat
        <2>4. GapIsSilence'
            BY <2>1 DEF GapIsSilence, NoBeat
        <2> QED
            BY <2>2, <2>3, <2>4
    <1>6. CASE HeartbeatDie
        <2>1. /\ beat # NoBeat /\ beat' = NoBeat
              /\ last' = [last EXCEPT !.lapsed = TRUE] /\ unbroken' = (unbroken /\ saved)
              /\ UNCHANGED <<now, stamp, saved, tally>>
            BY <1>6 DEF HeartbeatDie
        <2>2. BeatTyped'
            BY <2>1 DEF NoBeat, Unreadable
        <2>3. StampIsLast'
            BY <2>1 DEF StampIsLast, NoBeat
        <2>4. GapIsSilence'
            BY <2>1, <2>2 DEF GapIsSilence, NoBeat
        <2> QED
            BY <2>2, <2>3, <2>4
    <1> QED
        BY <1>1, <1>2, <1>3, <1>4, <1>5, <1>6 DEF HeartbeatNext

\* The tick that ends a silence tells of it and no other does, and the counters
\* count the ticks and the silences, unless a stamp was not saved, a message
\* failed or the process died in the tick.
THEOREM OneTickTellsOfSilence ==
    HeartbeatInit /\ [][HeartbeatNext]_heartbeatVars => []SilenceIsToldOnce
    <1>1. HeartbeatInit => HeartbeatInv
        <2> SUFFICES ASSUME HeartbeatInit PROVE HeartbeatInv
            OBVIOUS
        <2> USE DEF HeartbeatInit, Unreadable, NoBeat
        <2>1. BeatTyped
            BY DEF BeatTyped, StampRecord
        <2>2. StampIsLast
            BY DEF StampIsLast
        <2>3. GapIsSilence
            BY DEF GapIsSilence
        <2> QED
            BY <2>1, <2>2, <2>3 DEF HeartbeatInv
    <1>2. HeartbeatInv /\ [HeartbeatNext]_heartbeatVars => HeartbeatInv'
        <2>1. HeartbeatInv /\ UNCHANGED heartbeatVars => HeartbeatInv'
            BY DEF heartbeatVars, HeartbeatInv, BeatTyped, StampIsLast, GapIsSilence
        <2> QED
            BY <2>1, HeartbeatStep
    <1>3. HeartbeatInv => SilenceIsToldOnce
        BY DEF HeartbeatInv, BeatTyped, StampIsLast, GapIsSilence, SilenceIsToldOnce, Counters,
               NoBeat, Unreadable
    <1> QED
        BY <1>1, <1>2, <1>3, PTL

-----------------------------------------------------------------------------
(* TickLog: what is being noted, if nothing crosses it, is the last.       *)

LogLines == [at : Nat, why : Decisions]
Notes == [step : {"idle", "trim", "append"}, entry : {<<>>} \cup (Nat \X Decisions),
          lines : Seq(LogLines)]

LogTyped ==
    /\ clock \in Nat
    /\ log \in Seq(LogLines)
    /\ note \in [Noters -> Notes]
    /\ \A n \in Noters : \/ note[n] = NotNoting
                         \/ note[n].step # "idle" /\ note[n].entry \in Nat \X Decisions
    /\ \A n \in Noters : note[n].step = "trim" => Len(note[n].lines) >= MaxLines

\* The decision that is being noted, if nothing crosses it, is the last one.
NotedIsTheLast ==
    ~ doubt => \A n \in Noting : note[n].entry[2] = latest /\ \A m \in Noting : m = n

TickLogInv == LogTyped /\ NotedIsTheLast /\ NewestIsTheLast

LEMMA TickLogStep ==
    ASSUME TickLogInv, [TickLogNext]_tickLogVars
    PROVE  TickLogInv'
    <1> USE DEF TickLogInv
    <1>1. ASSUME NEW n \in Noters, NEW d \in Decisions, ReadLog(n, d)
          PROVE  TickLogInv'
        <2>1. note[n] = NotNoting /\ latest' = d /\ (doubt' <=> Noting # {})
              /\ UNCHANGED <<clock, log>>
            BY <1>1 DEF ReadLog
        <2>2. CASE Repeats(d)
            <3>1. note' = note
                BY <1>1, <2>2 DEF ReadLog
            <3>2. log # <<>> /\ log[Len(log)].why = d
                BY <2>2 DEF Repeats
            <3>3. Noting' = Noting
                BY <3>1 DEF Noting
            <3> QED
                BY <2>1, <3>1, <3>2, <3>3 DEF LogTyped, NotedIsTheLast, NewestIsTheLast
        <2>3. CASE ~ Repeats(d)
            <3> DEFINE new == [entry |-> <<clock, d>>,
                               step |-> IF Len(log) >= MaxLines THEN "trim" ELSE "append",
                               lines |-> IF Len(log) >= MaxLines THEN log ELSE <<>>]
            <3>1. note' = [note EXCEPT ![n] = new]
                BY <1>1, <2>3 DEF ReadLog
            <3>2. /\ new \in Notes /\ new.step # "idle" /\ new.entry \in Nat \X Decisions
                  /\ new.entry[2] = d
                  /\ new.step = "trim" => Len(new.lines) >= MaxLines
                <4>1. <<clock, d>> \in Nat \X Decisions /\ <<clock, d>>[2] = d
                    BY DEF LogTyped
                <4>2. (IF Len(log) >= MaxLines THEN log ELSE <<>>) \in Seq(LogLines)
                    BY DEF LogTyped
                <4> QED
                    BY <4>1, <4>2 DEF Notes
            <3> HIDE DEF new
            <3>3. new # NotNoting
                BY <3>2 DEF NotNoting
            <3>4. LogTyped'
                BY <2>1, <3>1, <3>2 DEF LogTyped
            <3>5. note'[n] = new /\ \A m \in Noters \ {n} : note'[m] = note[m]
                BY <3>1 DEF LogTyped
            <3>6. Noting' = Noting \cup {n}
                BY <3>3, <3>5 DEF Noting
            <3> QED
                BY <2>1, <3>2, <3>4, <3>5, <3>6 DEF NotedIsTheLast, NewestIsTheLast
        <2> QED
            BY <2>2, <2>3
    <1>2. ASSUME NEW n \in Noters, Trim(n)
          PROVE  TickLogInv'
        <2> DEFINE new == [step |-> "append", entry |-> note[n].entry, lines |-> <<>>]
        <2>1. /\ note[n].step = "trim" /\ UNCHANGED <<clock, latest, doubt>>
              /\ log' = SubSeq(note[n].lines, Len(note[n].lines) - KeepLines + 1,
                               Len(note[n].lines))
            BY <1>2 DEF Trim
        <2>3. note[n] \in Notes /\ note[n] # NotNoting /\ note[n].entry \in Nat \X Decisions
            BY <2>1 DEF LogTyped, NotNoting
        <2>2. note' = [note EXCEPT ![n] = new]
            <3>1. note' = [note EXCEPT ![n].step = "append", ![n].lines = <<>>]
                BY <1>2 DEF Trim
            <3>2. note' = [note EXCEPT ![n] = [note[n] EXCEPT !.step = "append", !.lines = <<>>]]
                BY <3>1 DEF LogTyped
            <3>3. PICK s, e, ls : note[n] = [step |-> s, entry |-> e, lines |-> ls]
                <4> DEFINE Entries == {<<>>} \cup (Nat \X Decisions)
                           Lists == Seq(LogLines)
                <4>1. note[n] \in [step : {"idle", "trim", "append"},
                                   entry : Entries, lines : Lists]
                    BY <2>3 DEF Notes
                <4> HIDE DEF Entries, Lists
                <4> QED
                    BY <4>1
            <3> DEFINE half == [step |-> "append", entry |-> e, lines |-> ls]
            <3>4. [note[n] EXCEPT !.step = "append"] = half
                BY <3>3
            <3>5. [half EXCEPT !.lines = <<>>] = [step |-> "append", entry |-> e, lines |-> <<>>]
                OBVIOUS
            <3> HIDE DEF half
            <3>6. [note[n] EXCEPT !.step = "append", !.lines = <<>>] = [half EXCEPT !.lines = <<>>]
                BY <3>4
            <3>7. note[n].entry = e
                BY <3>3
            <3> QED
                BY <3>2, <3>5, <3>6, <3>7
        <2>4. /\ new \in Notes /\ new.step = "append" /\ new.entry = note[n].entry
            BY <2>3 DEF Notes
        <2> HIDE DEF new
        <2>5. new # NotNoting
            BY <2>4 DEF NotNoting
        <2>6. log' \in Seq(LogLines)
            <3>1. PICK lines \in Seq(LogLines) : lines = note[n].lines
                BY <2>3 DEF Notes
            <3>2. Len(lines) \in Nat /\ Len(lines) >= MaxLines
                BY <2>1, <3>1 DEF LogTyped
            <3>3. Len(lines) - KeepLines + 1 \in 1..(Len(lines) + 1)
                BY <3>2, TickLogAssumption
            <3>4. SubSeq(lines, Len(lines) - KeepLines + 1, Len(lines)) \in Seq(LogLines)
                BY <3>2, <3>3
            <3> QED
                BY <2>1, <3>1, <3>4
        <2>7. note'[n] = new /\ \A m \in Noters \ {n} : note'[m] = note[m]
            BY <2>2 DEF LogTyped
        <2>8. LogTyped'
            BY <2>1, <2>2, <2>3, <2>4, <2>6, <2>7 DEF LogTyped
        <2>9. Noting' = Noting /\ n \in Noting
            BY <2>3, <2>5, <2>7 DEF Noting
        <2> QED
            BY <2>1, <2>4, <2>7, <2>8, <2>9 DEF NotedIsTheLast, NewestIsTheLast
    <1>3. ASSUME NEW n \in Noters, AppendLine(n)
          PROVE  TickLogInv'
        <2> DEFINE line == [at |-> note[n].entry[1], why |-> note[n].entry[2]]
        <2>1. /\ note[n].step = "append" /\ UNCHANGED <<clock, latest, doubt>>
              /\ log' = Append(log, line)
              /\ note' = [note EXCEPT ![n] = NotNoting]
            BY <1>3 DEF AppendLine
        <2>2. note[n] # NotNoting /\ note[n].entry \in Nat \X Decisions
            BY <2>1 DEF LogTyped, NotNoting
        <2>3. line \in LogLines /\ line.why = note[n].entry[2]
            BY <2>2 DEF LogLines
        <2> HIDE DEF line
        <2>4. log' \in Seq(LogLines) /\ log' # <<>> /\ log'[Len(log')] = line
            BY <2>1, <2>3 DEF LogTyped
        <2>5. NotNoting \in Notes /\ NotNoting.step = "idle"
            BY DEF NotNoting, Notes
        <2>6. note'[n] = NotNoting /\ \A m \in Noters \ {n} : note'[m] = note[m]
            BY <2>1 DEF LogTyped
        <2>7. LogTyped'
            BY <2>1, <2>4, <2>5, <2>6 DEF LogTyped
        <2>8. Noting' = Noting \ {n} /\ n \in Noting
            BY <2>2, <2>6 DEF Noting
        <2>9. ~ doubt => Noting' = {} /\ line.why = latest
            BY <2>3, <2>8 DEF NotedIsTheLast
        <2> QED
            BY <2>1, <2>4, <2>7, <2>8, <2>9 DEF NotedIsTheLast, NewestIsTheLast
    <1>4. CASE NotingBreaks
        <2>1. NotNoting \in Notes /\ NotNoting.step = "idle"
            BY DEF NotNoting, Notes
        <2> QED
            BY <1>4, <2>1 DEF NotingBreaks, LogTyped, NotedIsTheLast, NewestIsTheLast
    <1>5. CASE TimePasses
        <2>1. clock' \in Nat /\ UNCHANGED <<log, note, latest, doubt>>
            BY <1>5 DEF TimePasses, LogTyped
        <2>2. Noting' = Noting
            BY <2>1 DEF Noting
        <2> QED
            BY <2>1, <2>2 DEF LogTyped, NotedIsTheLast, NewestIsTheLast
    <1>6. CASE UNCHANGED tickLogVars
        <2>1. UNCHANGED <<clock, log, note, latest, doubt>>
            BY <1>6 DEF tickLogVars
        <2>2. Noting' = Noting
            BY <2>1 DEF Noting
        <2> QED
            BY <2>1, <2>2 DEF LogTyped, NotedIsTheLast, NewestIsTheLast
    <1> QED
        BY <1>1, <1>2, <1>3, <1>4, <1>5, <1>6 DEF TickLogNext

-----------------------------------------------------------------------------
(* TickLog: the log accounts for the past, and the times add up.            *)

\* What TimeIn is made of: when a line ends, the lines of a reason that end after
\* `since`, how long each lasted since then, and the moments at which some did.
EndOf(lines, i, till) == IF i = Len(lines) THEN till ELSE lines[i + 1].at
Held(reason, since) == {i \in DOMAIN log : log[i].why = reason /\ EndOf(log, i, clock) > since}
Lasts(i, since) == EndOf(log, i, clock) - Later(log[i].at, since)
Moments(s, since) ==
    {t \in (since + 1)..clock : \E i \in s : log[i].at < t /\ t <= EndOf(log, i, clock)}

\* The fold itself, as MapThenFoldSet unfolds.
Folded(g, S, since) == [s \in SUBSET S |->
                           IF s = {} THEN 0
                           ELSE LET x == CHOOSE x \in s : TRUE
                                IN  Lasts(x, since) + g[s \ {x}]]
Total(S, since) == CHOOSE g : g = Folded(g, S, since)

\* What is added up over a set of lines, one picked after another.
LEMMA LastsAddUp ==
    ASSUME NEW since, NEW S, IsFiniteSet(S), \A i \in S : Lasts(i, since) \in Int
    PROVE  \A s \in SUBSET S :
              /\ Total(S, since)[s] \in Int
              /\ s = {} => Total(S, since)[s] = 0
              /\ s # {} => \E x \in s :
                    Total(S, since)[s] = Lasts(x, since) + Total(S, since)[s \ {x}]
    <1> DEFINE f == [i \in S |-> Lasts(i, since)]
    <1>1. f \in [S -> Int] /\ \A i \in S : f[i] = Lasts(i, since)
        OBVIOUS
    <1>2. PICK g \in [SUBSET S -> Int] : AddsUp(g, S, f)
        <2> HIDE DEF f
        <2> QED
            BY <1>1, SumExists
    <1> HIDE DEF f
    <1>3. ASSUME NEW s \in SUBSET S
          PROVE  g[s] = Folded(g, S, since)[s]
        <2>1. CASE s = {}
            BY <1>2, <2>1 DEF AddsUp, Folded
        <2>2. CASE s # {}
            <3>1. PICK x : x = CHOOSE x_1 \in s : TRUE
                OBVIOUS
            <3>2. x \in S
                BY <2>2, <3>1
            <3>3. g[s] = f[x] + g[s \ {x}]
                BY <1>2, <2>2, <3>1 DEF AddsUp
            <3>4. Folded(g, S, since)[s] = Lasts(x, since) + g[s \ {x}]
                BY <2>2, <3>1 DEF Folded
            <3> QED
                BY <1>1, <3>2, <3>3, <3>4
        <2> QED
            BY <2>1, <2>2
    <1>4. g = Folded(g, S, since)
        BY <1>3 DEF Folded
    <1>5. PICK total : total = Total(S, since) /\ total = Folded(total, S, since)
        BY <1>4 DEF Total
    <1>6. ASSUME NEW s \in SUBSET S
          PROVE  /\ s = {} => total[s] = 0
                 /\ s # {} => \E x \in s : total[s] = Lasts(x, since) + total[s \ {x}]
        <2>1. total[s] = Folded(total, S, since)[s]
            BY <1>5, Zenon
        <2>2. CASE s = {}
            BY <2>1, <2>2 DEF Folded
        <2>3. CASE s # {}
            <3>1. PICK x \in s : x = CHOOSE x_1 \in s : TRUE
                BY <2>3
            <3> QED
                BY <2>1, <2>3, <3>1 DEF Folded
        <2> QED
            BY <2>2, <2>3
    <1>7. \E T : \A s \in SUBSET S : s \in T <=> total[s] \in Int
        <2> WITNESS {s \in SUBSET S : total[s] \in Int}
        <2> QED
            OBVIOUS
    <1>8. PICK T : \A s \in SUBSET S : s \in T <=> total[s] \in Int
        BY <1>7
    <1>9. \A s \in SUBSET S : (\A x \in s : s \ {x} \in T) => s \in T
        <2> SUFFICES ASSUME NEW s \in SUBSET S, \A x \in s : s \ {x} \in T
                     PROVE  total[s] \in Int
            BY <1>8
        <2>1. CASE s = {}
            BY <1>6, <2>1
        <2>2. CASE s # {}
            <3>1. PICK x \in s : total[s] = Lasts(x, since) + total[s \ {x}]
                BY <1>6, <2>2
            <3>2. Lasts(x, since) \in Int /\ total[s \ {x}] \in Int
                BY <2>2, <3>1, <1>8
            <3> QED
                BY <3>1, <3>2
        <2> QED
            BY <2>1, <2>2
    <1>10. IsFiniteSet(S)
        OBVIOUS
    <1>11. \A s \in SUBSET S : s \in T
        BY ONLY <1>9, <1>10, AllSubsets
    <1> QED
        BY <1>5, <1>6, <1>8, <1>11

\* TimeIn is that fold, over the lines of the reason.
LEMMA TimeInAddsUp ==
    ASSUME NEW reason, NEW since
    PROVE  TimeIn(reason, since) = Total(Held(reason, since), since)[Held(reason, since)]
    BY DEF TimeIn, MapThenSumSet, MapThenFoldSet, Held, Lasts, EndOf, Total, Folded

\* What a log says of the past: each moment is the decision of the line it came
\* after, or, before the first line of a log never cut, that of a tick that ran.
Accounts(lines, till, past, cut) ==
    /\ \A i, j \in DOMAIN lines : i <= j => lines[i].at <= lines[j].at
    /\ \A i \in DOMAIN lines :
          /\ lines[i].at <= till
          /\ \A t \in (lines[i].at + 1)..EndOf(lines, i, till) : past[t] = lines[i].why
    /\ cut \/ \A t \in 1..(IF lines = <<>> THEN till ELSE lines[1].at) : past[t] = Ran

\* A line ends after it began, before now, and before any later line begins.
LEMMA EndsInTime ==
    ASSUME NEW till \in Nat, NEW lines \in Seq(LogLines), NEW past, NEW cut,
           Accounts(lines, till, past, cut), NEW i \in DOMAIN lines
    PROVE  /\ EndOf(lines, i, till) \in Nat /\ lines[i].at \in Nat
           /\ lines[i].at <= EndOf(lines, i, till) /\ EndOf(lines, i, till) <= till
           /\ \A j \in DOMAIN lines : i < j => EndOf(lines, i, till) <= lines[j].at
    <1>1. i \in 1..Len(lines) /\ lines[i] \in LogLines /\ DOMAIN lines = 1..Len(lines)
          /\ Len(lines) \in Nat
        OBVIOUS
    <1>2. CASE i = Len(lines)
        BY <1>1, <1>2 DEF EndOf, Accounts, LogLines
    <1>3. CASE i # Len(lines)
        <2>1. i + 1 \in DOMAIN lines /\ lines[i + 1] \in LogLines
            BY <1>1, <1>3
        <2>2. EndOf(lines, i, till) = lines[i + 1].at
            BY <1>3 DEF EndOf
        <2>3. lines[i].at <= lines[i + 1].at /\ lines[i + 1].at <= till
            BY <1>1, <2>1 DEF Accounts
        <2>4. \A j \in DOMAIN lines : i < j => lines[i + 1].at <= lines[j].at
            BY <1>1, <2>1 DEF Accounts
        <2> QED
            BY <1>1, <2>1, <2>2, <2>3, <2>4 DEF LogLines
    <1> QED
        BY <1>2, <1>3

\* The moments after both a and b, up to `end`.
LEMMA MomentsBetween ==
    ASSUME NEW a \in Nat, NEW b \in Nat, NEW from \in Nat, NEW end \in Nat, NEW till \in Nat,
           end <= till, \A t \in Int : t > from <=> t > a /\ t > b
    PROVE  {t \in (b + 1)..till : a < t /\ t <= end} = (from + 1)..end
    OBVIOUS

\* The moments a line lasted are an interval as long as TimeIn says.
LEMMA LastsItsMoments ==
    ASSUME NEW since \in Nat, clock \in Nat, log \in Seq(LogLines),
           Accounts(log, clock, was, trimmed),
           NEW i \in DOMAIN log, EndOf(log, i, clock) > since
    PROVE  /\ IsFiniteSet(Moments({i}, since))
           /\ Cardinality(Moments({i}, since)) = Lasts(i, since) /\ Lasts(i, since) \in Int
    <1> DEFINE from == Later(log[i].at, since)
               end == EndOf(log, i, clock)
    <1>1. /\ end \in Nat /\ log[i].at \in Nat /\ log[i].at <= end /\ end <= clock
          /\ end > since
        BY EndsInTime
    <1>2. /\ from \in Nat /\ from <= end /\ from + 1 \in Int /\ end \in Int
          /\ \A t \in Int : t > from <=> t > log[i].at /\ t > since
        BY <1>1 DEF Later
    <1>3. Lasts(i, since) = end - from
        BY DEF Lasts
    <1>4. Moments({i}, since) = (from + 1)..end
        <2>1. Moments({i}, since) = {t \in (since + 1)..clock : log[i].at < t /\ t <= end}
            BY DEF Moments
        <2> HIDE DEF from, end
        <2>2. {t \in (since + 1)..clock : log[i].at < t /\ t <= end} = (from + 1)..end
            BY <1>1, <1>2, MomentsBetween
        <2> QED
            BY <2>1, <2>2
    <1> HIDE DEF from, end
    <1>5. /\ IsFiniteSet((from + 1)..end)
          /\ Cardinality((from + 1)..end) = IF from + 1 > end THEN 0 ELSE end - (from + 1) + 1
        BY ONLY <1>2, FS_Interval
    <1> QED
        BY <1>2, <1>3, <1>4, <1>5

\* No two lines last at the same moment, so the times add up to the moments.
LEMMA TotalIsMoments ==
    ASSUME NEW since \in Nat, clock \in Nat, log \in Seq(LogLines),
           Accounts(log, clock, was, trimmed),
           NEW S \in SUBSET DOMAIN log, \A i \in S : EndOf(log, i, clock) > since
    PROVE  Total(S, since)[S] = Cardinality(Moments(S, since))
    <1>1. IsFiniteSet(S)
        <2>1. DOMAIN log = 1..Len(log)
            OBVIOUS
        <2>2. IsFiniteSet(1..Len(log))
            <3>1. Len(log) \in Nat
                OBVIOUS
            <3> QED
                BY <3>1, FS_Interval
        <2> QED
            BY <2>1, <2>2, FS_Subset
    <1>2. \A i \in S : /\ IsFiniteSet(Moments({i}, since)) /\ Lasts(i, since) \in Int
                       /\ Cardinality(Moments({i}, since)) = Lasts(i, since)
        BY LastsItsMoments
    <1>3. PICK total : /\ total = Total(S, since)
                       /\ \A s \in SUBSET S :
                             /\ total[s] \in Int
                             /\ s = {} => total[s] = 0
                             /\ s # {} => \E x \in s : total[s] = Lasts(x, since) + total[s \ {x}]
        <2>1. \A i \in S : Lasts(i, since) \in Int
            BY <1>2
        <2> QED
            BY ONLY <1>1, <2>1, LastsAddUp
    <1>4. \A s \in SUBSET S : IsFiniteSet(Moments(s, since))
        <2>1. IsFiniteSet((since + 1)..clock)
            BY FS_Interval
        <2>2. \A s \in SUBSET S : Moments(s, since) \in SUBSET ((since + 1)..clock)
            BY DEF Moments
        <2> QED
            BY <2>1, <2>2, FS_Subset
    <1>5. ASSUME NEW s \in SUBSET S, NEW x \in s
          PROVE  Cardinality(Moments(s, since))
                     = Cardinality(Moments(s \ {x}, since)) + Lasts(x, since)
        <2>1. Moments(s, since) = Moments(s \ {x}, since) \cup Moments({x}, since)
            BY DEF Moments
        <2>2. Moments(s \ {x}, since) \cap Moments({x}, since) = {}
            <3> SUFFICES ASSUME NEW t \in (since + 1)..clock, NEW j \in s \ {x},
                                log[j].at < t, t <= EndOf(log, j, clock),
                                log[x].at < t, t <= EndOf(log, x, clock)
                         PROVE  FALSE
                BY DEF Moments
            <3>1. x \in DOMAIN log /\ j \in DOMAIN log /\ DOMAIN log \subseteq Nat
                OBVIOUS
            <3>2. /\ EndOf(log, x, clock) \in Nat /\ log[x].at \in Nat
                  /\ EndOf(log, j, clock) \in Nat /\ log[j].at \in Nat
                  /\ x < j => EndOf(log, x, clock) <= log[j].at
                  /\ j < x => EndOf(log, j, clock) <= log[x].at
                BY <3>1, EndsInTime
            <3>3. t \in Int /\ (x < j \/ j < x)
                BY <3>1
            <3> QED
                BY <3>2, <3>3
        <2>3. IsFiniteSet(Moments(s \ {x}, since)) /\ IsFiniteSet(Moments({x}, since))
            BY <1>2, <1>4
        <2>4. /\ Cardinality(Moments(s, since)) = Cardinality(Moments(s \ {x}, since))
                    + Cardinality(Moments({x}, since)) - Cardinality({})
              /\ Cardinality({}) = 0 /\ Cardinality(Moments(s \ {x}, since)) \in Nat
            BY <2>1, <2>2, <2>3, FS_Union, FS_EmptySet, FS_CardinalityType
        <2> QED
            BY <1>2, <2>4
    <1>6. \E T : \A s \in SUBSET S : s \in T <=> total[s] = Cardinality(Moments(s, since))
        <2> WITNESS {s \in SUBSET S : total[s] = Cardinality(Moments(s, since))}
        <2> QED
            OBVIOUS
    <1>7. PICK T : \A s \in SUBSET S : s \in T <=> total[s] = Cardinality(Moments(s, since))
        BY <1>6
    <1>8. \A s \in SUBSET S : (\A x \in s : s \ {x} \in T) => s \in T
        <2> SUFFICES ASSUME NEW s \in SUBSET S, \A x \in s : s \ {x} \in T
                     PROVE  total[s] = Cardinality(Moments(s, since))
            BY <1>7
        <2>1. CASE s = {}
            <3>1. Moments(s, since) = {}
                BY <2>1 DEF Moments
            <3> QED
                BY <1>3, <2>1, <3>1, FS_EmptySet
        <2>2. CASE s # {}
            <3>1. PICK x \in s : total[s] = Lasts(x, since) + total[s \ {x}]
                BY <1>3, <2>2
            <3>2. total[s \ {x}] = Cardinality(Moments(s \ {x}, since))
                BY <1>7
            <3>3. Lasts(x, since) \in Int /\ total[s \ {x}] \in Int
                BY <1>2, <1>3
            <3> QED
                BY <1>5, <3>1, <3>2, <3>3
        <2> QED
            BY <2>1, <2>2
    <1>9. \A s \in SUBSET S : s \in T
        BY ONLY <1>1, <1>8, AllSubsets
    <1> QED
        BY <1>3, <1>7, <1>9

\* A line is a record of a time and a decision.
LEMMA LinesHaveTimes ==
    ASSUME NEW lines \in Seq(LogLines)
    PROVE  \A i \in DOMAIN lines : lines[i] \in LogLines /\ lines[i].at \in Nat
    <1>1. \A i \in DOMAIN lines : lines[i] \in LogLines
        OBVIOUS
    <1>2. \A l \in LogLines : l.at \in Nat
        BY DEF LogLines
    <1> QED
        BY <1>1, <1>2

\* A moment after the first line is one at which some line lasted.
LEMMA SomeLineLasts ==
    ASSUME NEW till \in Nat, NEW lines \in Seq(LogLines), lines # <<>>,
           NEW t \in 1..till, lines[1].at < t
    PROVE  \E i \in DOMAIN lines : lines[i].at < t /\ t <= EndOf(lines, i, till)
    <1> SUFFICES ASSUME \A i \in DOMAIN lines : lines[i].at < t => ~ (t <= EndOf(lines, i, till))
                 PROVE  FALSE
        OBVIOUS
    <1>1. Len(lines) \in Nat /\ Len(lines) # 0 /\ DOMAIN lines = 1..Len(lines)
        BY lines # <<>>
    <1>2. \A i \in 1..Len(lines) : lines[i].at \in Nat
        BY <1>1, LinesHaveTimes
    <1>3. \E T : \A n \in Nat : n \in T <=> (n \in 1..Len(lines) => lines[n].at < t)
        <2> WITNESS {n \in Nat : n \in 1..Len(lines) => lines[n].at < t}
        <2> QED
            OBVIOUS
    <1>4. PICK T : \A n \in Nat : n \in T <=> (n \in 1..Len(lines) => lines[n].at < t)
        BY <1>3
    <1>5. 0 \in T
        BY <1>4
    <1>6. \A n \in Nat : n \in T => n + 1 \in T
        <2> SUFFICES ASSUME NEW n \in Nat, n \in T, n + 1 \in 1..Len(lines)
                     PROVE  lines[n + 1].at < t
            BY <1>4
        <2>1. CASE n = 0
            <3>1. n + 1 = 1
                BY <2>1
            <3> QED
                BY <3>1, Zenon
        <2>2. CASE n # 0
            <3>1. n \in 1..Len(lines) /\ n # Len(lines)
                <4>1. n + 1 <= Len(lines) /\ Len(lines) \in Nat
                    BY <1>1
                <4> QED
                    BY ONLY n \in Nat, <2>2, <4>1
            <3>2. lines[n].at < t
                BY <1>4, <3>1
            <3>3. ~ (t <= lines[n + 1].at)
                BY <1>1, <3>1, <3>2 DEF EndOf
            <3> QED
                BY <1>2, <3>3
        <2> QED
            BY <2>1, <2>2
    <1>7. Len(lines) \in T
        <2>1. Nat \subseteq T
            BY ONLY <1>5, <1>6, AllNaturals
        <2> QED
            BY <1>1, <2>1
    <1>8. lines[Len(lines)].at < t /\ EndOf(lines, Len(lines), till) = till
        BY <1>1, <1>4, <1>7 DEF EndOf
    <1> QED
        BY <1>1, <1>8

\* What a log that accounts for the past says of each reason.
LEMMA TimeInTells ==
    ASSUME clock \in Nat, log \in Seq(LogLines), trimmed => log # <<>>,
           Accounts(log, clock, was, trimmed),
           Ran \notin Reasons, NEW reason \in Reasons, NEW since \in 0..clock
    PROVE  /\ TimeIn(reason, since) <= HeldUp(reason, since)
           /\ ~trimmed \/ since >= log[1].at => TimeIn(reason, since) = HeldUp(reason, since)
    <1> DEFINE lines == Held(reason, since)
               moments == Moments(lines, since)
               past == {t \in (since + 1)..clock : was[t] = reason}
    <1>1. lines \in SUBSET DOMAIN log /\ \A i \in lines : EndOf(log, i, clock) > since
        BY DEF Held
    <1>2. TimeIn(reason, since) = Cardinality(moments)
        <2>1. since \in Nat
            OBVIOUS
        <2>2. Total(lines, since)[lines] = Cardinality(moments)
            <3> HIDE DEF lines
            <3> QED
                BY <1>1, <2>1, TotalIsMoments
        <2> QED
            BY <2>2, TimeInAddsUp
    <1>3. HeldUp(reason, since) = Cardinality(past)
        BY DEF HeldUp
    <1>4. IsFiniteSet(past) /\ since \in Nat
        <2>1. IsFiniteSet((since + 1)..clock)
            BY FS_Interval
        <2> QED
            BY <2>1, FS_Subset
    <1>5. moments \subseteq past
        <2> SUFFICES ASSUME NEW t \in (since + 1)..clock, NEW i \in lines,
                            log[i].at < t, t <= EndOf(log, i, clock)
                     PROVE  was[t] = reason
            BY DEF Moments
        <2>1. i \in DOMAIN log /\ log[i].why = reason
            BY DEF Held
        <2>2. log[i].at \in Nat /\ EndOf(log, i, clock) \in Nat
            BY <2>1, EndsInTime
        <2>3. t \in (log[i].at + 1)..EndOf(log, i, clock)
            BY <2>2
        <2> QED
            BY <2>1, <2>3 DEF Accounts
    <1>6. Cardinality(moments) \in Nat /\ Cardinality(past) \in Nat
          /\ Cardinality(moments) <= Cardinality(past)
        <2> HIDE DEF moments, past
        <2> QED
            BY <1>4, <1>5, FS_Subset, FS_CardinalityType
    <1>7. ASSUME ~trimmed \/ since >= log[1].at
          PROVE  past \subseteq moments
        <2> SUFFICES ASSUME NEW t \in (since + 1)..clock, was[t] = reason
                     PROVE  t \in moments
            OBVIOUS
        <2>1. t \in 1..clock /\ t > since /\ since \in Nat
            OBVIOUS
        <2>2. log # <<>> /\ log[1].at < t
            <3>1. CASE log = <<>>
                <4>1. was[t] = Ran
                    BY <2>1, <3>1 DEF Accounts
                <4> QED
                    BY <4>1
            <3>2. CASE log # <<>>
                <4>1. log[1].at \in Nat
                    <5>1. 1 \in DOMAIN log
                        BY <3>2
                    <5> QED
                        BY <5>1, LinesHaveTimes
                <4>2. CASE since >= log[1].at
                    BY <2>1, <3>2, <4>1, <4>2
                <4>3. CASE ~trimmed
                    <5>1. \A u \in 1..log[1].at : was[u] = Ran
                        BY <3>2, <4>3, Zenon DEF Accounts
                    <5>2. was[t] # Ran
                        OBVIOUS
                    <5> QED
                        BY <2>1, <3>2, <4>1, <5>1, <5>2
                <4> QED
                    BY <1>7, <4>2, <4>3
            <3> QED
                BY <3>1, <3>2
        <2>3. PICK i \in DOMAIN log : log[i].at < t /\ t <= EndOf(log, i, clock)
            BY <2>1, <2>2, SomeLineLasts
        <2>4. log[i].at \in Nat /\ EndOf(log, i, clock) \in Nat
            BY EndsInTime
        <2>5. t \in (log[i].at + 1)..EndOf(log, i, clock) /\ EndOf(log, i, clock) > since
            BY <2>1, <2>3, <2>4
        <2>6. log[i].why = reason
            BY <2>5 DEF Accounts
        <2>7. i \in lines
            BY <2>5, <2>6 DEF Held
        <2> QED
            BY <2>3, <2>7 DEF Moments
    <1>8. ~trimmed \/ since >= log[1].at => moments = past
        BY <1>5, <1>7
    <1> HIDE DEF moments, past
    <1> QED
        BY <1>2, <1>3, <1>6, <1>8

\* A line written at once.
LEMMA AccountsAppended ==
    ASSUME NEW till \in Nat, NEW lines \in Seq(LogLines), NEW past, NEW cut,
           Accounts(lines, till, past, cut),
           NEW line \in LogLines, line.at = till
    PROVE  Accounts(Append(lines, line), till, past, cut)
    <1> DEFINE more == Append(lines, line)
               n == Len(lines)
    <1>1. /\ n \in Nat /\ Len(more) = n + 1 /\ DOMAIN lines = 1..n /\ DOMAIN more = 1..(n + 1)
          /\ more[n + 1] = line /\ \A i \in 1..n : more[i] = lines[i]
          /\ lines = <<>> <=> n = 0
        OBVIOUS
    <1>2. more # <<>>
        BY <1>1
    <1> HIDE DEF more, n
    <1>3. \A i \in 1..n : lines[i].at \in Nat /\ lines[i].at <= till
        BY <1>1, LinesHaveTimes DEF Accounts
    <1>4. ASSUME NEW i \in 1..(n + 1), NEW j \in 1..(n + 1), i <= j
          PROVE  more[i].at <= more[j].at
        <2>1. CASE j \in 1..n
            <3>1. i \in 1..n
                BY ONLY <1>1, <1>4, <2>1
            <3> QED
                BY <1>1, <1>4, <2>1, <3>1 DEF Accounts
        <2>2. CASE i \in 1..n /\ j = n + 1
            BY <1>1, <1>3, <2>2
        <2>3. CASE i = n + 1
            <3>1. j = n + 1
                BY ONLY <1>1, <1>4, <2>3
            <3> QED
                BY <1>1, <2>3, <3>1
        <2> QED
            BY ONLY <1>1, <2>1, <2>2, <2>3, i \in 1..(n + 1), j \in 1..(n + 1)
    <1>5. ASSUME NEW i \in 1..(n + 1)
          PROVE  /\ more[i].at <= till
                 /\ \A t \in (more[i].at + 1)..EndOf(more, i, till) : past[t] = more[i].why
        <2>1. CASE i = n + 1
            <3>1. EndOf(more, i, till) = till /\ more[i].at = till
                BY <1>1, <2>1 DEF EndOf
            <3> QED
                BY <3>1
        <2>2. CASE i \in 1..n
            <3>1. EndOf(more, i, till) = EndOf(lines, i, till)
                <4>1. CASE i = n
                    <5>1. EndOf(lines, i, till) = till
                        BY <4>1 DEF EndOf, n
                    <5>2. EndOf(more, i, till) = more[n + 1].at
                        BY <1>1, <4>1 DEF EndOf
                    <5> QED
                        BY <1>1, <5>1, <5>2
                <4>2. CASE i # n
                    <5>1. i + 1 \in 1..n /\ i # n + 1
                        BY ONLY <1>1, <2>2, <4>2
                    <5>2. EndOf(lines, i, till) = lines[i + 1].at
                        BY <4>2 DEF EndOf, n
                    <5>3. EndOf(more, i, till) = more[i + 1].at
                        BY <1>1, <5>1 DEF EndOf
                    <5> QED
                        BY <1>1, <5>1, <5>2, <5>3
                <4> QED
                    BY <4>1, <4>2
            <3> QED
                BY <1>1, <1>3, <2>2, <3>1 DEF Accounts
        <2> QED
            BY ONLY <1>1, <2>1, <2>2, i \in 1..(n + 1)
    <1>6. more[1].at = IF lines = <<>> THEN till ELSE lines[1].at
        <2>1. CASE n = 0
            BY <1>1, <2>1
        <2>2. CASE n # 0
            BY <1>1, <2>2
        <2> QED
            BY <2>1, <2>2
    <1>7. cut \/ \A t \in 1..(IF more = <<>> THEN till ELSE more[1].at) : past[t] = Ran
        BY <1>2, <1>6, Zenon DEF Accounts
    <1> QED
        BY <1>1, <1>4, <1>5, <1>7 DEF Accounts, more

\* A log cut down to its newest lines, and one more written to it.
LEMMA AccountsTrimmed ==
    ASSUME NEW till \in Nat, NEW lines \in Seq(LogLines), NEW past, NEW cut,
           NEW line \in LogLines, NEW keep \in 0..Len(lines),
           Accounts(Append(lines, line), till, past, cut)
    PROVE  Accounts(Append(SubSeq(lines, Len(lines) - keep + 1, Len(lines)), line),
                    till, past, TRUE)
    <1> DEFINE n == Len(lines)
               all == Append(lines, line)
               newest == SubSeq(lines, n - keep + 1, n)
               more == Append(newest, line)
               d == n - keep
    <1>1. /\ n \in Nat /\ d \in Nat /\ keep \in Nat /\ d + keep = n
          /\ Len(all) = n + 1 /\ DOMAIN all = 1..(n + 1)
        OBVIOUS
    <1>2. /\ newest \in Seq(LogLines) /\ Len(newest) = keep
          /\ \A i \in 1..keep : newest[i] = lines[d + i]
        OBVIOUS
    <1>3. /\ Len(more) = keep + 1 /\ DOMAIN more = 1..(keep + 1)
          /\ \A i \in 1..(keep + 1) : more[i] = all[d + i] /\ d + i \in 1..(n + 1)
        <2>1. \A i \in 1..keep : more[i] = newest[i]
            BY <1>2
        <2>2. \A i \in 1..n : all[i] = lines[i]
            OBVIOUS
        <2>3. more[keep + 1] = line /\ all[n + 1] = line /\ Len(more) = keep + 1
              /\ DOMAIN more = 1..(keep + 1)
            BY <1>2
        <2> HIDE DEF more, all, newest, n, d
        <2>4. ASSUME NEW i \in 1..(keep + 1)
              PROVE  more[i] = all[d + i] /\ d + i \in 1..(n + 1)
            <3>1. CASE i = keep + 1
                BY <1>1, <2>3, <3>1
            <3>2. CASE i # keep + 1
                <4>1. i \in 1..keep /\ d + i \in 1..n
                    BY ONLY <1>1, <3>2, i \in 1..(keep + 1)
                <4> QED
                    BY <1>1, <1>2, <2>1, <2>2, <4>1
            <3> QED
                BY <3>1, <3>2
        <2> QED
            BY <2>3, <2>4
    <1>4. Accounts(all, till, past, cut)
        OBVIOUS
    <1> HIDE DEF n, d, all, newest, more
    <1>5. ASSUME NEW i \in 1..(keep + 1)
          PROVE  EndOf(more, i, till) = EndOf(all, d + i, till)
        <2>1. CASE i = keep + 1
            BY <1>1, <1>3, <2>1 DEF EndOf
        <2>2. CASE i # keep + 1
            <3>1. i + 1 \in 1..(keep + 1) /\ d + i # n + 1 /\ d + (i + 1) = d + i + 1
                BY ONLY <1>1, <2>2, i \in 1..(keep + 1)
            <3>2. more[i + 1] = all[d + i + 1]
                BY <1>3, <3>1
            <3> QED
                BY <1>1, <1>3, <2>2, <3>1, <3>2 DEF EndOf
        <2> QED
            BY <2>1, <2>2
    <1>6. ASSUME NEW i \in 1..(keep + 1), NEW j \in 1..(keep + 1), i <= j
          PROVE  more[i].at <= more[j].at
        <2>1. PICK a, b : a = d + i /\ b = d + j
            OBVIOUS
        <2>2. a <= b
            BY ONLY <1>1, <1>6, <2>1, i \in 1..(keep + 1), j \in 1..(keep + 1)
        <2>3. a \in DOMAIN all /\ b \in DOMAIN all /\ more[i] = all[a] /\ more[j] = all[b]
            BY <1>1, <1>3, <2>1
        <2>4. all[a].at <= all[b].at
            BY <1>4, <2>2, <2>3, Zenon DEF Accounts
        <2> QED
            BY <2>3, <2>4
    <1>7. ASSUME NEW i \in 1..(keep + 1)
          PROVE  /\ more[i].at <= till
                 /\ \A t \in (more[i].at + 1)..EndOf(more, i, till) : past[t] = more[i].why
        <2>1. more[i] = all[d + i] /\ d + i \in DOMAIN all
            BY <1>1, <1>3
        <2> QED
            BY <1>4, <1>5, <2>1, Zenon DEF Accounts
    <1> QED
        BY <1>3, <1>6, <1>7 DEF Accounts, n, newest, more

\* A moment passes.
LEMMA AccountsGrow ==
    ASSUME NEW till \in Nat, NEW lines \in Seq(LogLines), NEW past \in Seq(Decisions), NEW cut,
           Accounts(lines, till, past, cut), Len(past) = till,
           NEW d \in Decisions, d = IF lines = <<>> THEN Ran ELSE lines[Len(lines)].why
    PROVE  Accounts(lines, till + 1, Append(past, d), cut)
    <1> DEFINE n == Len(lines)
               more == Append(past, d)
    <1>1. /\ more[till + 1] = d /\ \A t \in 1..till : more[t] = past[t]
          /\ n \in Nat /\ DOMAIN lines = 1..n
        OBVIOUS
    <1>2. ASSUME NEW i \in DOMAIN lines
          PROVE  /\ lines[i].at <= till + 1
                 /\ \A t \in (lines[i].at + 1)..EndOf(lines, i, till + 1) : more[t] = lines[i].why
        <2>1. /\ EndOf(lines, i, till) \in Nat /\ lines[i].at \in Nat
              /\ lines[i].at <= EndOf(lines, i, till) /\ EndOf(lines, i, till) <= till
            BY EndsInTime
        <2>2. \A t \in (lines[i].at + 1)..EndOf(lines, i, till) : past[t] = lines[i].why
            BY DEF Accounts
        <2> HIDE DEF more
        <2>3. \A t \in (lines[i].at + 1)..EndOf(lines, i, till) : more[t] = lines[i].why
            <3> SUFFICES ASSUME NEW t \in (lines[i].at + 1)..EndOf(lines, i, till)
                         PROVE  more[t] = lines[i].why
                OBVIOUS
            <3>1. t \in 1..till
                BY <2>1
            <3> QED
                BY <1>1, <2>2, <3>1
        <2>4. CASE i = n
            <3>1. /\ EndOf(lines, i, till) = till /\ EndOf(lines, i, till + 1) = till + 1
                  /\ d = lines[i].why
                BY <1>1, <2>4 DEF EndOf
            <3> SUFFICES ASSUME NEW t \in (lines[i].at + 1)..(till + 1)
                         PROVE  more[t] = lines[i].why
                BY <2>1, <3>1
            <3>2. CASE t = till + 1
                BY <1>1, <3>1, <3>2
            <3>3. CASE t # till + 1
                <4>1. t \in (lines[i].at + 1)..EndOf(lines, i, till)
                    BY <2>1, <3>1, <3>3
                <4> QED
                    BY <2>3, <4>1
            <3> QED
                BY <3>2, <3>3
        <2>5. CASE i # n
            <3>1. EndOf(lines, i, till + 1) = EndOf(lines, i, till)
                BY <2>5 DEF EndOf
            <3> QED
                BY <2>1, <2>3, <3>1
        <2> QED
            BY <2>4, <2>5
    <1>3. cut \/ \A t \in 1..(IF lines = <<>> THEN till + 1 ELSE lines[1].at) : more[t] = Ran
        <2> SUFFICES ASSUME ~cut
                     PROVE  \A t \in 1..(IF lines = <<>> THEN till + 1 ELSE lines[1].at) :
                                more[t] = Ran
            OBVIOUS
        <2>1. \A t \in 1..(IF lines = <<>> THEN till ELSE lines[1].at) : past[t] = Ran
            BY Zenon DEF Accounts
        <2> HIDE DEF more
        <2>2. CASE lines = <<>>
            <3>1. \A t \in 1..till : past[t] = Ran
                BY <2>1, <2>2
            <3>2. d = Ran
                BY <2>2
            <3> QED
                BY <1>1, <2>2, <3>1, <3>2
        <2>3. CASE lines # <<>>
            <3>1. lines[1].at \in Nat /\ lines[1].at <= till
                <4>1. 1 \in DOMAIN lines
                    BY <2>3
                <4> QED
                    BY <4>1, LinesHaveTimes DEF Accounts
            <3>2. \A t \in 1..lines[1].at : past[t] = Ran /\ t \in 1..till
                BY <2>1, <2>3, <3>1
            <3> QED
                BY <1>1, <2>3, <3>2
        <2> QED
            BY <2>2, <2>3
    <1>4. \A i, j \in DOMAIN lines : i <= j => lines[i].at <= lines[j].at
        BY DEF Accounts
    <1> HIDE DEF more
    <1> QED
        BY <1>2, <1>3, <1>4, Zenon DEF Accounts, more

LineOf(n) == [at |-> note[n].entry[1], why |-> note[n].entry[2]]

\* As long as no noting crossed another or broke, the log accounts for the past,
\* or will when the decision that is being noted is in it.
LogAccounts ==
    /\ was \in Seq(Decisions) /\ Len(was) = clock /\ latest \in Decisions
    /\ doubt => muddled
    /\ ~muddled =>
          /\ Noting = {} => Accounts(log, clock, was, trimmed) /\ (trimmed => log # <<>>)
          /\ \A n \in Noting : /\ Accounts(Append(log, LineOf(n)), clock, was, trimmed)
                               /\ note[n].step = "trim" => note[n].lines = log

TimeInv == TickLogInv /\ LogAccounts

\* While it does, no two decisions are being noted.
LEMMA OneNoting ==
    ASSUME TimeInv, ~muddled, NEW n \in Noting
    PROVE  /\ Noting = {n} /\ note[n].entry[2] = latest
           /\ note[n].step \in {"trim", "append"} /\ LineOf(n) \in LogLines
           /\ note[n].step = "trim" => note[n].lines = log /\ Len(log) >= MaxLines
           /\ Accounts(Append(log, LineOf(n)), clock, was, trimmed)
    <1>1. n \in Noters /\ note[n] # NotNoting /\ note[n] \in Notes
        BY DEF TimeInv, TickLogInv, LogTyped, Noting
    <1>2. note[n].step \in {"trim", "append"} /\ note[n].entry \in Nat \X Decisions
        BY <1>1 DEF TimeInv, TickLogInv, LogTyped, Notes
    <1>3. LineOf(n) \in LogLines
        BY <1>2 DEF LineOf, LogLines
    <1>4. ~doubt
        BY DEF TimeInv, LogAccounts
    <1>5. Noting = {n} /\ note[n].entry[2] = latest
        BY <1>4 DEF TimeInv, TickLogInv, NotedIsTheLast
    <1>6. /\ Accounts(Append(log, LineOf(n)), clock, was, trimmed)
          /\ note[n].step = "trim" => note[n].lines = log
        BY DEF TimeInv, LogAccounts
    <1>7. note[n].step = "trim" => Len(note[n].lines) >= MaxLines
        BY <1>1 DEF TimeInv, TickLogInv, LogTyped
    <1> QED
        BY <1>2, <1>3, <1>5, <1>6, <1>7

LEMMA LogAccountsStep ==
    ASSUME TimeInv, [TickLogNext]_tickLogVars
    PROVE  LogAccounts'
    <1>1. /\ was \in Seq(Decisions) /\ Len(was) = clock /\ latest \in Decisions
          /\ doubt => muddled
          /\ clock \in Nat /\ log \in Seq(LogLines) /\ note \in [Noters -> Notes]
        BY DEF TimeInv, TickLogInv, LogTyped, LogAccounts
    <1>2. ~muddled /\ Noting = {} => /\ Accounts(log, clock, was, trimmed)
                                     /\ trimmed => log # <<>>
        BY DEF TimeInv, LogAccounts
    <1>3. ASSUME NEW n \in Noters, NEW d \in Decisions, ReadLog(n, d)
          PROVE  LogAccounts'
        <2>1. /\ note[n] = NotNoting /\ latest' = d /\ (doubt' <=> Noting # {})
              /\ muddled' <=> muddled \/ Noting # {}
              /\ UNCHANGED <<clock, log, trimmed, was>>
            BY <1>3 DEF ReadLog
        <2>2. CASE Repeats(d)
            <3>1. note' = note
                BY <1>3, <2>2 DEF ReadLog
            <3>2. Noting' = Noting
                BY <3>1 DEF Noting
            <3> QED
                BY <1>1, <1>2, <2>1, <3>2 DEF LogAccounts
        <2>3. CASE ~ Repeats(d)
            <3> DEFINE line == [at |-> clock, why |-> d]
            <3>1. /\ note'[n].entry = <<clock, d>> /\ note'[n].step \in {"trim", "append"}
                  /\ note'[n].step = "trim" => note'[n].lines = log
                  /\ \A m \in Noters \ {n} : note'[m] = note[m]
                BY <1>1, <1>3, <2>3 DEF ReadLog
            <3>2. LineOf(n)' = line /\ line \in LogLines /\ line.at = clock
                BY <1>1, <3>1 DEF LineOf, LogLines
            <3> HIDE DEF line
            <3>3. note'[n] # NotNoting
                BY <3>1 DEF NotNoting
            <3>4. Noting' = Noting \cup {n}
                BY <3>1, <3>3 DEF Noting
            <3>5. CASE muddled'
                BY <1>1, <2>1, <3>5 DEF LogAccounts
            <3>6. CASE ~muddled'
                <4>1. Accounts(Append(log, line), clock, was, trimmed)
                    BY <1>1, <1>2, <2>1, <3>2, <3>6, AccountsAppended
                <4>2. Noting' = {n}
                    BY <2>1, <3>4, <3>6
                <4>3. Accounts(Append(log', line), clock', was', trimmed')
                    BY <2>1, <4>1
                <4> QED
                    BY <1>1, <2>1, <3>1, <3>2, <4>2, <4>3 DEF LogAccounts
            <3> QED
                BY <3>5, <3>6
        <2> QED
            BY <2>2, <2>3
    <1>4. ASSUME NEW n \in Noters, Trim(n)
          PROVE  LogAccounts'
        <2>1. /\ note[n].step = "trim" /\ trimmed' = TRUE
              /\ log' = SubSeq(note[n].lines, Len(note[n].lines) - KeepLines + 1,
                               Len(note[n].lines))
              /\ UNCHANGED <<clock, was, latest, doubt, muddled>>
            BY <1>4 DEF Trim
        <2>2. /\ note'[n].step = "append" /\ note'[n].entry = note[n].entry
              /\ \A m \in Noters \ {n} : note'[m] = note[m]
            <3>1. note' = [note EXCEPT ![n] = [note[n] EXCEPT !.step = "append", !.lines = <<>>]]
                BY <1>1, <1>4 DEF Trim
            <3> QED
                BY <1>1, <3>1 DEF Notes
        <2>3. n \in Noting
            BY <2>1 DEF Noting, NotNoting
        <2>4. Noting' = Noting
            BY <2>2, <2>3 DEF Noting, NotNoting
        <2>5. CASE muddled
            BY <1>1, <2>1, <2>5 DEF LogAccounts
        <2>6. CASE ~muddled
            <3>1. /\ Noting = {n} /\ LineOf(n) \in LogLines /\ note[n].lines = log
                  /\ Len(log) >= MaxLines
                  /\ Accounts(Append(log, LineOf(n)), clock, was, trimmed)
                BY <2>1, <2>3, <2>6, OneNoting
            <3>2. LineOf(n)' = LineOf(n)
                BY <2>2 DEF LineOf
            <3>3. KeepLines \in 0..Len(log)
                BY <1>1, <3>1, TickLogAssumption
            <3>4. PICK line \in LogLines : line = LineOf(n)
                BY <3>1
            <3>5. Accounts(Append(SubSeq(log, Len(log) - KeepLines + 1, Len(log)), line),
                           clock, was, TRUE)
                BY <1>1, <3>1, <3>3, <3>4, AccountsTrimmed
            <3>6. Accounts(Append(log', LineOf(n)'), clock', was', trimmed')
                BY <2>1, <3>1, <3>2, <3>4, <3>5
            <3> QED
                BY <1>1, <2>1, <2>2, <2>3, <2>4, <3>1, <3>6 DEF LogAccounts
        <2> QED
            BY <2>5, <2>6
    <1>5. ASSUME NEW n \in Noters, AppendLine(n)
          PROVE  LogAccounts'
        <2>1. /\ note[n].step = "append" /\ log' = Append(log, LineOf(n))
              /\ note'[n] = NotNoting /\ \A m \in Noters \ {n} : note'[m] = note[m]
              /\ UNCHANGED <<clock, trimmed, was, latest, doubt, muddled>>
            BY <1>1, <1>5 DEF AppendLine, LineOf
        <2>2. n \in Noting /\ Noting' = Noting \ {n}
            BY <2>1 DEF Noting, NotNoting
        <2>3. CASE muddled
            BY <1>1, <2>1, <2>3 DEF LogAccounts
        <2>4. CASE ~muddled
            <3>1. /\ Noting = {n} /\ LineOf(n) \in LogLines
                  /\ Accounts(Append(log, LineOf(n)), clock, was, trimmed)
                BY <2>2, <2>4, OneNoting
            <3>2. PICK line \in LogLines : line = LineOf(n)
                BY <3>1
            <3>3. log' # <<>>
                BY <1>1, <2>1, <3>2
            <3>4. Accounts(log', clock', was', trimmed')
                BY <2>1, <3>1
            <3> QED
                BY <1>1, <2>1, <2>2, <3>1, <3>3, <3>4 DEF LogAccounts
        <2> QED
            BY <2>3, <2>4
    <1>6. CASE NotingBreaks
        BY <1>1, <1>6 DEF NotingBreaks, LogAccounts
    <1>7. CASE TimePasses
        <2>1. /\ clock' = clock + 1 /\ was' = Append(was, latest)
              /\ UNCHANGED <<log, note, trimmed, latest, doubt, muddled>>
            BY <1>7 DEF TimePasses
        <2>2. was' \in Seq(Decisions) /\ Len(was') = clock'
            BY <1>1, <2>1
        <2>3. Noting' = Noting
            BY <2>1 DEF Noting
        <2>4. CASE muddled
            BY <1>1, <2>1, <2>2, <2>4 DEF LogAccounts
        <2>5. CASE ~muddled /\ Noting = {}
            <3>1. latest = IF log = <<>> THEN Ran ELSE log[Len(log)].why
                BY <1>1, <2>5, Zenon DEF TimeInv, TickLogInv, NewestIsTheLast
            <3>2. Accounts(log, clock + 1, Append(was, latest), trimmed)
                BY <1>1, <1>2, <2>5, <3>1, AccountsGrow
            <3>3. Accounts(log', clock', was', trimmed')
                BY <2>1, <3>2
            <3> QED
                BY <1>1, <1>2, <2>1, <2>2, <2>3, <2>5, <3>3 DEF LogAccounts
        <2>6. ASSUME NEW n \in Noting, ~muddled
              PROVE  LogAccounts'
            <3>1. /\ Noting = {n} /\ LineOf(n) \in LogLines /\ note[n].entry[2] = latest
                  /\ note[n].step = "trim" => note[n].lines = log
                  /\ Accounts(Append(log, LineOf(n)), clock, was, trimmed)
                BY <2>6, OneNoting
            <3>2. PICK line \in LogLines : line = LineOf(n)
                BY <3>1
            <3>3. PICK lines \in Seq(LogLines) : lines = Append(log, line)
                <4>1. Append(log, line) \in Seq(LogLines)
                    BY <1>1
                <4> QED
                    BY <4>1, Zenon
            <3>4. lines # <<>> /\ lines[Len(lines)] = line
                BY <1>1, <3>3
            <3>5. line.why = latest
                BY <3>1, <3>2 DEF LineOf
            <3>6. latest = IF lines = <<>> THEN Ran ELSE lines[Len(lines)].why
                BY <3>4, <3>5
            <3>7. Accounts(lines, clock, was, trimmed)
                BY <3>1, <3>2, <3>3
            <3>8. Accounts(lines, clock + 1, Append(was, latest), trimmed)
                BY <1>1, <3>6, <3>7, AccountsGrow
            <3>9. LineOf(n)' = line
                BY <2>1, <3>2 DEF LineOf
            <3>10. Accounts(Append(log', LineOf(n)'), clock', was', trimmed')
                BY <2>1, <3>3, <3>8, <3>9
            <3> QED
                BY <1>1, <2>1, <2>2, <2>3, <3>1, <3>10 DEF LogAccounts
        <2> QED
            BY <2>4, <2>5, <2>6
    <1>8. CASE UNCHANGED tickLogVars
        <2>1. UNCHANGED <<clock, log, note, trimmed, was, latest, doubt, muddled>>
            BY <1>8 DEF tickLogVars
        <2>2. Noting' = Noting /\ \A n \in Noting : LineOf(n)' = LineOf(n)
            BY <2>1 DEF Noting, LineOf
        <2> QED
            BY <2>1, <2>2 DEF TimeInv, LogAccounts
    <1> QED
        BY <1>3, <1>4, <1>5, <1>6, <1>7, <1>8 DEF TickLogNext

\* The newest line of the why-not log is what the last tick decided, unless the
\* noting of it crossed another or was cut off, and, as long as none ever did, the
\* time each reason held pu up is the time time_in adds up for it (note_tick,
\* control.py; time_in, stats.py): however long the log, and however it was cut.
THEOREM TimesAddUp ==
    TickLogInit /\ [][TickLogNext]_tickLogVars => []LogTellsWhy
    <1>1. TickLogInit => TimeInv
        <2> SUFFICES ASSUME TickLogInit
                     PROVE  TimeInv
            OBVIOUS
        <2>1. NotNoting \in Notes /\ NotNoting.step = "idle" /\ <<>> \in Seq(LogLines)
            BY DEF NotNoting, Notes
        <2>2. TickLogInv
            BY <2>1 DEF TickLogInit, TickLogInv, LogTyped, NotedIsTheLast, NewestIsTheLast, Noting
        <2>3. Accounts(<<>>, 0, <<>>, FALSE)
            BY DEF Accounts
        <2>4. was \in Seq(Decisions) /\ Len(was) = clock /\ latest \in Decisions
            BY DEF TickLogInit, Decisions
        <2>5. Noting = {}
            BY DEF TickLogInit, Noting
        <2>6. Accounts(log, clock, was, trimmed)
            BY <2>3, Zenon DEF TickLogInit
        <2>7. LogAccounts
            BY <2>4, <2>5, <2>6 DEF TickLogInit, LogAccounts
        <2> QED
            BY <2>2, <2>7 DEF TimeInv
    <1>2. TimeInv /\ [TickLogNext]_tickLogVars => TimeInv'
        BY TickLogStep, LogAccountsStep DEF TimeInv
    <1>3. TimeInv => LogTellsWhy
        <2> SUFFICES ASSUME TimeInv, Noting = {}, ~muddled,
                            NEW reason \in Reasons, NEW since \in 0..clock
                     PROVE  /\ TimeIn(reason, since) <= HeldUp(reason, since)
                            /\ ~trimmed \/ since >= log[1].at
                                   => TimeIn(reason, since) = HeldUp(reason, since)
            BY DEF TimeInv, TickLogInv, LogTellsWhy
        <2>1. /\ clock \in Nat /\ log \in Seq(LogLines) /\ (trimmed => log # <<>>)
              /\ Accounts(log, clock, was, trimmed) /\ Ran \notin Reasons
            BY TickLogAssumption DEF TimeInv, TickLogInv, LogTyped, LogAccounts
        <2> QED
            BY <2>1, TimeInTells
    <1> QED
        BY <1>1, <1>2, <1>3, PTL

-----------------------------------------------------------------------------
(* Throughput: what is running when the edges of a moment have been met.    *)

\* What the sweep carries, and what it begins with.
Acc == [running : Int, peak : Int]
None == [running |-> 0, peak |-> 0]

EdgeSpace == Nat \X {1, -1} \X Nat

\* In any set of edges one is met last.
LEMMA OneIsLast ==
    ASSUME NEW E \in SUBSET EdgeSpace, IsFiniteSet(E)
    PROVE  \A s \in SUBSET E : s # {} => /\ LastMet(s) \in s
                                        /\ \A f \in s : EndsFirst(f, LastMet(s))
    <1> DEFINE Has(s) == s # {} => \E e \in s : \A f \in s : EndsFirst(f, e)
    <1>1. PICK T : T = {s \in SUBSET E : Has(s)}
        OBVIOUS
    <1>2. \A s \in SUBSET E : (\A x \in s : s \ {x} \in T) => s \in T
        <2> SUFFICES ASSUME NEW s \in SUBSET E, \A x \in s : s \ {x} \in T, NEW x \in s
                     PROVE  \E e \in s : \A f \in s : EndsFirst(f, e)
            BY <1>1
        <2>1. x \in EdgeSpace /\ x[1] \in Nat /\ x[2] \in {1, -1}
            BY DEF EdgeSpace
        <2>2. EndsFirst(x, x)
            BY <2>1 DEF EndsFirst
        <2>3. CASE s = {x}
            BY <2>2, <2>3
        <2>4. CASE s # {x}
            <3>1. PICK e \in s \ {x} : \A f \in s \ {x} : EndsFirst(f, e)
                BY <1>1, <2>4
            <3>2. e[1] \in Nat /\ e[2] \in {1, -1}
                BY DEF EdgeSpace
            <3>3. CASE EndsFirst(x, e)
                BY <3>1, <3>3
            <3>4. CASE ~EndsFirst(x, e)
                <4>1. EndsFirst(e, x)
                    BY <2>1, <3>2, <3>4 DEF EndsFirst
                <4>2. ASSUME NEW f \in s \ {x}
                      PROVE  EndsFirst(f, x)
                    <5>1. f[1] \in Nat /\ f[2] \in {1, -1}
                        BY DEF EdgeSpace
                    <5>2. EndsFirst(f, e)
                        BY <3>1
                    <5> QED
                        BY <2>1, <3>2, <4>1, <5>1, <5>2 DEF EndsFirst
                <4> QED
                    BY <2>2, <4>2
            <3> QED
                BY <3>3, <3>4
        <2> QED
            BY <2>3, <2>4
    <1>3. \A s \in SUBSET E : s \in T
        BY ONLY IsFiniteSet(E), <1>2, AllSubsets
    <1>4. \A s \in SUBSET E : Has(s)
        BY <1>1, <1>3
    <1> QED
        BY <1>4 DEF LastMet

\* The fold of the sweep, as MapThenFoldSet unfolds.
Swept(g, E) == [s \in SUBSET E |->
                   IF s = {} THEN None
                   ELSE LET x == LastMet(s) IN MeetEdge(x, g[s \ {x}])]
Sweeping(E) == CHOOSE g : g = Swept(g, E)

\* The peak is that fold's, over all the edges.
LEMMA PeakIsSwept ==
    PeakSimultaneous = Sweeping(Edges)[Edges].peak
    BY DEF PeakSimultaneous, MapThenFoldSet, Sweeping, Swept, None

\* What it is for each set of edges.
LEMMA SweepTakesLast ==
    ASSUME NEW E \in SUBSET EdgeSpace, IsFiniteSet(E)
    PROVE  \A s \in SUBSET E :
              /\ Sweeping(E)[s] \in Acc
              /\ s = {} => Sweeping(E)[s] = None
              /\ s # {} => Sweeping(E)[s] = MeetEdge(LastMet(s), Sweeping(E)[s \ {LastMet(s)}])
    <1> DEFINE pick == [s \in SUBSET E |-> LastMet(s)]
               take == [p \in E \X Acc |-> MeetEdge(p[1], p[2])]
    <1>1. \A s \in SUBSET E : /\ pick[s] = LastMet(s)
                              /\ s # {} => pick[s] \in s
        BY OneIsLast
    <1>2. \A x \in E, a \in Acc : /\ MeetEdge(x, a) \in Acc
                                  /\ take[<<x, a>>] = MeetEdge(x, a)
        <2>1. \A x \in E : x[2] \in Int
            BY DEF EdgeSpace
        <2>2. \A x \in E, a \in Acc : MeetEdge(x, a) \in Acc
            BY <2>1 DEF MeetEdge, Acc
        <2> QED
            BY <2>2
    <1>3. take \in [E \X Acc -> Acc]
        BY <1>2
    <1>4. None \in Acc
        BY DEF None, Acc
    <1> HIDE DEF pick, take
    <1>5. Foldable(E, Acc, None, pick, take)
        BY <1>1, <1>3, <1>4 DEF Foldable
    <1>6. PICK g : IsFold(g, E, Acc, None, pick, take)
        BY <1>5, FoldExists
    <1>7. ASSUME NEW s \in SUBSET E
          PROVE  g[s] = Swept(g, E)[s]
        <2>1. CASE s = {}
            BY <1>6, <2>1 DEF IsFold, Swept
        <2>2. CASE s # {}
            <3>1. PICK x \in s : x = LastMet(s) /\ x = pick[s]
                BY <1>1, <2>2
            <3>2. g[s \ {x}] \in Acc
                BY <1>6 DEF IsFold
            <3>3. g[s] = take[<<x, g[s \ {x}]>>]
                BY <1>6, <2>2, <3>1 DEF IsFold
            <3>4. g[s] = MeetEdge(x, g[s \ {x}])
                BY <1>2, <3>2, <3>3
            <3>5. Swept(g, E)[s] = MeetEdge(x, g[s \ {x}])
                BY <2>2, <3>1 DEF Swept
            <3> QED
                BY <3>4, <3>5
        <2> QED
            BY <2>1, <2>2
    <1>8. g = Swept(g, E)
        BY <1>6, <1>7 DEF Swept, IsFold
    <1>9. PICK f : f = Sweeping(E) /\ f = Swept(f, E)
        BY <1>8 DEF Sweeping
    <1>10. ASSUME NEW s \in SUBSET E
           PROVE  /\ s = {} => f[s] = None
                  /\ s # {} => f[s] = MeetEdge(LastMet(s), f[s \ {LastMet(s)}])
        <2>1. f[s] = Swept(f, E)[s]
            BY <1>9, Zenon
        <2> QED
            BY <2>1 DEF Swept
    <1>11. PICK T : T = {s \in SUBSET E : f[s] \in Acc}
        OBVIOUS
    <1>12. \A s \in SUBSET E : (\A x \in s : s \ {x} \in T) => s \in T
        <2> SUFFICES ASSUME NEW s \in SUBSET E, \A x \in s : s \ {x} \in T
                     PROVE  f[s] \in Acc
            BY <1>11
        <2>1. CASE s = {}
            BY <1>4, <1>10, <2>1
        <2>2. CASE s # {}
            <3>1. PICK x \in s : x = LastMet(s)
                BY <1>1, <2>2
            <3>2. f[s \ {x}] \in Acc
                BY <1>11
            <3> QED
                BY <1>2, <1>10, <2>2, <3>1, <3>2
        <2> QED
            BY <2>1, <2>2
    <1>13. \A s \in SUBSET E : s \in T
        BY ONLY IsFiniteSet(E), <1>12, AllSubsets
    <1> QED
        BY <1>9, <1>10, <1>11, <1>13

\* The starts and the ends among the edges met, and those met by a moment.
Starts(s) == {e \in s : e[2] = 1}
Ends(s) == {e \in s : e[2] = -1}
MetBy(s, t) == {e \in s : e[1] <= t}

\* However many were met, those running are the starts less the ends.
LEMMA RunningIsTheDifference ==
    ASSUME NEW E \in SUBSET EdgeSpace, IsFiniteSet(E)
    PROVE  \A s \in SUBSET E :
              /\ Cardinality(Starts(s)) \in Nat /\ Cardinality(Ends(s)) \in Nat
              /\ Sweeping(E)[s].running = Cardinality(Starts(s)) - Cardinality(Ends(s))
    <1> DEFINE Right(s) == Sweeping(E)[s].running = Cardinality(Starts(s)) - Cardinality(Ends(s))
    <1>1. \A s \in SUBSET E : /\ IsFiniteSet(Starts(s)) /\ IsFiniteSet(Ends(s))
                              /\ Cardinality(Starts(s)) \in Nat /\ Cardinality(Ends(s)) \in Nat
        <2>1. \A s \in SUBSET E : Starts(s) \in SUBSET E /\ Ends(s) \in SUBSET E
            BY DEF Starts, Ends
        <2> QED
            BY <2>1, FS_Subset, FS_CardinalityType
    <1>2. PICK T : T = {s \in SUBSET E : Right(s)}
        OBVIOUS
    <1>3. \A s \in SUBSET E : (\A x \in s : s \ {x} \in T) => s \in T
        <2> SUFFICES ASSUME NEW s \in SUBSET E, \A x \in s : s \ {x} \in T
                     PROVE  Right(s)
            BY <1>2
        <2>1. CASE s = {}
            <3>1. Starts(s) = {} /\ Ends(s) = {}
                BY <2>1 DEF Starts, Ends
            <3>2. Sweeping(E)[s].running = 0
                <4>1. Sweeping(E)[s] = None
                    BY <2>1, SweepTakesLast
                <4> QED
                    BY <4>1 DEF None
            <3> QED
                BY <3>1, <3>2, FS_EmptySet
        <2>2. CASE s # {}
            <3>1. PICK x \in s : x = LastMet(s)
                BY <2>2, OneIsLast
            <3> DEFINE r == s \ {x}
            <3>2. /\ Sweeping(E)[s] = MeetEdge(x, Sweeping(E)[r]) /\ Sweeping(E)[r] \in Acc
                  /\ Right(r)
                BY <1>2, <2>2, <3>1, SweepTakesLast
            <3>3. Sweeping(E)[s].running = Sweeping(E)[r].running + x[2]
                BY <3>2 DEF MeetEdge
            <3>4. x[2] \in {1, -1}
                BY DEF EdgeSpace
            <3>5. CASE x[2] = 1
                <4>1. Ends(s) = Ends(r) /\ Starts(r) = Starts(s) \ {x} /\ x \in Starts(s)
                    BY <3>5 DEF Starts, Ends
                <4>2. Cardinality(Starts(r)) = Cardinality(Starts(s)) - 1
                    <5>1. IsFiniteSet(Starts(s))
                        BY <1>1
                    <5> QED
                        BY ONLY <4>1, <5>1, FS_RemoveElement
                <4> QED
                    BY <1>1, <3>2, <3>3, <3>5, <4>1, <4>2
            <3>6. CASE x[2] = -1
                <4>1. Starts(s) = Starts(r) /\ Ends(r) = Ends(s) \ {x} /\ x \in Ends(s)
                    BY <3>6 DEF Starts, Ends
                <4>2. Cardinality(Ends(r)) = Cardinality(Ends(s)) - 1
                    <5>1. IsFiniteSet(Ends(s))
                        BY <1>1
                    <5> QED
                        BY ONLY <4>1, <5>1, FS_RemoveElement
                <4> QED
                    BY <1>1, <3>2, <3>3, <3>6, <4>1, <4>2
            <3> QED
                BY <3>4, <3>5, <3>6
        <2> QED
            BY <2>1, <2>2
    <1>4. \A s \in SUBSET E : s \in T
        BY ONLY IsFiniteSet(E), <1>3, AllSubsets
    <1> QED
        BY <1>1, <1>2, <1>4

\* Before the last edge's moment there are no fewer running than before it, if it
\* is an end: only ends have been met since.
LEMMA EndsComeFirst ==
    ASSUME NEW E \in SUBSET EdgeSpace, IsFiniteSet(E), NEW s \in SUBSET E,
           NEW x \in s, \A f \in s : EndsFirst(f, x), x[2] = -1
    PROVE  Sweeping(E)[MetBy(s, x[1] - 1)].running >= Sweeping(E)[s \ {x}].running
    <1> DEFINE p == MetBy(s, x[1] - 1)
               r == s \ {x}
    <1>1. \A e \in s : e[1] \in Nat /\ e[2] \in {1, -1}
        BY DEF EdgeSpace
    <1>2. p \in SUBSET E /\ r \in SUBSET E
        BY DEF MetBy
    <1>3. p \subseteq r
        BY <1>1 DEF MetBy
    <1>4. Starts(p) = Starts(r)
        <2>1. \A f \in s : f[2] = 1 => f[1] <= x[1] - 1
            BY <1>1 DEF EndsFirst
        <2> QED
            BY <1>3, <2>1 DEF Starts, MetBy
    <1>5. Ends(p) \subseteq Ends(r) /\ Ends(r) \in SUBSET E
        BY <1>2, <1>3 DEF Ends
    <1>6. Cardinality(Ends(p)) <= Cardinality(Ends(r))
        <2>1. IsFiniteSet(Ends(r))
            BY <1>5, FS_Subset
        <2> QED
            BY <1>5, <2>1, FS_Subset
    <1> HIDE DEF p, r
    <1>7. /\ Cardinality(Starts(p)) \in Nat /\ Cardinality(Ends(p)) \in Nat
          /\ Sweeping(E)[p].running = Cardinality(Starts(p)) - Cardinality(Ends(p))
          /\ Cardinality(Starts(r)) \in Nat /\ Cardinality(Ends(r)) \in Nat
          /\ Sweeping(E)[r].running = Cardinality(Starts(r)) - Cardinality(Ends(r))
        BY <1>2, RunningIsTheDifference
    <1>8. Sweeping(E)[p].running >= Sweeping(E)[r].running
        BY ONLY <1>4, <1>6, <1>7
    <1> QED
        BY <1>8 DEF p, r

\* The peak is never below what runs when all the edges of some moment and those
\* before it were met, and is that for one moment, or for none of them.
LEMMA PeakIsOfAMoment ==
    ASSUME NEW E \in SUBSET EdgeSpace, IsFiniteSet(E),
           NEW horizon \in Nat, \A e \in E : e[1] <= horizon
    PROVE  \A s \in SUBSET E :
              /\ \A t \in Int : Sweeping(E)[s].peak >= Sweeping(E)[MetBy(s, t)].running
              /\ \E t \in -1..horizon : Sweeping(E)[s].peak = Sweeping(E)[MetBy(s, t)].running
    <1> DEFINE Run(s) == Sweeping(E)[s].running
               Peak(s) == Sweeping(E)[s].peak
               Right(s) == /\ \A t \in Int : Peak(s) >= Run(MetBy(s, t))
                           /\ \E t \in -1..horizon : Peak(s) = Run(MetBy(s, t))
    <1>1. \A e \in E : e[1] \in Nat /\ e[2] \in {1, -1}
        BY DEF EdgeSpace
    <1>2. \A s \in SUBSET E : Run(s) \in Int /\ Peak(s) \in Int
        BY SweepTakesLast DEF Acc
    <1>3. PICK T : T = {s \in SUBSET E : Right(s)}
        OBVIOUS
    <1>4. \A s \in SUBSET E : (\A x \in s : s \ {x} \in T) => s \in T
        <2> SUFFICES ASSUME NEW s \in SUBSET E, \A x \in s : s \ {x} \in T
                     PROVE  Right(s)
            BY <1>3
        <2>1. CASE s = {}
            <3>1. \A t \in Int : MetBy(s, t) = s
                BY <2>1 DEF MetBy
            <3>2. Run(s) = 0 /\ Peak(s) = 0
                <4>1. Sweeping(E)[s] = None
                    BY <2>1, SweepTakesLast
                <4> QED
                    BY <4>1 DEF None
            <3>3. -1 \in -1..horizon /\ -1 \in Int
                OBVIOUS
            <3> QED
                BY <3>1, <3>2, <3>3
        <2>2. CASE s # {}
            <3>1. PICK x \in s : x = LastMet(s) /\ \A f \in s : EndsFirst(f, x)
                BY <2>2, OneIsLast
            <3> DEFINE r == s \ {x}
            <3>2. /\ Sweeping(E)[s] = MeetEdge(x, Sweeping(E)[r])
                  /\ r \in SUBSET E /\ Right(r)
                BY <1>3, <2>2, <3>1, SweepTakesLast
            <3>3. /\ Run(s) = Run(r) + x[2]
                  /\ Peak(s) = IF Run(s) > Peak(r) THEN Run(s) ELSE Peak(r)
                BY <3>2 DEF MeetEdge
            <3>4. x[1] \in Nat /\ x[1] <= horizon /\ x[2] \in {1, -1}
                BY <1>1
            <3>5. Run(s) \in Int /\ Run(r) \in Int /\ Peak(s) \in Int /\ Peak(r) \in Int
                BY <1>2, <3>2
            <3>6. \A f \in s : f[1] \in Nat /\ f[1] <= x[1]
                BY <1>1, <3>1, <3>4 DEF EndsFirst
            <3>7. \A t \in Int : IF x[1] <= t THEN MetBy(s, t) = s /\ MetBy(r, t) = r
                                              ELSE MetBy(s, t) = MetBy(r, t)
                <4> SUFFICES ASSUME NEW t \in Int
                             PROVE  IF x[1] <= t THEN MetBy(s, t) = s /\ MetBy(r, t) = r
                                                 ELSE MetBy(s, t) = MetBy(r, t)
                    OBVIOUS
                <4>1. CASE x[1] <= t
                    <5>1. \A f \in s : f[1] <= t
                        BY <3>4, <3>6, <4>1
                    <5> QED
                        BY <4>1, <5>1 DEF MetBy
                <4>2. CASE ~ (x[1] <= t)
                    BY <4>2 DEF MetBy
                <4> QED
                    BY <4>1, <4>2
            <3>8. ASSUME NEW t \in Int
                  PROVE  Peak(s) >= Run(MetBy(s, t))
                <4>1. CASE x[1] <= t
                    <5>1. MetBy(s, t) = s
                        BY <3>7, <4>1
                    <5> QED
                        BY <3>3, <3>5, <5>1
                <4>2. CASE ~ (x[1] <= t)
                    <5>1. MetBy(s, t) = MetBy(r, t) /\ Peak(r) >= Run(MetBy(r, t))
                        BY <3>2, <3>7, <4>2
                    <5>2. Run(MetBy(r, t)) \in Int
                        <6>1. MetBy(r, t) \in SUBSET E
                            BY DEF MetBy
                        <6> QED
                            BY <1>2, <6>1
                    <5> QED
                        BY <3>3, <3>5, <5>1, <5>2
                <4> QED
                    BY <4>1, <4>2
            <3>9. \E t \in -1..horizon : Peak(s) = Run(MetBy(s, t))
                <4>1. CASE Run(s) > Peak(r)
                    <5>1. x[1] \in -1..horizon /\ x[1] \in Int /\ x[1] <= x[1]
                        BY <3>4
                    <5>2. MetBy(s, x[1]) = s
                        BY <3>7, <5>1
                    <5> QED
                        BY <3>3, <4>1, <5>1, <5>2
                <4>2. CASE ~ (Run(s) > Peak(r))
                    <5>1. Peak(s) = Peak(r)
                        BY <3>3, <4>2
                    <5>2. PICK t \in -1..horizon : Peak(r) = Run(MetBy(r, t))
                        BY <3>2
                    <5>5. IF x[1] <= t THEN MetBy(s, t) = s /\ MetBy(r, t) = r
                                       ELSE MetBy(s, t) = MetBy(r, t)
                        <6>1. t \in Int
                            OBVIOUS
                        <6> QED
                            BY <3>7, <6>1, Zenon
                    <5>3. CASE ~ (x[1] <= t)
                        <6>1. MetBy(s, t) = MetBy(r, t)
                            BY <5>3, <5>5
                        <6> QED
                            BY <5>1, <5>2, <6>1
                    <5>4. CASE x[1] <= t
                        <6>1. Peak(r) = Run(r)
                            BY <5>2, <5>4, <5>5
                        <6>2. x[2] = -1
                            BY <3>3, <3>4, <3>5, <4>2, <6>1
                        <6>3. PICK u : u = x[1] - 1
                            OBVIOUS
                        <6>4. u \in -1..horizon /\ u \in Int
                            BY <3>4, <6>3
                        <6>5. Run(MetBy(s, u)) >= Run(r)
                            BY <3>1, <6>2, <6>3, EndsComeFirst
                        <6>6. Peak(s) >= Run(MetBy(s, u))
                            BY <3>8, <6>4
                        <6>7. Run(MetBy(s, u)) \in Int
                            <7>1. MetBy(s, u) \in SUBSET E
                                BY DEF MetBy
                            <7> QED
                                BY <1>2, <7>1
                        <6>8. Peak(s) = Run(MetBy(s, u))
                            BY ONLY <3>5, <5>1, <6>1, <6>5, <6>6, <6>7
                        <6> QED
                            BY <6>4, <6>8
                    <5> QED
                        BY <5>3, <5>4
                <4> QED
                    BY <4>1, <4>2
            <3> QED
                BY <3>8, <3>9
        <2> QED
            BY <2>1, <2>2
    <1>5. \A s \in SUBSET E : s \in T
        BY ONLY IsFiniteSet(E), <1>4, AllSubsets
    <1> QED
        BY <1>3, <1>5

\* There are as many edges of one kind as runs.
EdgesOf(I, j, k) == {<<window[i][j], k, i>> : i \in I}

LEMMA EdgesOfRuns ==
    ASSUME NEW I, IsFiniteSet(I), NEW j, NEW k
    PROVE  /\ IsFiniteSet(EdgesOf(I, j, k))
           /\ Cardinality(EdgesOf(I, j, k)) = Cardinality(I)
    <1> DEFINE A == {<<window[i][j], k, i>> : i \in I}
               f == [i \in I |-> <<window[i][j], k, i>>]
    <1>1. f \in Surjection(I, A)
        BY DEF Surjection
    <1>2. f \in Injection(I, A)
        <2>1. f \in [I -> A] /\ \A a, b \in I : f[a] = f[b] => a = b
            OBVIOUS
        <2> QED
            BY <2>1 DEF Injection, IsInjective
    <1>3. ExistsBijection(I, A)
        BY <1>1, <1>2 DEF ExistsBijection, Bijection
    <1> HIDE DEF A, f
    <1>4. IsFiniteSet(A) /\ Cardinality(A) = Cardinality(I)
        BY <1>3, FS_Bijection
    <1> QED
        BY <1>4 DEF A, EdgesOf

\* Edges are finitely many, in the bounds of time, and a run starts before it ends.
LEMMA EdgesTyped ==
    ASSUME window \in Seq(Spans)
    PROVE  /\ Edges \in SUBSET EdgeSpace /\ IsFiniteSet(Edges)
           /\ \A e \in Edges : e[1] <= MaxMoment
           /\ IsFiniteSet(DOMAIN window)
           /\ \A i \in DOMAIN window : /\ window[i][1] \in 0..MaxMoment
                                       /\ window[i][2] \in 0..MaxMoment
                                       /\ window[i][1] <= window[i][2]
    <1>1. DOMAIN window = 1..Len(window) /\ Len(window) \in Nat
        OBVIOUS
    <1>2. \A i \in DOMAIN window : /\ window[i][1] \in 0..MaxMoment /\ window[i][2] \in 0..MaxMoment
                                   /\ i \in Nat /\ window[i][1] <= window[i][2]
        <2>1. \A i \in DOMAIN window : window[i] \in Spans
            OBVIOUS
        <2> QED
            BY <1>1, <2>1 DEF Spans
    <1>3. IsFiniteSet(DOMAIN window)
        <2>1. IsFiniteSet(1..Len(window))
            BY <1>1, FS_Interval
        <2> QED
            BY <1>1, <2>1
    <1>4. IsFiniteSet(Edges)
        <2> DEFINE A == EdgesOf(DOMAIN window, 1, 1)
                   B == EdgesOf(DOMAIN window, 2, -1)
        <2>1. IsFiniteSet(A) /\ IsFiniteSet(B)
            BY <1>3, EdgesOfRuns
        <2>2. IsFiniteSet(A \cup B)
            <3> HIDE DEF A, B
            <3> QED
                BY <2>1, FS_Union
        <2>3. Edges = A \cup B
            BY DEF Edges, EdgesOf
        <2> HIDE DEF A, B
        <2> QED
            BY <2>2, <2>3
    <1>5. \A e \in Edges : /\ e[1] \in Nat /\ e[1] <= MaxMoment
                           /\ e \in EdgeSpace
        BY <1>2, ThroughputAssumption DEF Edges, EdgeSpace
    <1> QED
        BY <1>2, <1>3, <1>4, <1>5

\* What runs at a moment is what the sweep has when it has met the edges up to it.
LEMMA RunningIsSwept ==
    ASSUME window \in Seq(Spans), NEW t \in Int
    PROVE  RunningAt(t) = Sweeping(Edges)[MetBy(Edges, t)].running /\ RunningAt(t) \in Nat
    <1> DEFINE Began == {i \in DOMAIN window : window[i][1] <= t}
               Over == {i \in DOMAIN window : window[i][2] <= t}
               met == MetBy(Edges, t)
    <1>1. IsFiniteSet(Began) /\ IsFiniteSet(Over)
        <2>1. IsFiniteSet(DOMAIN window) /\ Began \in SUBSET DOMAIN window
              /\ Over \in SUBSET DOMAIN window
            BY EdgesTyped
        <2> HIDE DEF Began, Over
        <2> QED
            BY <2>1, FS_Subset
    <1>2. \A i \in DOMAIN window : /\ window[i][1] \in Int /\ window[i][2] \in Int
                                   /\ window[i][1] <= window[i][2]
        BY EdgesTyped
    <1>3. Over \subseteq Began
        BY <1>2
    <1>4. RunningAt(t) = Cardinality(Began) - Cardinality(Over) /\ RunningAt(t) \in Nat
        <2>1. {i \in DOMAIN window : window[i][1] <= t /\ t < window[i][2]} = Began \ Over
            BY <1>2
        <2>2. Began \cap Over = Over
            BY <1>3
        <2> HIDE DEF Began, Over
        <2>3. /\ Cardinality(Began \ Over) = Cardinality(Began) - Cardinality(Over)
              /\ IsFiniteSet(Began \ Over)
            BY <1>1, <2>2, FS_Difference
        <2>4. Cardinality(Began \ Over) \in Nat
            BY <2>3, FS_CardinalityType
        <2> QED
            BY <2>1, <2>3, <2>4 DEF RunningAt
    <1>5. Starts(met) = EdgesOf(Began, 1, 1)
        <2>1. \A e : e \in Starts(met) <=> e \in Edges /\ e[1] <= t /\ e[2] = 1
            BY DEF Starts, MetBy
        <2>2. \A e : e \in Edges /\ e[2] = 1 <=> \E i \in DOMAIN window : e = <<window[i][1], 1, i>>
            BY DEF Edges
        <2> QED
            BY <2>1, <2>2 DEF EdgesOf
    <1>6. Ends(met) = EdgesOf(Over, 2, -1)
        <2>1. \A e : e \in Ends(met) <=> e \in Edges /\ e[1] <= t /\ e[2] = -1
            BY DEF Ends, MetBy
        <2>2. \A e : e \in Edges /\ e[2] = -1
                         <=> \E i \in DOMAIN window : e = <<window[i][2], -1, i>>
            BY DEF Edges
        <2> QED
            BY <2>1, <2>2 DEF EdgesOf
    <1>7. /\ Cardinality(Starts(met)) = Cardinality(Began)
          /\ Cardinality(Ends(met)) = Cardinality(Over)
        <2> HIDE DEF Began, Over, met
        <2> QED
            BY <1>1, <1>5, <1>6, EdgesOfRuns
    <1>8. Sweeping(Edges)[met].running = Cardinality(Starts(met)) - Cardinality(Ends(met))
        <2>1. met \in SUBSET Edges /\ Edges \in SUBSET EdgeSpace /\ IsFiniteSet(Edges)
            BY EdgesTyped DEF MetBy
        <2> HIDE DEF met
        <2> QED
            BY <2>1, RunningIsTheDifference
    <1> HIDE DEF Began, Over
    <1> QED
        BY <1>4, <1>7, <1>8

\* Every moment is met in full, and before the first one nothing runs.
LEMMA PeakReached ==
    ASSUME window \in Seq(Spans)
    PROVE  PeakIsReached
    <1>1. /\ Edges \in SUBSET EdgeSpace /\ IsFiniteSet(Edges)
          /\ MaxMoment \in Nat /\ \A e \in Edges : e[1] <= MaxMoment
        BY EdgesTyped, ThroughputAssumption
    <1>2. /\ \A t \in Int : PeakSimultaneous >= Sweeping(Edges)[MetBy(Edges, t)].running
          /\ \E t \in -1..MaxMoment : PeakSimultaneous = Sweeping(Edges)[MetBy(Edges, t)].running
        BY <1>1, PeakIsOfAMoment, PeakIsSwept
    <1>3. \A t \in -1..MaxMoment : t \in Int
        OBVIOUS
    <1>4. /\ \A t \in Int : PeakSimultaneous >= RunningAt(t) /\ RunningAt(t) \in Nat
          /\ \E t \in -1..MaxMoment : PeakSimultaneous = RunningAt(t)
        BY <1>2, <1>3, RunningIsSwept
    <1>5. RunningAt(-1) = 0 /\ RunningAt(MaxMoment) = 0
        <2>1. \A i \in DOMAIN window : window[i][1] \in 0..MaxMoment
                                      /\ window[i][2] \in 0..MaxMoment
            BY EdgesTyped
        <2>2. \A i \in DOMAIN window : ~ (window[i][1] <= -1) /\ ~ (MaxMoment < window[i][2])
            BY <1>1, <2>1
        <2>3. {i \in DOMAIN window : window[i][1] <= -1 /\ -1 < window[i][2]} = {}
            BY <2>2
        <2>4. {i \in DOMAIN window : window[i][1] <= MaxMoment /\ MaxMoment < window[i][2]} = {}
            BY <2>2
        <2> QED
            BY <2>3, <2>4, FS_EmptySet DEF RunningAt
    <1>6. \A t \in 0..MaxMoment : RunningAt(t) <= PeakSimultaneous
        <2> SUFFICES ASSUME NEW t \in 0..MaxMoment
                     PROVE  RunningAt(t) <= PeakSimultaneous
            OBVIOUS
        <2>1. t \in Int /\ PeakSimultaneous \in Int
            BY <1>3, <1>4
        <2> QED
            BY <1>4, <2>1
    <1>7. \E t \in 0..MaxMoment : RunningAt(t) = PeakSimultaneous
        <2>1. PICK t \in -1..MaxMoment : PeakSimultaneous = RunningAt(t)
            BY <1>4
        <2>2. CASE t = -1
            BY <1>1, <1>5, <2>1, <2>2
        <2>3. CASE t # -1
            <3>1. t \in 0..MaxMoment
                BY <1>1, <2>3
            <3> QED
                BY <2>1, <3>1
        <2> QED
            BY <2>2, <2>3
    <1> QED
        BY <1>6, <1>7 DEF PeakIsReached

\* The peak of simultaneous sessions that /stats reports is reached at some moment
\* and passed at none (throughput, stats.py), for any number of runs in the window,
\* however their starts and ends fall together.
THEOREM PeakIsTheMost ==
    ThroughputInit /\ [][ThroughputNext]_window => []PeakIsReached
    <1>1. ThroughputInit => window \in Seq(Spans)
        BY DEF ThroughputInit
    <1>2. window \in Seq(Spans) /\ [ThroughputNext]_window => (window \in Seq(Spans))'
        BY DEF ThroughputNext, RunRecorded
    <1>3. window \in Seq(Spans) => PeakIsReached
        BY PeakReached
    <1> QED
        BY <1>1, <1>2, <1>3, PTL
=============================================================================
