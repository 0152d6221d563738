------------------------------- MODULE Budget -------------------------------
(***************************************************************************)
(* The two gates in front of a launch (pu/pipeline.py, pu/usage_gate.py):   *)
(* the daily cost cap, with a reservation for the sessions in flight, and   *)
(* the account-usage ceilings; the runway before both, in which sessions    *)
(* start one at a time; and what the owner is told of them.  A tick passes  *)
(* the gates one by one while sessions end, report and are recorded, usage  *)
(* windows reset and midnight comes.                                        *)
(*                                                                          *)
(* Sessions are counted, not named: `flying` have no run record yet,        *)
(* `landed` have one and are still registered.  Amounts are whole units;    *)
(* a reason is which limit it is, without the amount that goes into its text. *)
(* A message may not get through, and a reading may name no time at which   *)
(* its window resets.                                                       *)
(***************************************************************************)
EXTENDS Integers, Sequences

CONSTANTS
    Cap,           \* daily_cost_cap_usd
    Edge,          \* what of it is left outside the runway: (1 - fraction) * cap
    Most,          \* the most a session can cost
    Least,         \* the least average of any type, or of all of them for a new one
    MaxWanted,     \* the highest concurrency the owner sets
    Windows,       \* a sequence, in the order the gate reads them
    Levels, UseEdge, UseCeiling,   \* utilization, and the two limits on it
    None,
    Lost,          \* a message that did not get through
    MaxOthers,     \* bound: sessions of other units that report usage
    MaxDeaths      \* bound: deaths of the process

Gates == {"cost", "usage", "headroom"}
\* The gates that hold a tick up; the runway only lets fewer sessions through.
Stops == {"cost", "usage"}

ASSUME BudgetAssumption ==
    /\ Cap \in Nat \ {0} /\ Edge \in 0..Cap
    /\ Least \in Nat /\ Most \in Nat /\ Least <= Most
    /\ MaxWanted \in Nat \ {0}
    /\ None \notin Nat \cup {"cost"}
    /\ Lost \notin {None, "cost"} \cup {Windows[i] : i \in DOMAIN Windows}
    /\ MaxOthers \in Nat /\ MaxDeaths \in Nat

VARIABLES
    spent,           \* recorded today
    flying, landed,  \* sessions registered in _RUNNING
    wanted,          \* the live setting, else PU_MAX_CONCURRENT
    reading,         \* usage.json: for each window its utilization, until it resets
    pc,              \* the deciding tick
    yesterday,       \* what was recorded on the day the tick began, once that is over
    why,             \* the reason the tick has just found, not yet saved
    answer,          \* the gate that stopped the last tick, and its reason
    saved,           \* cost_gate.json, usage_gate.json, headroom.json
    heard,           \* the last message to the owner about each stop: its reason, or Lost
    torn,            \* history: stops told of and not saved when the process died
    others, deaths

vars == <<spent, flying, landed, wanted, reading, pc, yesterday, why, answer,
          saved, heard, torn, others, deaths>>
sessions == <<flying, landed>>
notices == <<saved, heard, torn>>

Running == flying + landed
\* Each running session counts as the average of its type's runs, or of all runs
\* for a type without any: nothing, if no run was ever recorded (Least = 0).
Reserves == Running * Least .. Running * Most
\* cost_since of the day the tick began on.
SpentThatDay == IF yesterday = None THEN spent ELSE yesterday
Idle == <<"none", "idle">>
Ends == pc' = Idle /\ yesterday' = None
Open == <<"open", None>>

\* Mutation: finished spend alone is compared to the cap.
CostReasonUnreserved(reserve) ==
    IF SpentThatDay >= Cap THEN "cost" ELSE None
CostReason(reserve) ==
    IF SpentThatDay + reserve >= Cap THEN "cost" ELSE None

\* Mutation: a reading past its reset still blocks.
BlocksStale(i) == reading[i] # None /\ reading[i].used >= UseCeiling
Blocks(i) == reading[i] # None /\ reading[i].reset # "past" /\ reading[i].used >= UseCeiling
\* The first window over its ceiling.
UsageReason ==
    IF \E i \in DOMAIN Windows : Blocks(i)
    THEN LET i == CHOOSE i \in DOMAIN Windows : Blocks(i) /\ \A j \in 1..(i - 1) : ~Blocks(j)
         IN Windows[i]
    ELSE None

\* A reset does not count here.
Low(i) == reading[i] # None /\ reading[i].used >= UseEdge
\* The runway: both reasons the ceiling drops to one.
HeadroomReason(reserve) ==
    IF SpentThatDay + reserve >= Edge THEN "budget"
    ELSE IF \E i \in DOMAIN Windows : Low(i)
    THEN LET i == CHOOSE i \in DOMAIN Windows : Low(i) /\ \A j \in 1..(i - 1) : ~Low(j)
         IN Windows[i]
    ELSE None
-----------------------------------------------------------------------------
Init ==
    /\ spent = 0 /\ flying = 0 /\ landed = 0
    /\ wanted \in 1..MaxWanted
    /\ reading = [i \in DOMAIN Windows |-> None]
    /\ pc = Idle /\ yesterday = None /\ why = None /\ answer = Open
    /\ saved = [g \in Gates |-> None] /\ heard = [g \in Stops |-> None]
    /\ torn = {} /\ others = 0 /\ deaths = 0

Ledger == UNCHANGED <<spent, flying, landed, wanted, reading, others, deaths>>

TickBegins ==
    /\ pc = Idle
    /\ pc' = <<"cost", "check">> /\ answer' = Open
    /\ Ledger /\ UNCHANGED <<yesterday, why, notices>>

\* What every gate does with its reason: told and then saved, if it is another
\* than the one last saved; then on, or out.  Whether the message gets through is
\* not looked at.  That the cost gate clears is saved and not told; what the
\* runway's messages say is left out.
Judge(g, reason) ==
    /\ pc = <<g, "check">>
    /\ why' = reason
    /\ IF reason = saved[g]
       THEN pc' = <<g, "judged">> /\ UNCHANGED notices
       ELSE /\ IF g \notin Stops \/ (g = "cost" /\ reason = None)
               THEN UNCHANGED heard
               ELSE \E message \in {reason, Lost} : heard' = [heard EXCEPT ![g] = message]
            /\ pc' = <<g, "told">>
            /\ UNCHANGED <<saved, torn>>
    /\ Ledger /\ UNCHANGED <<yesterday, answer>>

CostGate == \E reserve \in Reserves : Judge("cost", CostReason(reserve))
UsageGate == Judge("usage", UsageReason)
CeilingGate == \E reserve \in Reserves : Judge("headroom", HeadroomReason(reserve))

\* Mutation: only a block is saved, not its end.
SaveBlocksOnly(g) ==
    /\ pc = <<g, "told">>
    /\ saved' = [saved EXCEPT ![g] = IF why = None THEN @ ELSE why]
    /\ torn' = torn \ {g}
    /\ pc' = <<g, "judged">>
    /\ Ledger /\ UNCHANGED <<yesterday, why, answer, heard>>
Save(g) ==
    /\ pc = <<g, "told">>
    /\ saved' = [saved EXCEPT ![g] = why]
    /\ torn' = torn \ {g}
    /\ pc' = <<g, "judged">>
    /\ Ledger /\ UNCHANGED <<yesterday, why, answer, heard>>

\* Blocked: the tick ends with the reason.
Decline(g) ==
    /\ g \in Stops /\ pc = <<g, "judged">> /\ why # None
    /\ answer' = <<g, why>> /\ why' = None
    /\ Ends
    /\ Ledger /\ UNCHANGED notices
Pass(g) ==
    /\ g \in Stops /\ pc = <<g, "judged">> /\ why = None
    /\ pc' = <<IF g = "cost" THEN "usage" ELSE "headroom", "check">>
    /\ Ledger /\ UNCHANGED <<yesterday, why, answer, notices>>

\* Inside the runway one at a time.
Ceiling == IF why = None THEN wanted ELSE 1

\* The registrations are counted after the spend was: one that has ended in
\* between is no longer in the way.
Room ==
    /\ pc = <<"headroom", "judged">> /\ Running < Ceiling
    /\ pc' = <<"launch", "check">> /\ why' = None
    /\ Ledger /\ UNCHANGED <<yesterday, answer, notices>>
\* A task is claimed and registered, and its session starts.
Launch ==
    /\ pc = <<"launch", "check">>
    /\ flying' = flying + 1
    /\ Ends
    /\ UNCHANGED <<spent, landed, wanted, reading, why, answer, notices, others, deaths>>
\* At the ceiling; paused; or nothing to run.
NoLaunch ==
    /\ pc \in {<<"headroom", "judged">>, <<"launch", "check">>}
    /\ why' = None /\ Ends
    /\ Ledger /\ UNCHANGED <<answer, notices>>
-----------------------------------------------------------------------------
Deciding == <<pc, yesterday, why, answer>>

\* A session's run record: counted on the day it is written.  A launch that
\* failed costs nothing.
Record(cost) ==
    /\ flying > 0
    /\ spent' = spent + cost
    /\ flying' = flying - 1 /\ landed' = landed + 1
    /\ UNCHANGED <<wanted, reading, others, deaths, notices>> /\ UNCHANGED Deciding

\* A command of the settling fails, or the record cannot be written.
EndUnrecorded ==
    /\ flying > 0
    /\ flying' = flying - 1
    /\ UNCHANGED <<spent, landed, wanted, reading, others, deaths, notices>> /\ UNCHANGED Deciding

\* The CLI may name no time for the reset.
Seen == [DOMAIN Windows -> [used : Levels, reset : {"coming", "never"}]]

\* The session's usage goes to the gateway and comes back in usage.json; it may
\* have seen none.  Then it is taken off _RUNNING.
Unregister ==
    /\ landed > 0
    /\ landed' = landed - 1
    /\ reading' \in Seen \cup {reading}
    /\ UNCHANGED <<spent, flying, wanted, others, deaths, notices>> /\ UNCHANGED Deciding

OtherReports ==
    /\ others < MaxOthers
    /\ others' = others + 1
    /\ reading' \in Seen
    /\ UNCHANGED <<spent, flying, landed, wanted, deaths, notices>> /\ UNCHANGED Deciding

WindowResets(i) ==
    /\ reading[i] # None /\ reading[i].reset = "coming"
    /\ reading' = [reading EXCEPT ![i].reset = "past"]
    /\ UNCHANGED <<spent, flying, landed, wanted, others, deaths, notices>> /\ UNCHANGED Deciding

\* A tick that began before it goes on judging the day it began on.
Midnight ==
    /\ yesterday = None
    /\ yesterday' = IF pc = Idle THEN None ELSE spent
    /\ spent' = 0
    /\ UNCHANGED <<flying, landed, wanted, reading, pc, why, answer, notices, others, deaths>>

SetWanted(n) ==
    /\ n # wanted /\ wanted' = n
    /\ UNCHANGED <<spent, flying, landed, reading, others, deaths, notices>> /\ UNCHANGED Deciding

Die ==
    /\ deaths < MaxDeaths
    /\ deaths' = deaths + 1
    /\ flying' = 0 /\ landed' = 0
    /\ pc' = Idle /\ yesterday' = None /\ why' = None /\ answer' = Open
    /\ torn' = torn \cup {g \in Stops : pc = <<g, "told">>}
    /\ UNCHANGED <<spent, wanted, reading, saved, heard, others>>

TickStep ==
    \/ TickBegins \/ CostGate \/ UsageGate \/ CeilingGate \/ Room \/ Launch \/ NoLaunch
    \/ \E g \in Gates : Save(g) \/ Decline(g) \/ Pass(g)
SessionStep == (\E cost \in 0..Most : Record(cost)) \/ EndUnrecorded \/ Unregister

Next ==
    \/ TickStep \/ SessionStep
    \/ OtherReports
    \/ \E i \in DOMAIN Windows : WindowResets(i)
    \/ Midnight
    \/ \E n \in 1..MaxWanted : SetWanted(n)
    \/ Die

Spec == Init /\ [][Next]_vars

\* The gateway pokes, sessions end at their timeout, and time passes: the day's,
\* and that of a window whose reset is named.
Fairness ==
    /\ WF_vars(TickStep) /\ WF_vars(SessionStep) /\ WF_vars(Midnight)
    /\ \A i \in DOMAIN Windows : WF_vars(WindowResets(i))
FairSpec == Spec /\ Fairness
-----------------------------------------------------------------------------
Greater(m, n) == IF m >= n THEN m ELSE n
\* The worst a day can come to: the gate passed one unit below the cap with
\* every session in flight reserved at the least, each of them ended at the most
\* before they were counted, and one more started; or sessions of the day before
\* that end today, and one that was judged by that day.
Reach == Greater(Cap - 1 - MaxWanted * Least, 0) + (MaxWanted + 1) * Most

\* However sessions overlap, end, are recorded late or not at all, and whatever
\* midnight falls between, a day's spend passes the cap by a bounded amount, and
\* so would it if every session in flight cost the most it can.
SpendWithinReach == spent + flying * Most <= Reach

\* A tick that declines to start sessions gives the reason the owner last heard
\* of that gate: neither a gate that clears and closes again nor one that shuts
\* for another reason is passed over in silence.  Two things excuse it: the last
\* message about that gate did not get through, for the reason is saved all the
\* same, or the process died between the message and its being noted.
BlockIsHeard ==
    answer # Open => heard[answer[1]] \in {answer[2], Lost} \/ answer[1] \in torn

\* A block that no time ends: only another session's report replaces the reading.
Latched == \E i \in DOMAIN Windows : Blocks(i) /\ reading[i].reset = "never"

\* Neither gate latches: however often they block, there is always another tick
\* that gets past both, by itself, once a day is over and the windows have reset;
\* unless a reading over its ceiling that names no reset stays for good.
WorkResumes == []<>(pc = <<"headroom", "check">>) \/ <>[]Latched
=============================================================================
