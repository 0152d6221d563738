---------------------------- MODULE BudgetProofs ----------------------------
(***************************************************************************)
(* How far a day's spend can pass the cap, and that the owner has heard of  *)
(* what holds a launch up, for any cap, costs, concurrency, windows and     *)
(* number of deaths.                                                        *)
(***************************************************************************)
EXTENDS Budget, TLAPS

\* Every session that is in flight, at the most it can cost.
AtMost == spent + flying * Most
Full == MaxWanted * Most

\* The tick has passed the cost gate, or has found no reason to stop at it.
GatePassed ==
    \/ pc[1] \in {"usage", "headroom", "launch"}
    \/ pc \in {<<"cost", "told">>, <<"cost", "judged">>} /\ why = None

Numbers ==
    /\ spent \in Nat /\ flying \in Nat /\ landed \in Nat
    /\ wanted \in 1..MaxWanted
    /\ yesterday \in Nat \cup {None}
    /\ pc \in {Idle} \cup (Gates \X {"check", "told", "judged"}) \cup {<<"launch", "check">>}

\* Only the deciding tick registers a session, so there is still room where it
\* has seen room.
RoomLeft ==
    /\ Running <= MaxWanted
    /\ pc = <<"launch", "check">> => Running < MaxWanted

\* A tick past the cost gate leaves room for one more session, and what midnight
\* has left of the day before is the sessions in flight.
RoomForOne ==
    /\ AtMost <= Reach
    /\ GatePassed => AtMost + Most <= Reach
    /\ yesterday # None => AtMost <= Full

IInv == Numbers /\ RoomLeft /\ RoomForOne

\* A product of naturals grows with each factor.
LEMMA Products ==
    ASSUME NEW a \in Nat, NEW b \in Nat, NEW c \in Nat, a <= b
    PROVE  a * c <= b * c /\ c * a <= c * b /\ a * c \in Nat /\ (a + 1) * c = a * c + c
    OBVIOUS

\* The cap and its reach, as what the steps need of them.
LEMMA Reaches ==
    /\ Most \in Nat /\ Full \in Nat /\ Reach \in Int
    /\ Full + Most <= Reach
    /\ \A r \in Nat, f \in Nat, s \in Nat :
          r <= MaxWanted /\ f <= r /\ s + r * Least <= Cap - 1 => s + f * Most + Most <= Reach
    <1> USE BudgetAssumption
    <1>1. Most \in Nat /\ Least \in Nat /\ MaxWanted \in Nat /\ Cap \in Nat /\ Least <= Most
        OBVIOUS
    <1>2. Full \in Nat /\ (MaxWanted + 1) * Most = Full + Most
        BY <1>1 DEF Full
    <1>3. MaxWanted * Least \in Nat
        BY <1>1
    <1>4. /\ Reach \in Int /\ Full + Most <= Reach
          /\ Cap - 1 - MaxWanted * Least + Full + Most <= Reach
        BY <1>1, <1>2, <1>3 DEF Reach, Greater
    <1>5. ASSUME NEW r \in Nat, NEW f \in Nat, NEW s \in Nat,
                 r <= MaxWanted, f <= r, s + r * Least <= Cap - 1
          PROVE  s + f * Most + Most <= Reach
        <2> DEFINE over == Most - Least
        <2>1. over \in Nat /\ Most = Least + over
            BY <1>1
        <2>2. f * Most <= r * Most /\ f * Most \in Nat /\ r * Most \in Nat
            BY <1>1, <1>5, Products
        <2>3. r * over <= MaxWanted * over /\ r * over \in Nat /\ MaxWanted * over \in Nat
            BY <1>1, <1>5, <2>1, Products
        <2>4. r * Most = r * Least + r * over /\ r * Least \in Nat
            BY <1>1, <2>1
        <2>5. Full = MaxWanted * Least + MaxWanted * over
            BY <1>1, <2>1 DEF Full
        <2> HIDE DEF over
        <2> QED
            BY <1>1, <1>2, <1>3, <1>4, <1>5, <2>2, <2>3, <2>4, <2>5
    <1> QED
        BY <1>1, <1>2, <1>4, <1>5

\* A day begins with nothing spent and nobody running.
LEMMA IInvInit == Init => IInv
    <1> SUFFICES ASSUME Init PROVE IInv
        OBVIOUS
    <1> USE BudgetAssumption
    <1>1. Numbers
        BY DEF Init, Numbers, Idle
    <1>2. RoomLeft
        BY DEF Init, RoomLeft, Running, Idle
    <1>3. AtMost = 0
        BY DEF Init, AtMost
    <1> QED
        BY <1>1, <1>2, <1>3, Reaches DEF Init, IInv, RoomForOne, GatePassed, Idle

\* The steps that leave the sessions and what is spent alone, and end the tick
\* or do not bring it past the cost gate.
LEMMA NothingCounted ==
    ASSUME IInv, Numbers', UNCHANGED <<spent, flying, landed>>,
           yesterday' \in {yesterday, None}, GatePassed' => GatePassed,
           pc' = <<"launch", "check">> => Running < MaxWanted
    PROVE  IInv'
    <1>1. AtMost' = AtMost /\ Running' = Running /\ Reach' = Reach /\ Full' = Full
        BY DEF AtMost, Running, Reach, Greater, Full
    <1>2. RoomLeft'
        BY <1>1 DEF IInv, RoomLeft
    <1>3. RoomForOne'
        <2>1. AtMost' <= Reach'
            BY <1>1 DEF IInv, RoomForOne
        <2>2. GatePassed' => AtMost' + Most <= Reach'
            BY <1>1 DEF IInv, RoomForOne
        <2>3. yesterday' # None => AtMost' <= Full'
            BY <1>1 DEF IInv, RoomForOne
        <2> QED
            BY <2>1, <2>2, <2>3 DEF RoomForOne
    <1> QED
        BY <1>2, <1>3 DEF IInv

\* The sessions that end, in whatever way, leave no more to be spent.
LEMMA SessionEnds ==
    ASSUME NEW s \in Nat, NEW f \in Nat, NEW l \in Nat, IInv,
           spent' = s, flying' = f, landed' = l, UNCHANGED <<wanted, pc, why, yesterday>>,
           s + f * Most <= AtMost, f + l <= Running
    PROVE  IInv'
    <1>1. Numbers'
        BY DEF IInv, Numbers
    <1>2. Running \in Nat /\ AtMost \in Nat /\ f * Most \in Nat
        <2>1. flying * Most \in Nat /\ f * Most \in Nat
            BY BudgetAssumption DEF IInv, Numbers
        <2> QED
            BY <2>1 DEF IInv, Numbers, AtMost, Running
    <1>3. /\ AtMost' = s + f * Most /\ Running' = f + l
          /\ GatePassed' = GatePassed /\ Reach' = Reach /\ Full' = Full
        BY DEF AtMost, Running, GatePassed, Reach, Greater, Full
    <1>4. RoomLeft'
        BY <1>2, <1>3, BudgetAssumption DEF IInv, RoomLeft
    <1>5. RoomForOne'
        <2>1. Reach \in Int /\ Full \in Nat /\ Most \in Nat
            BY Reaches
        <2>2. AtMost' <= Reach'
            BY <1>2, <1>3, <2>1 DEF IInv, RoomForOne
        <2>3. GatePassed' => AtMost' + Most <= Reach'
            BY <1>2, <1>3, <2>1 DEF IInv, RoomForOne
        <2>4. yesterday' # None => AtMost' <= Full'
            BY <1>2, <1>3, <2>1 DEF IInv, RoomForOne
        <2> QED
            BY <2>2, <2>3, <2>4 DEF RoomForOne
    <1> QED
        BY <1>1, <1>4, <1>5 DEF IInv

LEMMA TickBeginsKeeps == IInv /\ TickBegins => IInv'
    <1> SUFFICES ASSUME IInv, TickBegins PROVE IInv'
        OBVIOUS
    <1>1. Numbers'
        BY DEF IInv, Numbers, TickBegins, Ledger, Gates
    <1>2. ~GatePassed'
        BY DEF TickBegins, GatePassed
    <1> QED
        BY <1>1, <1>2, NothingCounted DEF TickBegins, Ledger

\* The cost gate is where the room for one more session is found.
LEMMA CostGateKeeps == IInv /\ CostGate => IInv'
    <1> SUFFICES ASSUME IInv, NEW reserve \in Reserves, Judge("cost", CostReason(reserve))
                 PROVE  IInv'
        BY DEF CostGate
    <1> USE Reaches, BudgetAssumption
    <1>1. Numbers'
        BY DEF IInv, Numbers, Judge, Ledger, Gates
    <1>2. AtMost' = AtMost /\ Running' = Running
        BY DEF Judge, Ledger, AtMost, Running
    <1>3. RoomLeft'
        BY <1>2 DEF IInv, RoomLeft, Judge
    <1>4. SUFFICES ASSUME GatePassed' PROVE AtMost + Most <= Reach
        BY <1>1, <1>2, <1>3 DEF IInv, RoomForOne, Judge
    <1>5. CostReason(reserve) = None
        BY <1>4 DEF GatePassed, Judge
    <1>6. /\ reserve \in Int /\ Running * Least <= reserve
          /\ Running \in Nat /\ flying <= Running /\ Running <= MaxWanted
          /\ Running * Least \in Nat
        BY Products DEF Reserves, Running, IInv, Numbers, RoomLeft
    <1>7. ~(SpentThatDay + reserve >= Cap)
        BY <1>5 DEF CostReason
    <1>8. CASE yesterday = None
        <2>1. spent + Running * Least <= Cap - 1
            BY <1>6, <1>7, <1>8 DEF SpentThatDay, IInv, Numbers
        <2> QED
            BY <2>1, <1>6 DEF AtMost, IInv, Numbers
    <1>9. CASE yesterday # None
        BY <1>9, Products DEF IInv, RoomForOne, AtMost, Numbers
    <1> QED
        BY <1>8, <1>9

\* A gate that is not the cost gate, and what every gate does with its reason.
LEMMA LaterGatesKeep ==
    ASSUME IInv, NEW g \in {"usage", "headroom"}, NEW reason, Judge(g, reason)
    PROVE  IInv'
    <1>1. Numbers'
        BY DEF IInv, Numbers, Judge, Ledger, Gates
    <1>2. GatePassed /\ pc' # <<"launch", "check">>
        BY DEF Judge, GatePassed
    <1> QED
        BY <1>1, <1>2, NothingCounted DEF Judge, Ledger

LEMMA GatesKeep ==
    ASSUME IInv, NEW g \in Gates, Save(g) \/ Decline(g) \/ Pass(g)
    PROVE  IInv'
    <1>1. Numbers'
        BY DEF IInv, Numbers, Save, Decline, Pass, Ends, Ledger, Gates, Idle
    <1>2. GatePassed' => GatePassed
        BY DEF Save, Decline, Pass, Ends, GatePassed, Gates, Idle
    <1>3. pc' # <<"launch", "check">>
        BY DEF Save, Decline, Pass, Ends, Gates, Idle
    <1> QED
        BY <1>1, <1>2, <1>3, NothingCounted DEF Save, Decline, Pass, Ends, Ledger

LEMMA RoomKeeps == IInv /\ Room => IInv'
    <1> SUFFICES ASSUME IInv, Room PROVE IInv'
        OBVIOUS
    <1>1. Numbers'
        BY DEF IInv, Numbers, Room, Ledger
    <1>2. Running < MaxWanted
        BY BudgetAssumption DEF IInv, Numbers, Room, Ceiling, Running
    <1>3. GatePassed
        BY DEF Room, GatePassed
    <1> QED
        BY <1>1, <1>2, <1>3, NothingCounted DEF Room, Ledger

LEMMA NoLaunchKeeps == IInv /\ NoLaunch => IInv'
    <1> SUFFICES ASSUME IInv, NoLaunch PROVE IInv'
        OBVIOUS
    <1>1. Numbers'
        BY DEF IInv, Numbers, NoLaunch, Ends, Ledger, Idle
    <1>2. ~GatePassed' /\ pc' # <<"launch", "check">>
        BY DEF NoLaunch, Ends, GatePassed, Idle
    <1> QED
        BY <1>1, <1>2, NothingCounted DEF NoLaunch, Ends, Ledger

\* The one step that adds to what a day can come to.
LEMMA LaunchKeeps == IInv /\ Launch => IInv'
    <1> SUFFICES ASSUME IInv, Launch PROVE IInv'
        OBVIOUS
    <1> USE BudgetAssumption
    <1>1. Numbers' /\ pc' = Idle /\ yesterday' = None
        BY DEF IInv, Numbers, Launch, Ends, Idle
    <1>2. /\ flying \in Nat /\ landed \in Nat /\ spent \in Nat /\ Most \in Nat
          /\ flying * Most \in Nat /\ (flying + 1) * Most = flying * Most + Most
        BY Products DEF IInv, Numbers
    <1>3. AtMost' = spent + (flying + 1) * Most /\ Running' = flying + 1 + landed
        BY DEF Launch, AtMost, Running
    <1>4. ~GatePassed' /\ Reach' = Reach /\ GatePassed
        BY <1>1 DEF Launch, GatePassed, Reach, Greater, Idle
    <1>5. RoomLeft'
        BY <1>1, <1>2, <1>3 DEF IInv, RoomLeft, Launch, Running, Idle
    <1>6. AtMost' <= Reach'
        BY <1>2, <1>3, <1>4 DEF IInv, RoomForOne, AtMost
    <1> QED
        BY <1>1, <1>4, <1>5, <1>6 DEF IInv, RoomForOne

\* A session's cost moves from what it may be to what it was.
LEMMA SessionStepKeeps == IInv /\ SessionStep => IInv'
    <1> USE BudgetAssumption
    <1>1. ASSUME IInv, NEW cost \in 0..Most, Record(cost) PROVE IInv'
        <2>1. /\ spent + cost \in Nat /\ flying - 1 \in Nat /\ landed + 1 \in Nat
              /\ spent \in Nat /\ flying \in Nat /\ landed \in Nat /\ Most \in Nat
            BY <1>1 DEF Record, IInv, Numbers
        <2>2. (flying - 1) * Most + Most = flying * Most /\ (flying - 1) * Most \in Nat
            <3>1. (flying - 1 + 1) * Most = (flying - 1) * Most + Most
                BY <2>1, Products
            <3> QED
                BY <2>1, <3>1
        <2>3. /\ spent + cost + (flying - 1) * Most <= AtMost
              /\ (flying - 1) + (landed + 1) <= Running
            BY <2>1, <2>2 DEF AtMost, Running
        <2> QED
            BY <1>1, <2>1, <2>3, SessionEnds DEF Record, Deciding
    <1>2. ASSUME IInv, EndUnrecorded PROVE IInv'
        <2>1. flying - 1 \in Nat /\ spent \in Nat /\ flying \in Nat /\ landed \in Nat /\ Most \in Nat
            BY <1>2 DEF EndUnrecorded, IInv, Numbers
        <2>2. (flying - 1) * Most <= flying * Most /\ (flying - 1) * Most \in Nat /\ flying * Most \in Nat
            BY <2>1, Products
        <2>3. spent + (flying - 1) * Most <= AtMost /\ (flying - 1) + landed <= Running
            BY <2>1, <2>2 DEF AtMost, Running
        <2> QED
            BY <1>2, <2>1, <2>3, SessionEnds DEF EndUnrecorded, Deciding
    <1>3. ASSUME IInv, Unregister PROVE IInv'
        <2>1. /\ landed - 1 \in Nat /\ spent \in Nat /\ flying \in Nat /\ landed \in Nat
              /\ flying * Most \in Nat
            BY <1>3 DEF Unregister, IInv, Numbers
        <2>2. spent + flying * Most <= AtMost /\ flying + (landed - 1) <= Running
            BY <2>1 DEF AtMost, Running
        <2> QED
            BY <1>3, <2>1, <2>2, SessionEnds DEF Unregister, Deciding
    <1> QED
        BY <1>1, <1>2, <1>3 DEF SessionStep

\* What the sessions in flight can cost, when nothing is spent yet.
LEMMA InFlight == IInv => flying * Most \in Nat /\ 0 + flying * Most <= Full
    <1> SUFFICES ASSUME IInv PROVE flying * Most \in Nat /\ 0 + flying * Most <= Full
        OBVIOUS
    <1>1. flying \in Nat /\ MaxWanted \in Nat /\ flying <= MaxWanted /\ Most \in Nat
        BY BudgetAssumption DEF IInv, Numbers, RoomLeft, Running
    <1>2. flying * Most <= MaxWanted * Most /\ flying * Most \in Nat
        BY <1>1, Products
    <1> QED
        BY <1>2 DEF Full

\* A new day begins with the sessions of the old one.
LEMMA MidnightKeeps == IInv /\ Midnight => IInv'
    <1> SUFFICES ASSUME IInv, Midnight PROVE IInv'
        OBVIOUS
    <1>1. Numbers'
        BY DEF IInv, Numbers, Midnight
    <1>2. RoomLeft'
        BY DEF IInv, RoomLeft, Midnight, Running
    <1>3. AtMost' = 0 + flying * Most /\ Reach' = Reach /\ Full' = Full
        BY DEF Midnight, AtMost, Reach, Greater, Full
    <1>4. flying * Most \in Nat /\ 0 + flying * Most <= Full
        BY InFlight
    <1>5. 0 + flying * Most <= Reach /\ 0 + flying * Most + Most <= Reach
        BY <1>4, Reaches
    <1>6. RoomForOne'
        BY <1>3, <1>4, <1>5 DEF RoomForOne
    <1> QED
        BY <1>1, <1>2, <1>6 DEF IInv

\* Nobody is left when the process has died.
LEMMA DieKeeps == IInv /\ Die => IInv'
    <1> SUFFICES ASSUME IInv, Die PROVE IInv'
        OBVIOUS
    <1> USE BudgetAssumption
    <1>1. Numbers' /\ pc' = Idle /\ yesterday' = None
        BY DEF IInv, Numbers, Die
    <1>2. Running' = 0 /\ AtMost' = spent /\ Reach' = Reach
        BY DEF Die, Running, AtMost, IInv, Numbers, Reach, Greater
    <1>3. ~GatePassed' /\ RoomLeft'
        BY <1>1, <1>2 DEF Die, GatePassed, RoomLeft, Idle
    <1>4. spent <= AtMost
        BY InFlight DEF AtMost, IInv, Numbers
    <1>5. AtMost' <= Reach'
        BY <1>2, <1>4, InFlight, Reaches DEF IInv, Numbers, RoomForOne, AtMost
    <1> QED
        BY <1>1, <1>3, <1>5 DEF IInv, RoomForOne

\* What is left changes neither the sessions nor the tick.
LEMMA OtherSteps ==
    ASSUME IInv, wanted' \in 1..MaxWanted,
           UNCHANGED <<spent, flying, landed, pc, yesterday, why>>
    PROVE  IInv'
    <1>1. Numbers'
        BY DEF IInv, Numbers
    <1>2. GatePassed' = GatePassed
        BY DEF GatePassed
    <1> QED
        BY <1>1, <1>2, NothingCounted DEF IInv, RoomLeft

LEMMA IInvNext == IInv /\ [Next]_vars => IInv'
    <1> SUFFICES ASSUME IInv, [Next]_vars PROVE IInv'
        OBVIOUS
    <1>0. wanted \in 1..MaxWanted
        BY DEF IInv, Numbers
    <1>1. CASE TickBegins \/ Room \/ Launch \/ NoLaunch
        BY <1>1, TickBeginsKeeps, RoomKeeps, LaunchKeeps, NoLaunchKeeps
    <1>2. CASE CostGate \/ UsageGate \/ CeilingGate
        BY <1>2, CostGateKeeps, LaterGatesKeep DEF UsageGate, CeilingGate
    <1>3. CASE \E g \in Gates : Save(g) \/ Decline(g) \/ Pass(g)
        BY <1>3, GatesKeep
    <1>4. CASE SessionStep \/ Midnight \/ Die
        BY <1>4, SessionStepKeeps, MidnightKeeps, DieKeeps
    <1>5. CASE OtherReports
        BY <1>0, <1>5, OtherSteps DEF OtherReports, Deciding
    <1>6. CASE \E i \in DOMAIN Windows : WindowResets(i)
        BY <1>0, <1>6, OtherSteps DEF WindowResets, Deciding
    <1>7. CASE \E n \in 1..MaxWanted : SetWanted(n)
        BY <1>7, OtherSteps DEF SetWanted, Deciding
    <1>8. CASE UNCHANGED vars
        BY <1>0, <1>8, OtherSteps DEF vars, sessions, notices
    <1> QED
        BY <1>1, <1>2, <1>3, <1>4, <1>5, <1>6, <1>7, <1>8 DEF Next, TickStep

\* However sessions overlap, end and are recorded, and whenever midnight comes or
\* the process dies, a day's spend stays within Reach.
THEOREM SpendIsBounded == Spec => []SpendWithinReach
    <1>1. IInv => SpendWithinReach
        BY DEF IInv, RoomForOne, AtMost, SpendWithinReach
    <1> QED
        BY IInvInit, IInvNext, <1>1, PTL DEF Spec

-----------------------------------------------------------------------------
(* What the owner has heard.                                               *)

\* What is saved of a gate was told, or its message was lost, and what a tick
\* declines with is saved; between the two writes the new reason is what was told.
Heard ==
    /\ saved = [g \in Gates |-> saved[g]] /\ heard = [g \in Stops |-> heard[g]]
    /\ \A g \in Stops :
          /\ pc # <<g, "told">> /\ saved[g] # None => heard[g] \in {saved[g], Lost} \/ g \in torn
          /\ pc = <<g, "told">> /\ why # None => heard[g] \in {why, Lost}
          /\ pc = <<g, "judged">> => saved[g] = why
    /\ answer # Open => /\ pc = Idle /\ answer[1] \in Stops
                        /\ heard[answer[1]] \in {answer[2], Lost} \/ answer[1] \in torn

LEMMA HeardInit == Init => Heard
    BY DEF Init, Heard, Idle, Gates, Stops

\* Each gate tells before it saves.
LEMMA JudgeIsHeard ==
    ASSUME Heard, NEW g \in Gates, NEW reason, Judge(g, reason)
    PROVE  Heard'
    <1>1. /\ answer = Open /\ answer' = Open /\ why' = reason
          /\ UNCHANGED <<saved, torn>>
        BY DEF Heard, Judge, Idle, Gates, Stops, notices
    <1>2. CASE reason = saved[g]
        <2>1. pc' = <<g, "judged">> /\ UNCHANGED heard /\ pc = <<g, "check">>
            BY <1>2 DEF Judge, notices
        <2> QED
            BY <1>1, <1>2, <2>1 DEF Heard, Gates, Stops
    <1>3. CASE reason # saved[g]
        <2>1. /\ pc' = <<g, "told">> /\ pc = <<g, "check">>
              /\ \/ UNCHANGED heard /\ (g \in Stops => reason = None)
                 \/ g \in Stops /\ \E message \in {reason, Lost} : heard' = [heard EXCEPT ![g] = message]
            BY <1>3 DEF Judge, Stops
        <2>2. \A h \in Stops \ {g} : heard'[h] = heard[h]
            BY <2>1 DEF Heard, Gates, Stops
        <2>3. g \in Stops /\ reason # None => heard'[g] \in {reason, Lost}
            BY <2>1 DEF Heard, Gates, Stops
        <2>4. heard' = [h \in Stops |-> heard'[h]]
            BY <2>1 DEF Heard, Gates, Stops
        <2> QED
            BY <1>1, <2>1, <2>2, <2>3, <2>4 DEF Heard, Gates, Stops
    <1> QED
        BY <1>2, <1>3

LEMMA GatesAreHeard ==
    ASSUME Heard, NEW g \in Gates, Save(g) \/ Decline(g) \/ Pass(g)
    PROVE  Heard'
    <1>1. answer = Open
        BY DEF Heard, Save, Decline, Pass, Idle, Gates, Stops
    <1>2. CASE Save(g)
        <2>1. /\ saved' = [saved EXCEPT ![g] = why] /\ torn' = torn \ {g}
              /\ pc = <<g, "told">> /\ pc' = <<g, "judged">>
              /\ UNCHANGED <<why, answer, heard>>
            BY <1>2 DEF Save
        <2>2. saved'[g] = why /\ \A h \in Gates \ {g} : saved'[h] = saved[h]
            BY <2>1 DEF Heard, Gates, Stops
        <2>3. saved' = [h \in Gates |-> saved'[h]]
            BY <2>1 DEF Heard, Gates, Stops
        <2> QED
            BY <1>1, <2>1, <2>2, <2>3 DEF Heard, Gates, Stops
    <1>3. CASE Decline(g)
        BY <1>1, <1>3 DEF Decline, Ends, Heard, Idle, Open, Gates, Stops, notices
    <1>4. CASE Pass(g)
        BY <1>1, <1>4 DEF Pass, Heard, Gates, Stops, notices
    <1> QED
        BY <1>2, <1>3, <1>4

LEMMA HeardNext == Heard /\ [Next]_vars => Heard'
    <1> SUFFICES ASSUME Heard, [Next]_vars PROVE Heard'
        OBVIOUS
    <1>1. CASE TickBegins
        BY <1>1 DEF TickBegins, Heard, Idle, Gates, Stops, notices
    <1>2. CASE CostGate \/ UsageGate \/ CeilingGate
        BY <1>2, JudgeIsHeard DEF CostGate, UsageGate, CeilingGate, Gates
    <1>3. CASE \E g \in Gates : Save(g) \/ Decline(g) \/ Pass(g)
        BY <1>3, GatesAreHeard
    <1>4. CASE Room \/ Launch \/ NoLaunch
        BY <1>4 DEF Room, Launch, NoLaunch, Ends, Heard, Idle, Gates, Stops, notices
    <1>5. CASE SessionStep \/ OtherReports
        BY <1>5 DEF SessionStep, Record, EndUnrecorded, Unregister, OtherReports,
                    Deciding, Heard, notices
    <1>6. CASE \/ \E i \in DOMAIN Windows : WindowResets(i)
               \/ \E n \in 1..MaxWanted : SetWanted(n)
               \/ Midnight
        BY <1>6 DEF WindowResets, SetWanted, Midnight, Deciding, Heard, notices
    <1>7. CASE Die
        BY <1>7 DEF Die, Heard, Idle, Gates, Stops
    <1>8. CASE UNCHANGED vars
        BY <1>8 DEF vars, Heard, notices
    <1> QED
        BY <1>1, <1>2, <1>3, <1>4, <1>5, <1>6, <1>7, <1>8 DEF Next, TickStep

\* However gates open, shut and shut for other reasons, a tick that declines gives
\* the reason the owner last heard of that gate, unless the last message about it
\* did not get through or the process died between the message and its being noted.
THEOREM BlocksAreHeard == Spec => []BlockIsHeard
    <1>1. Heard => BlockIsHeard
        BY DEF Heard, BlockIsHeard
    <1> QED
        BY HeardInit, HeardNext, <1>1, PTL DEF Spec
=============================================================================
