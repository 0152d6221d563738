--------------------------- MODULE MCHousekeeping ---------------------------
(* The parts of pu that share nothing but the state directory, each in the   *)
(* behaviours of its own: what a behaviour is about is chosen at the start.  *)
EXTENDS Notices, Rollup, TickLog, Throughput, Ask, Upkeep, Bodies, Roles,
        Instructions, Verdict, Heartbeat, Servers, TLC

VARIABLE about

Init ==
    /\ about \in {"notices", "rollup", "ticklog", "throughput", "ask", "upkeep",
                  "bodies", "roles", "instructions", "verdict", "heartbeat", "servers"}
    /\ NoticesInit /\ RollupInit /\ TickLogInit /\ ThroughputInit /\ AskInit
    /\ UpkeepInit /\ BodiesInit /\ RolesInit /\ InstructionsInit /\ VerdictInit /\ HeartbeatInit /\ ServersInit
    /\ about # "roles" => registered
    /\ about # "servers" => tokens

Others(part) ==
    /\ about = part /\ UNCHANGED about
    /\ part # "notices" => UNCHANGED noticesVars
    /\ part # "rollup" => UNCHANGED rollupVars
    /\ part # "ticklog" => UNCHANGED tickLogVars
    /\ part # "throughput" => UNCHANGED window
    /\ part # "ask" => UNCHANGED askVars
    /\ part # "upkeep" => UNCHANGED upkeepVars
    /\ part # "bodies" => UNCHANGED bodiesVars
    /\ part # "roles" => UNCHANGED rolesVars
    /\ part # "instructions" => UNCHANGED instructionsVars
    /\ part # "verdict" => UNCHANGED verdictVars
    /\ part # "heartbeat" => UNCHANGED heartbeatVars
    /\ part # "servers" => UNCHANGED serversVars

Next ==
    \/ Others("notices") /\ NoticesNext
    \/ Others("rollup") /\ RollupNext
    \/ Others("ticklog") /\ TickLogNext
    \/ Others("throughput") /\ ThroughputNext
    \/ Others("ask") /\ AskNext
    \/ Others("upkeep") /\ UpkeepNext
    \/ Others("bodies") /\ BodiesNext
    \/ Others("roles") /\ RolesNext
    \/ Others("instructions") /\ InstructionsNext
    \/ Others("verdict") /\ VerdictNext
    \/ Others("heartbeat") /\ HeartbeatNext
    \/ Others("servers") /\ ServersNext

\* Ticks come, where the behaviour is about what they do, and days pass.
UpkeepFairness == WF_upkeepVars(about = "upkeep" /\ ChoreStep) /\ WF_upkeepVars(DayPasses)

vars == <<noticesVars, rollupVars, tickLogVars, window, askVars, upkeepVars, bodiesVars,
          rolesVars, instructionsVars, verdictVars, heartbeatVars, serversVars, about>>
Spec == Init /\ [][Next]_vars /\ NoticesFairness /\ AskFairness /\ UpkeepFairness
=============================================================================
