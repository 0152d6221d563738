------------------------------ MODULE Servers ------------------------------
(***************************************************************************)
(* The MCP servers of one session type (pu/mcpstore.py, _write_mcp_config   *)
(* in pu/pipeline.py, _require_servers in pu/service.py): a registry that   *)
(* is a log, last line wins; the names the type attaches; and the config    *)
(* that every launch of the type writes to one file in the type's directory *)
(* for its session to read.  Launches of one type may overlap.              *)
(***************************************************************************)
EXTENDS Naturals

CONSTANTS
    McpServers,
    Launches,       \* runs of the type
    WithToken,      \* servers whose record asks for a variable of the environment
    MaxEdits,       \* bound: records of the servers and the type
    MaxBreaks       \* bound: deaths, full disks and changes of the environment

VARIABLES
    registry,       \* the records of each server so far; 0 is none
    attached,       \* in the type's last record
    byHand,         \* history: a record was written past the door
    tokens,         \* is the environment complete
    config,         \* .mcp-session.json: "none", "cut", or the servers it names
    setup,          \* where each launch is, what it attaches and has resolved
    crossed,        \* history: launches that wrote the file beside another
    edits, breaks

serversVars == <<registry, attached, byHand, tokens, config, setup, crossed, edits, breaks>>

Known == {s \in McpServers : registry[s] > 0}
NoServers == [s \in {} |-> 0]
\* A launch ahead, or one that is over.
Setup(step) == [step |-> step, attaches |-> {}, resolved |-> NoServers,
                config |-> [file |-> "none", servers |-> NoServers]]
\* Between opening the file and the session having read it.
UsingFile == {l \in Launches : setup[l].step \in {"write", "start"}}

ServersInit ==
    /\ registry = [s \in McpServers |-> 0]
    /\ attached = {} /\ byHand = FALSE /\ tokens \in BOOLEAN
    /\ config = [file |-> "none", servers |-> NoServers]
    /\ setup = [l \in Launches |-> Setup("ahead")]
    /\ crossed = {} /\ edits = 0 /\ breaks = 0

Break == breaks < MaxBreaks /\ breaks' = breaks + 1

\* write_mcp_server, or a line by hand: it does not touch the types that
\* attach the server.
WriteServer(s) ==
    /\ edits < MaxEdits /\ edits' = edits + 1
    /\ registry' = [registry EXCEPT ![s] = @ + 1]
    /\ UNCHANGED <<attached, byHand, tokens, config, setup, crossed, breaks>>

\* An edit of the type may attach known servers only.
Attach(servers) ==
    /\ edits < MaxEdits /\ edits' = edits + 1
    /\ servers \subseteq Known
    /\ attached' = servers
    /\ UNCHANGED <<registry, byHand, tokens, config, setup, crossed, breaks>>

AttachByHand(servers) ==
    /\ edits < MaxEdits /\ edits' = edits + 1
    /\ attached' = servers
    /\ byHand' = TRUE
    /\ UNCHANGED <<registry, tokens, config, setup, crossed, breaks>>

EnvironmentChanges ==
    /\ Break
    /\ tokens' = ~tokens
    /\ UNCHANGED <<registry, attached, byHand, config, setup, crossed, edits>>

\* The tick takes the type with its record; without servers there is no file.
TakeType(l) ==
    /\ setup[l].step = "ahead" /\ attached # {}
    /\ setup' = [setup EXCEPT ![l].step = "resolve", ![l].attaches = attached]
    /\ UNCHANGED <<registry, attached, byHand, tokens, config, crossed, edits, breaks>>

ToResolve(l) == setup[l].attaches \ DOMAIN setup[l].resolved

\* resolve: the server as it is now, its placeholders filled, or no session.
Resolve(l, s) ==
    /\ setup[l].step = "resolve" /\ s \in ToResolve(l)
    /\ setup' = IF s \in Known /\ (s \in WithToken => tokens)
                THEN [setup EXCEPT ![l].resolved =
                         [x \in DOMAIN @ \cup {s} |-> IF x = s THEN registry[s] ELSE @[x]]]
                ELSE [setup EXCEPT ![l].step =
                         IF s \in Known THEN "no token" ELSE "unknown"]
    /\ UNCHANGED <<registry, attached, byHand, tokens, config, crossed, edits, breaks>>

\* Mutation: a config that is there is not written again.
OpenConfigIfMissing(l) ==
    /\ setup[l].step = "resolve" /\ ToResolve(l) = {}
    /\ config' = IF config.file = "whole" THEN config ELSE [file |-> "cut", servers |-> NoServers]
    /\ crossed' = IF UsingFile = {} THEN crossed ELSE crossed \cup UsingFile \cup {l}
    /\ setup' = [setup EXCEPT ![l].step = IF config.file = "whole" THEN "start" ELSE "write"]
    /\ UNCHANGED <<registry, attached, byHand, tokens, edits, breaks>>
OpenConfig(l) ==
    /\ setup[l].step = "resolve" /\ ToResolve(l) = {}
    /\ config' = [file |-> "cut", servers |-> NoServers]
    /\ crossed' = IF UsingFile = {} THEN crossed ELSE crossed \cup UsingFile \cup {l}
    /\ setup' = [setup EXCEPT ![l].step = "write"]
    /\ UNCHANGED <<registry, attached, byHand, tokens, edits, breaks>>

\* Over what another launch has written since, the rest of a longer text stays.
WriteConfig(l) ==
    /\ setup[l].step = "write"
    /\ config' \in {[file |-> "whole", servers |-> setup[l].resolved]}
                   \cup (IF config.file = "whole"
                         THEN {[file |-> "cut", servers |-> NoServers]} ELSE {})
    /\ setup' = [setup EXCEPT ![l].step = "start"]
    /\ UNCHANGED <<registry, attached, byHand, tokens, crossed, edits, breaks>>

\* The disk is full, and the error ends the tick.
ConfigFails(l) ==
    /\ setup[l].step = "write" /\ Break
    /\ setup' = [setup EXCEPT ![l] = Setup("failed")]
    /\ UNCHANGED <<registry, attached, byHand, tokens, config, crossed, edits>>

\* The session starts and reads the file.
ReadsConfig(l) ==
    /\ setup[l].step = "start"
    /\ setup' = [setup EXCEPT ![l].step = "session", ![l].config = config]
    /\ UNCHANGED <<registry, attached, byHand, tokens, config, crossed, edits, breaks>>

\* The process dies, with every launch; the file stays.
ServersDie ==
    /\ \E l \in Launches : setup[l].step \in {"resolve", "write", "start"}
    /\ Break
    /\ setup' = [l \in Launches |->
                    IF setup[l].step \in {"resolve", "write", "start"} THEN Setup("failed") ELSE setup[l]]
    /\ UNCHANGED <<registry, attached, byHand, tokens, config, crossed, edits>>

ServersNext ==
    \/ \E s \in McpServers : WriteServer(s)
    \/ \E servers \in SUBSET McpServers : Attach(servers) \/ AttachByHand(servers)
    \/ EnvironmentChanges \/ ServersDie
    \/ \E l \in Launches : \/ TakeType(l) \/ OpenConfig(l) \/ WriteConfig(l) \/ ConfigFails(l)
                           \/ ReadsConfig(l)
                           \/ \E s \in McpServers : Resolve(l, s)
-----------------------------------------------------------------------------
\* A session reaches the servers its launch attached and no others, each as it
\* was resolved for that launch, unless another launch of its type wrote the one
\* file meanwhile; and a launch finds a server unknown only if the type's record
\* went past the door, however types and servers were edited since.
ReachesItsServers ==
    \A l \in Launches :
        /\ setup[l].step = "session" /\ l \notin crossed =>
               /\ setup[l].config = [file |-> "whole", servers |-> setup[l].resolved]
               /\ DOMAIN setup[l].resolved = setup[l].attaches
        /\ setup[l].step = "unknown" => byHand
=============================================================================
