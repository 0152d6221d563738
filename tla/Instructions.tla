---------------------------- MODULE Instructions ----------------------------
(***************************************************************************)
(* The instructions of one session type (pu/typestore.py, discover in       *)
(* pu/session_types.py).  A write appends a record to the log and then      *)
(* generates the type's CLAUDE.md from it; a line appended to the log by    *)
(* hand generates nothing.  A tick takes the last record, generates the     *)
(* file only if it is missing, starts the session in its directory, and     *)
(* when the session has ended records the hash of the file as the version.  *)
(* The records are enabled: one that is not is not looked at.               *)
(***************************************************************************)
EXTENDS Naturals

CONSTANTS
    Editors,       \* each writes one record, its own
    HandEdits,     \* records appended to the log by hand
    Missing,
    MaxLaunches,   \* bound: ticks that find the type
    MaxCrashes     \* bound: deaths, and full disks

ASSUME InstructionsAssumption ==
    /\ "tick" \notin Editors
    /\ Missing \notin Editors \cup HandEdits \cup {"cut"}
    /\ "cut" \notin Editors \cup HandEdits

VARIABLES
    current,       \* the last record of session_types.jsonl
    claudeMd,      \* CLAUDE.md: missing, "cut", or the record it came from
    edit,          \* where each editor is
    toHand,        \* hand edits to come
    launch,        \* the tick's
    ran,           \* the last session: what it was launched for and given
    alone,         \* history: no other generated while this one did
    astray,        \* history: the file is not known to be the current record's
    crashes, launches

instructionsVars ==
    <<current, claudeMd, edit, toHand, launch, ran, alone, astray, crashes, launches>>

Records == Editors \cup HandEdits
Generators == Editors \cup {"tick"}

\* Who has a record in the log, or in hand, that the file does not hold yet.
Generating == {e \in Editors : edit[e] \in {"open", "write"}}
              \cup (IF launch.step \in {"open", "write"} THEN {"tick"} ELSE {})

NoLaunch == [step |-> "idle", record |-> Missing, given |-> Missing, crossed |-> FALSE]

InstructionsInit ==
    /\ current = Missing /\ claudeMd = Missing
    /\ edit = [e \in Editors |-> "log"]
    /\ toHand = HandEdits
    /\ launch = NoLaunch
    /\ ran = [record |-> Missing, given |-> Missing, version |-> Missing, crossed |-> FALSE]
    /\ alone = [g \in Generators |-> TRUE]
    /\ astray = FALSE /\ crashes = 0 /\ launches = 0

Crash == crashes < MaxCrashes /\ crashes' = crashes + 1

\* Two generate at once: neither knows whose file it will be.
Meet(g) == IF Generating \ {g} = {} THEN [alone EXCEPT ![g] = TRUE]
           ELSE [h \in Generators |-> IF h \in Generating \cup {g} THEN FALSE ELSE alone[h]]
Cross == launch' = [launch EXCEPT !.crossed = TRUE]

\* The record is one line at the end of the log.
AppendRecord(e) ==
    /\ edit[e] = "log"
    /\ current' = e
    /\ edit' = [edit EXCEPT ![e] = "open"]
    /\ alone' = Meet(e)
    /\ Cross
    /\ UNCHANGED <<claudeMd, toHand, ran, astray, crashes, launches>>

OpenFile == claudeMd' = "cut"

\* Over what another has written since, the rest of a longer text stays.
FillFile(record) == \/ claudeMd' = record
                    \/ claudeMd \notin {Missing, "cut"} /\ claudeMd' = "cut"

Generate(e) ==
    \/ /\ edit[e] = "open" /\ OpenFile
       /\ edit' = [edit EXCEPT ![e] = "write"]
       /\ UNCHANGED astray
    \/ /\ edit[e] = "write" /\ FillFile(e)
       /\ edit' = [edit EXCEPT ![e] = "over"]
       /\ astray' = ~alone[e]
GenerateStep(e) ==
    /\ Generate(e)
    /\ Cross
    /\ UNCHANGED <<current, toHand, ran, alone, crashes, launches>>

\* The disk is full: the log has the record and the file is stale or cut.
GenerateFails(e) ==
    /\ edit[e] \in {"open", "write"} /\ Crash
    /\ edit' = [edit EXCEPT ![e] = "over"]
    /\ astray' = TRUE
    /\ UNCHANGED <<current, claudeMd, toHand, launch, ran, alone, launches>>

\* A line by hand; the file is left behind unless there is none, and its own
\* record is no longer the last where one is being generated.
AppendByHand(h) ==
    /\ h \in toHand /\ toHand' = toHand \ {h}
    /\ current' = h
    /\ astray' = (astray \/ claudeMd # Missing \/ Generating # {})
    /\ alone' = [g \in Generators |-> FALSE]
    /\ UNCHANGED <<claudeMd, edit, launch, ran, crashes, launches>>

\* Mutation: the file of a record written by hand is not made.
DiscoverOnly ==
    /\ launch.step = "idle" /\ current # Missing /\ launches < MaxLaunches
    /\ launches' = launches + 1
    /\ launch' = [step |-> "start", record |-> current,
                  given |-> Missing, crossed |-> astray \/ Generating # {}]
    /\ UNCHANGED <<current, claudeMd, edit, toHand, ran, alone, astray, crashes>>
\* discover and ensure_generated: only a missing file is made.
Discover ==
    /\ launch.step = "idle" /\ current # Missing /\ launches < MaxLaunches
    /\ launches' = launches + 1
    /\ launch' = [step |-> IF claudeMd = Missing THEN "open" ELSE "start", record |-> current,
                  given |-> Missing, crossed |-> astray \/ Generating # {}]
    /\ alone' = IF claudeMd = Missing THEN Meet("tick") ELSE alone
    /\ UNCHANGED <<current, claudeMd, edit, toHand, ran, astray, crashes>>

GenerateMissing ==
    /\ \/ /\ launch.step = "open" /\ OpenFile
          /\ launch' = [launch EXCEPT !.step = "write"] /\ UNCHANGED astray
       \/ /\ launch.step = "write" /\ FillFile(launch.record)
          /\ launch' = [launch EXCEPT !.step = "start"]
          /\ astray' = (astray \/ ~alone["tick"])
    /\ UNCHANGED <<current, edit, toHand, ran, alone, crashes, launches>>

\* The session reads the file, or is handed its text, as it starts.
StartSession ==
    /\ launch.step = "start"
    /\ launch' = [launch EXCEPT !.step = "session", !.given = claudeMd]
    /\ UNCHANGED <<current, claudeMd, edit, toHand, ran, alone, astray, crashes, launches>>

\* The version is hashed when the run is recorded.
RecordVersion ==
    /\ launch.step = "session"
    /\ ran' = [record |-> launch.record, given |-> launch.given,
               version |-> claudeMd, crossed |-> launch.crossed]
    /\ launch' = NoLaunch
    /\ UNCHANGED <<current, claudeMd, edit, toHand, alone, astray, crashes, launches>>

\* The process dies, with every editor and the tick.
InstructionsDie ==
    /\ Generating # {} \/ launch.step # "idle"
    /\ Crash
    /\ edit' = [e \in Editors |-> IF edit[e] = "log" THEN "log" ELSE "over"]
    /\ launch' = NoLaunch
    /\ astray' = (astray \/ Generating # {})
    /\ UNCHANGED <<current, claudeMd, toHand, ran, alone, launches>>

InstructionsNext ==
    \/ \E e \in Editors : AppendRecord(e) \/ GenerateStep(e) \/ GenerateFails(e)
    \/ \E h \in HandEdits : AppendByHand(h)
    \/ Discover \/ GenerateMissing \/ StartSession \/ RecordVersion \/ InstructionsDie
-----------------------------------------------------------------------------
\* A recorded session was given the instructions of the record that claimed
\* its task, and its version names them, unless somebody wrote the type during
\* the session or the file had gone astray before: by a hand edit over an
\* existing file, a crash between the log and the file, or two who generated at
\* once.  The next lone write mends the file.
RunsUnderItsRecord ==
    \/ ran.crossed
    \/ ran.given = ran.record /\ ran.version = ran.record
=============================================================================
