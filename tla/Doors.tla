------------------------------- MODULE Doors -------------------------------
(***************************************************************************)
(* The doors through which session types and triggers are written          *)
(* (pu/service.py): an agent's write of a whole record, the dashboard's     *)
(* on/off press, a person's edit, a rename, and a tick that switches a type *)
(* off because its role is gone.  Every request runs in a thread of its own *)
(* and every door reads the log once or twice before it appends, with no    *)
(* lock between.                                                           *)
(*                                                                         *)
(* The log is append-only and its last line for a name wins, so its state   *)
(* is one record a name.  For session types only PERMISSION_FIELDS count as *)
(* an edit; for triggers every field does.                                 *)
(***************************************************************************)
EXTENDS Naturals

CONSTANTS
    Names,
    Grants,          \* what a record may do: the PERMISSION_FIELDS together
    Texts,           \* the rest of it
    Callers,         \* the threads that serve the doors
    None,            \* no line under a name
    AllFieldsCount,  \* TRUE: the log of triggers, FALSE: of session types
    MaxCalls         \* bound: calls begun

Records == [grant : Grants, text : Texts, enabled : BOOLEAN, retired : BOOLEAN]
Nothing == [door |-> "none"]

ASSUME DoorsAssumption ==
    AllFieldsCount \in BOOLEAN /\ MaxCalls \in Nat /\ None \notin Records

VARIABLES
    log,    \* Names -> the last line, or None
    pc,     \* where each caller is
    call,   \* what it was called with, or has built: door, name, record, ...
    prev,   \* what it read as `previous`
    approved,  \* history: <<name, subject>> a write judged an activation, or a person made
    calls

vars == <<log, pc, call, prev, approved, calls>>

Exists(line) == line # None
Live(line) == Exists(line) /\ line.enabled

\* What an edit is judged by (_changes_more_than_enabled).
Subject(record) ==
    IF AllFieldsCount THEN <<record.grant, record.text, record.retired>> ELSE <<record.grant>>
Off(record) == [record EXCEPT !.enabled = FALSE]

\* Mutation: a new record is written as it came.
ActivationAsAsked(previous, record, human) ==
    IF Live(previous) /\ ~human /\ Subject(record) # Subject(previous)
    THEN Off(record) ELSE record
\* Created inactive; an edit of a live record switches it off, unless a person
\* made it; a write that touches only the switch is honoured.
Activation(previous, record, human) ==
    IF \/ ~Exists(previous)
       \/ Live(previous) /\ ~human /\ Subject(record) # Subject(previous)
    THEN Off(record)
    ELSE record

\* What a door judges an activation: the notice to the owner is queued after it.
Activated(previous, record) == record.enabled /\ Exists(previous) /\ ~previous.enabled
-----------------------------------------------------------------------------
Init ==
    /\ log = [n \in Names |-> None]
    /\ pc = [c \in Callers |-> "idle"]
    /\ call = [c \in Callers |-> Nothing]
    /\ prev = [c \in Callers |-> None]
    /\ approved = {}
    /\ calls = 0

Begin(c, step, request) ==
    /\ pc[c] = "idle" /\ calls < MaxCalls
    /\ calls' = calls + 1
    /\ pc' = [pc EXCEPT ![c] = step]
    /\ call' = [call EXCEPT ![c] = request]
    /\ UNCHANGED <<log, prev, approved>>

Goto(c, step) == pc' = [pc EXCEPT ![c] = step]
Leave(c) ==
    /\ Goto(c, "idle")
    /\ call' = [call EXCEPT ![c] = Nothing]
    /\ prev' = [prev EXCEPT ![c] = None]

\* write_session_type, write_trigger: any record, from an agent.
Write(c, n, record) ==
    Begin(c, "previous", [door |-> "write", name |-> n, record |-> record])

\* set_..._enabled: the record as it is now, with the switch as pressed.
Press(c, n, on) ==
    /\ Exists(log[n])
    /\ Begin(c, "previous", [door |-> "press", name |-> n,
                             record |-> [log[n] EXCEPT !.enabled = on]])

\* edit_...: a patch over the record as it is now, from a person.  The fields
\* the patch does not name keep their values, and so does the switch.
Edit(c, n, grant, text) ==
    LET kept == IF Exists(log[n])
                THEN log[n]
                ELSE [grant |-> grant, text |-> text, enabled |-> FALSE, retired |-> FALSE]
    IN Begin(c, "previous", [door |-> "edit", name |-> n,
                             record |-> [kept EXCEPT !.grant = grant, !.text = text]])

ReadPrevious(c) ==
    /\ pc[c] = "previous"
    /\ prev' = [prev EXCEPT ![c] = log[call[c].name]]
    /\ Goto(c, "append")
    /\ UNCHANGED <<log, call, approved, calls>>

\* An unknown role, an unknown server, a record that is not valid, or a name
\* that is not free.
Refuse(c) ==
    /\ pc[c] \in {"append", "renamed"}
    /\ Leave(c)
    /\ UNCHANGED <<log, approved, calls>>

Append(c) ==
    /\ pc[c] = "append"
    /\ LET name == call[c].name
           human == call[c].door = "edit"
           written == Activation(prev[c], call[c].record, human)
       IN /\ log' = [log EXCEPT ![name] = written]
          /\ approved' = IF Activated(prev[c], written) \/ (human /\ written.enabled)
                      THEN approved \cup {<<name, Subject(written)>>}
                      ELSE approved
    /\ Leave(c)
    /\ UNCHANGED calls

\* _renamed: the record under its old name, then whether the new name is free,
\* then a line for each.
RenameBegin(c, old, new) ==
    /\ Exists(log[old]) /\ new # old
    /\ Begin(c, "held", [door |-> "rename", name |-> old, to |-> new, record |-> log[old]])

RenameHeld(c) ==
    /\ pc[c] = "held"
    /\ LET held == log[call[c].to]
       IN IF Exists(held) /\ ~held.retired
          THEN Leave(c)
          ELSE Goto(c, "renamed") /\ UNCHANGED <<call, prev>>
    /\ UNCHANGED <<log, approved, calls>>

\* The rename does not switch off: what was approved of the old name is of the new.
RenameAppend(c) ==
    /\ pc[c] = "renamed"
    /\ LET record == call[c].record
       IN /\ log' = [log EXCEPT ![call[c].to] = record]
          /\ approved' = approved \cup
                {<<call[c].to, s>> : s \in {s \in {Subject(record)} :
                                              <<call[c].name, s>> \in approved}}
    /\ Goto(c, "retire")
    /\ UNCHANGED <<call, prev, calls>>

RenameRetire(c) ==
    /\ pc[c] = "retire"
    /\ log' = [log EXCEPT ![call[c].name] =
                   [call[c].record EXCEPT !.enabled = FALSE, !.retired = TRUE]]
    /\ Leave(c)
    /\ UNCHANGED <<approved, calls>>

\* A tick takes the enabled records once; later, before a launch, it finds a
\* role gone, and appends the record it has, switched off.
TickReads(c, n) ==
    /\ ~AllFieldsCount
    /\ Live(log[n])
    /\ Begin(c, "launch", [door |-> "tick", name |-> n, record |-> log[n]])

RoleExists(c) ==
    /\ pc[c] = "launch"
    /\ Leave(c)
    /\ UNCHANGED <<log, approved, calls>>

RoleGone(c) ==
    /\ pc[c] = "launch"
    /\ log' = [log EXCEPT ![call[c].name] = Off(call[c].record)]
    /\ Leave(c)
    /\ UNCHANGED <<approved, calls>>

\* The process dies; the log is what was appended.
Die ==
    /\ \E c \in Callers : pc[c] # "idle"
    /\ pc' = [c \in Callers |-> "idle"]
    /\ call' = [c \in Callers |-> Nothing]
    /\ prev' = [c \in Callers |-> None]
    /\ UNCHANGED <<log, approved, calls>>

Next ==
    \/ \E c \in Callers :
          \/ ReadPrevious(c) \/ Refuse(c) \/ Append(c)
          \/ RenameHeld(c) \/ RenameAppend(c) \/ RenameRetire(c)
          \/ RoleExists(c) \/ RoleGone(c)
          \/ \E n \in Names : \/ \E record \in Records : Write(c, n, record)
                              \/ \E on \in BOOLEAN : Press(c, n, on)
                              \/ \E grant \in Grants, text \in Texts : Edit(c, n, grant, text)
                              \/ \E new \in Names : RenameBegin(c, n, new)
                              \/ TickReads(c, n)
    \/ Die

Spec == Init /\ [][Next]_vars
-----------------------------------------------------------------------------
Requests(doors) == [door : doors, name : Names, record : Records]
Renames == [door : {"rename"}, name : Names, to : Names, record : Records]

\* The range of every variable, and what each step has in hand; a rename that
\* is under way has two names.
TypeOK ==
    /\ log \in [Names -> Records \cup {None}]
    /\ pc \in [Callers -> {"idle", "previous", "append", "held", "renamed", "retire", "launch"}]
    /\ call \in [Callers -> {Nothing} \cup Renames
                              \cup Requests({"write", "press", "edit", "tick"})]
    /\ \A c \in Callers :
          /\ pc[c] \in {"previous", "append"} => call[c] \in Requests({"write", "press", "edit"})
          /\ pc[c] \in {"held", "renamed", "retire"} =>
                call[c] \in Renames /\ call[c].to # call[c].name
          /\ pc[c] = "launch" => call[c] \in Requests({"tick"})
    /\ prev \in [Callers -> Records \cup {None}]

\* Whatever is live under a name was approved as it is: a door judged the write
\* that switched it on an activation, or a person made it so.  No order of
\* writes, presses, edits, renames and ticks that read before the others append
\* brings a permission (for a trigger, a record) to life that was never judged.
LiveIsApproved == \A n \in Names : Live(log[n]) => <<n, Subject(log[n])>> \in approved
=============================================================================
