------------------------------- MODULE Bodies -------------------------------
(***************************************************************************)
(* The long text of a task (pu/bodies.py): written to a temporary file      *)
(* beside it, which then takes its place.  Every writer of one body uses    *)
(* the same temporary name and takes no lock, so a writer may hold open     *)
(* what another has just put in place.  cursors.json is written the same    *)
(* way (TriggerStore.save_cursor, pu/triggers.py).                          *)
(***************************************************************************)
EXTENDS Naturals

CONSTANTS
    Writers,      \* each sets the body once, to a text of its own
    NoFile,
    MaxFaults     \* bound: full disks and deaths

ASSUME BodiesAssumption == "partial" \notin Writers /\ NoFile \notin Writers \cup {"partial"}

\* A file is known by the writer that created it.
Contents == Writers \cup {"partial"}

VARIABLES
    content,     \* of each file
    tmp, body,   \* the files under the temporary name and in place
    put,         \* where each writer is, and the file it has open
    settled,     \* history: the writer whose set() was the last to return
    between,     \* history: writers that were in set() with another
    faults

bodiesVars == <<content, tmp, body, put, settled, between, faults>>

NotPutting == [step |-> "start", file |-> NoFile]
Putting == {w \in Writers : put[w].step \in {"write", "replace"}}

BodiesInit ==
    /\ content = [w \in Writers |-> "partial"]
    /\ tmp = NoFile /\ body = NoFile
    /\ put = [w \in Writers |-> NotPutting]
    /\ settled = NoFile /\ between = {} /\ faults = 0

Fault == faults < MaxFaults /\ faults' = faults + 1
PutOver(w) == put' = [put EXCEPT ![w] = [step |-> "over", file |-> NoFile]]

\* Mutation: the body itself is opened and written.
OpenBody(w) ==
    /\ put[w] = NotPutting
    /\ LET file == IF body = NoFile THEN w ELSE body
       IN /\ body' = file
          /\ content' = [content EXCEPT ![file] = "partial"]
          /\ put' = [put EXCEPT ![w] = [step |-> "write", file |-> file]]
    /\ between' = IF Putting = {} THEN between ELSE between \cup Putting \cup {w}
    /\ UNCHANGED <<tmp, settled, faults>>
\* The temporary file is created, or emptied where another has left or is
\* writing it.
OpenTemporary(w) ==
    /\ put[w] = NotPutting
    /\ LET file == IF tmp = NoFile THEN w ELSE tmp
       IN /\ tmp' = file
          /\ content' = [content EXCEPT ![file] = "partial"]
          /\ put' = [put EXCEPT ![w] = [step |-> "write", file |-> file]]
    /\ between' = IF Putting = {} THEN between ELSE between \cup Putting \cup {w}
    /\ UNCHANGED <<body, settled, faults>>

\* Over another writer's text the rest of a longer one stays.
WriteTemporary(w) ==
    /\ put[w].step = "write"
    /\ \E text \in {w} \cup (IF content[put[w].file] \in Writers THEN {"partial"} ELSE {}) :
          content' = [content EXCEPT ![put[w].file] = text]
    /\ put' = [put EXCEPT ![w].step = "replace"]
    /\ UNCHANGED <<tmp, body, settled, between, faults>>

\* An error to the caller if another has moved the temporary file away.
ReplaceBody(w) ==
    /\ put[w].step = "replace"
    /\ IF tmp = NoFile THEN UNCHANGED <<tmp, body, settled>>
       ELSE body' = tmp /\ tmp' = NoFile /\ settled' = w
    /\ PutOver(w)
    /\ UNCHANGED <<content, between, faults>>

\* The disk is full.
WriteFails(w) ==
    /\ put[w].step = "write" /\ Fault
    /\ content' = [content EXCEPT ![put[w].file] = "partial"]
    /\ PutOver(w)
    /\ UNCHANGED <<tmp, body, settled, between>>

\* The process dies, with every writer; the files stay.
BodiesDie ==
    /\ Putting # {} /\ Fault
    /\ put' = [w \in Writers |-> IF w \in Putting THEN [step |-> "over", file |-> NoFile] ELSE put[w]]
    /\ UNCHANGED <<content, tmp, body, settled, between>>

BodiesNext ==
    \/ \E w \in Writers : \/ OpenTemporary(w) \/ WriteTemporary(w) \/ ReplaceBody(w)
                          \/ WriteFails(w)
    \/ BodiesDie
-----------------------------------------------------------------------------
\* What get() returns is the whole text of the last set() that returned: no
\* full disk, no crash and no left-over temporary file ever shows through.  It
\* takes two writers of one body at once for a reader to see a part of a text
\* or another one.
BodyIsTheLastSet ==
    \/ body = NoFile /\ settled = NoFile
    \/ body # NoFile /\ content[body] = settled
    \/ between # {}
=============================================================================
