---------------------------- MODULE DoorsProofs ----------------------------
(***************************************************************************)
(* What the doors guarantee for any names, permissions and number of        *)
(* callers, for the log of session types and for the log of triggers.       *)
(***************************************************************************)
EXTENDS Doors, TLAPS

\* What a caller read and will be judged by, or will write again under another
\* name, was approved when it was read.  It may be stale by now; `approved`
\* never shrinks.
ReadIsApproved ==
    \A c \in Callers :
       /\ pc[c] = "append" /\ Live(prev[c]) =>
             <<call[c].name, Subject(prev[c])>> \in approved
       /\ pc[c] \in {"held", "renamed"} /\ call[c].record.enabled =>
             <<call[c].name, Subject(call[c].record)>> \in approved

IInv == TypeOK /\ LiveIsApproved /\ ReadIsApproved
-----------------------------------------------------------------------------
LEMMA RecordsStayRecords ==
    ASSUME NEW r \in Records
    PROVE  /\ Off(r) \in Records /\ ~Off(r).enabled
           /\ \A on \in BOOLEAN : [r EXCEPT !.enabled = on] \in Records
           /\ \A g \in Grants, x \in Texts : [r EXCEPT !.grant = g, !.text = x] \in Records
           /\ [r EXCEPT !.enabled = FALSE, !.retired = TRUE] \in Records
           /\ ~[r EXCEPT !.enabled = FALSE, !.retired = TRUE].enabled
    BY DEF Records, Off

\* What a door writes is the record it was given, or that record switched off.
LEMMA ActivationWrites ==
    ASSUME NEW p, NEW r \in Records, NEW human \in BOOLEAN
    PROVE  /\ Activation(p, r, human) \in Records
           /\ Activation(p, r, human).enabled =>
                 /\ Activation(p, r, human) = r
                 /\ Exists(p)
                 /\ Live(p) /\ ~human => Subject(r) = Subject(p)
    BY RecordsStayRecords DEF Activation, Live

LEMMA TypeInit == Init => TypeOK
    BY DoorsAssumption DEF Init, TypeOK

\* A call that begins with a well-formed request, at the step meant for it.
LEMMA BeginTypes ==
    ASSUME TypeOK, NEW c \in Callers, NEW step, NEW request, Begin(c, step, request),
           \/ step = "previous" /\ request \in Requests({"write", "press", "edit"})
           \/ step = "launch" /\ request \in Requests({"tick"})
           \/ step = "held" /\ request \in Renames /\ request.to # request.name
    PROVE  TypeOK'
    <1>1. request \in {Nothing} \cup Renames \cup Requests({"write", "press", "edit", "tick"})
        BY DEF Requests
    <1>2. /\ pc' \in [Callers -> {"idle", "previous", "append", "held", "renamed",
                                  "retire", "launch"}]
          /\ call' \in [Callers -> {Nothing} \cup Renames
                                   \cup Requests({"write", "press", "edit", "tick"})]
        BY <1>1 DEF TypeOK, Begin
    <1>3. ASSUME NEW d \in Callers, d # c
          PROVE  pc'[d] = pc[d] /\ call'[d] = call[d]
        BY <1>3 DEF TypeOK, Begin
    <1>4. pc'[c] = step /\ call'[c] = request
        BY DEF TypeOK, Begin
    <1>5. log' = log /\ prev' = prev
        BY DEF Begin
    <1> QED
        BY <1>2, <1>3, <1>4, <1>5 DEF TypeOK

\* A step that leaves, having appended a record or nothing.
LEMMA LeaveTypes ==
    ASSUME TypeOK, NEW c \in Callers, Leave(c), log' \in [Names -> Records \cup {None}]
    PROVE  TypeOK'
    <1>1. ASSUME NEW d \in Callers
          PROVE  \/ pc'[d] = "idle"
                 \/ pc'[d] = pc[d] /\ call'[d] = call[d]
        BY DEF TypeOK, Leave, Goto
    <1>2. /\ pc' \in [Callers -> {"idle", "previous", "append", "held", "renamed",
                                  "retire", "launch"}]
          /\ call' \in [Callers -> {Nothing} \cup Renames
                                   \cup Requests({"write", "press", "edit", "tick"})]
          /\ prev' \in [Callers -> Records \cup {None}]
        BY DEF TypeOK, Leave, Goto
    <1> QED
        BY <1>1, <1>2 DEF TypeOK

\* A step that goes on with the same call.
LEMMA GotoTypes ==
    ASSUME TypeOK, NEW c \in Callers, NEW step, Goto(c, step), call' = call,
           \/ pc[c] = "previous" /\ step = "append"
           \/ pc[c] = "held" /\ step = "renamed"
           \/ pc[c] = "renamed" /\ step = "retire",
           log' \in [Names -> Records \cup {None}],
           prev' \in [Callers -> Records \cup {None}]
    PROVE  TypeOK'
    <1>1. ASSUME NEW d \in Callers, d # c
          PROVE  pc'[d] = pc[d]
        BY <1>1 DEF TypeOK, Goto
    <1>2. pc'[c] = step
        BY DEF TypeOK, Goto
    <1>3. pc' \in [Callers -> {"idle", "previous", "append", "held", "renamed",
                               "retire", "launch"}]
        BY DEF TypeOK, Goto
    <1> QED
        BY <1>1, <1>2, <1>3 DEF TypeOK
-----------------------------------------------------------------------------
\* Nothing is written to the log, and nothing is taken in hand but `c`'s.
LEMMA BeginKeeps ==
    ASSUME IInv, NEW c \in Callers, NEW step, NEW request, Begin(c, step, request),
           step \in {"previous", "launch", "held"},
           step = "held" => /\ request.name \in Names
                            /\ request.record = log[request.name]
                            /\ Exists(request.record)
    PROVE  LiveIsApproved' /\ ReadIsApproved'
    <1> USE DEF IInv
    <1>1. LiveIsApproved'
        BY DEF LiveIsApproved, Begin, Live, Exists, Subject
    <1>2. ASSUME NEW d \in Callers
          PROVE  /\ pc'[d] = "append" /\ Live(prev'[d]) =>
                       <<call'[d].name, Subject(prev'[d])>> \in approved'
                 /\ pc'[d] \in {"held", "renamed"} /\ call'[d].record.enabled =>
                       <<call'[d].name, Subject(call'[d].record)>> \in approved'
        <2>1. CASE d = c
            <3>1. pc'[c] = step /\ call'[c] = request /\ approved' = approved
                BY DEF TypeOK, Begin
            <3>2. step = "held" /\ request.record.enabled =>
                     <<request.name, Subject(request.record)>> \in approved
                BY DEF LiveIsApproved, Live
            <3> QED
                BY <2>1, <3>1, <3>2
        <2>2. CASE d # c
            <3>1. /\ pc'[d] = pc[d] /\ call'[d] = call[d]
                  /\ prev' = prev /\ approved' = approved
                BY <2>2 DEF TypeOK, Begin
            <3> QED
                BY <3>1 DEF ReadIsApproved
        <2> QED
            BY <2>1, <2>2
    <1> QED
        BY <1>1, <1>2 DEF ReadIsApproved, Live, Exists, Subject

\* `c` has nothing in hand any more; the others keep what they have, and
\* `approved` did not shrink.
LEMMA LeaveKeeps ==
    ASSUME IInv, NEW c \in Callers, Leave(c), approved \subseteq approved'
    PROVE  ReadIsApproved'
    <1>1. ASSUME NEW d \in Callers
          PROVE  \/ pc'[d] = "idle"
                 \/ pc'[d] = pc[d] /\ call'[d] = call[d] /\ prev'[d] = prev[d]
        BY DEF IInv, TypeOK, Leave, Goto
    <1> QED
        BY <1>1 DEF IInv, ReadIsApproved, Live, Exists, Subject

\* A line that is switched off needs no approval.
LEMMA OffKeeps ==
    ASSUME IInv, NEW n \in Names, NEW r \in Records, ~r.enabled,
           log' = [log EXCEPT ![n] = r], approved \subseteq approved'
    PROVE  LiveIsApproved'
    <1>1. ASSUME NEW m \in Names
          PROVE  log'[m] = IF m = n THEN r ELSE log[m]
        BY DEF IInv, TypeOK
    <1> QED
        BY <1>1 DEF IInv, LiveIsApproved, Live, Exists, Subject
-----------------------------------------------------------------------------
LEMMA AppendKeeps ==
    ASSUME IInv, NEW c \in Callers, Append(c)
    PROVE  IInv'
    <1> DEFINE name == call[c].name
               record == call[c].record
               human == call[c].door = "edit"
               written == Activation(prev[c], record, human)
    <1>1. name \in Names /\ record \in Records /\ human \in BOOLEAN
        BY DEF IInv, TypeOK, Append, Requests
    <1>2. /\ log' = [log EXCEPT ![name] = written]
          /\ approved' = IF Activated(prev[c], written) \/ (human /\ written.enabled)
                         THEN approved \cup {<<name, Subject(written)>>}
                         ELSE approved
          /\ Leave(c) /\ pc[c] = "append"
        BY DEF Append
    <1>3. /\ written \in Records
          /\ written.enabled => /\ written = record
                                /\ Exists(prev[c])
                                /\ Live(prev[c]) /\ ~human => Subject(record) = Subject(prev[c])
        BY <1>1, ActivationWrites
    <1>4. TypeOK'
        <2>1. log' \in [Names -> Records \cup {None}]
            BY <1>1, <1>2, <1>3 DEF IInv, TypeOK
        <2> QED
            BY <2>1, <1>2, LeaveTypes DEF IInv
    <1>5. approved \subseteq approved'
        BY <1>2
    <1>6. ReadIsApproved'
        BY <1>2, <1>5, LeaveKeeps
    <1>7. ASSUME written.enabled
          PROVE  <<name, Subject(written)>> \in approved'
        <2>1. CASE ~prev[c].enabled
            <3>1. Activated(prev[c], written)
                BY <1>3, <1>7, <2>1 DEF Activated
            <3> QED
                BY <1>2, <3>1
        <2>2. CASE human
            BY <1>2, <1>7, <2>2
        <2>3. CASE prev[c].enabled /\ ~human
            <3>1. Live(prev[c])
                BY <1>3, <1>7, <2>3 DEF Live
            <3>2. <<name, Subject(prev[c])>> \in approved
                BY <1>2, <3>1 DEF IInv, ReadIsApproved
            <3> QED
                BY <1>3, <1>5, <1>7, <2>3, <3>1, <3>2
        <2> QED
            BY <2>1, <2>2, <2>3
    <1>8. LiveIsApproved'
        <2>1. ASSUME NEW m \in Names
              PROVE  log'[m] = IF m = name THEN written ELSE log[m]
            BY <1>2 DEF IInv, TypeOK
        <2>2. ASSUME NEW m \in Names, Live(log'[m])
              PROVE  <<m, Subject(log'[m])>> \in approved'
            <3>1. CASE m = name
                BY <1>7, <2>1, <2>2, <3>1 DEF Live
            <3>2. CASE m # name
                BY <1>5, <2>1, <2>2, <3>2 DEF IInv, LiveIsApproved
            <3> QED
                BY <3>1, <3>2
        <2> QED
            BY <2>2 DEF LiveIsApproved, Live, Exists, Subject
    <1> QED
        BY <1>4, <1>6, <1>8 DEF IInv

LEMMA ReadPreviousKeeps ==
    ASSUME IInv, NEW c \in Callers, ReadPrevious(c)
    PROVE  IInv'
    <1>1. call[c].name \in Names
        BY DEF IInv, TypeOK, ReadPrevious, Requests
    <1>2. TypeOK'
        <2>1. prev' \in [Callers -> Records \cup {None}]
            BY <1>1 DEF IInv, TypeOK, ReadPrevious
        <2> QED
            BY <2>1, GotoTypes DEF IInv, TypeOK, ReadPrevious
    <1>3. LiveIsApproved'
        BY DEF IInv, LiveIsApproved, ReadPrevious, Live, Exists, Subject
    <1>4. ASSUME NEW d \in Callers
          PROVE  /\ pc'[d] = "append" /\ Live(prev'[d]) =>
                       <<call'[d].name, Subject(prev'[d])>> \in approved'
                 /\ pc'[d] \in {"held", "renamed"} /\ call'[d].record.enabled =>
                       <<call'[d].name, Subject(call'[d].record)>> \in approved'
        <2>1. CASE d = c
            <3>1. /\ pc'[c] = "append" /\ prev'[c] = log[call[c].name]
                  /\ call' = call /\ approved' = approved
                BY DEF IInv, TypeOK, ReadPrevious, Goto
            <3> QED
                BY <1>1, <2>1, <3>1 DEF IInv, LiveIsApproved
        <2>2. CASE d # c
            <3>1. /\ pc'[d] = pc[d] /\ prev'[d] = prev[d]
                  /\ call' = call /\ approved' = approved
                BY <2>2 DEF IInv, TypeOK, ReadPrevious, Goto
            <3> QED
                BY <3>1 DEF IInv, ReadIsApproved
        <2> QED
            BY <2>1, <2>2
    <1> QED
        BY <1>2, <1>3, <1>4 DEF IInv, ReadIsApproved, Live, Exists, Subject

\* The caller goes from a step of a rename to a later one.
LEMMA RenameReads ==
    ASSUME IInv, NEW c \in Callers, NEW step, Goto(c, step),
           pc[c] \in {"held", "renamed"}, step \in {"renamed", "retire"},
           call' = call, prev' = prev, approved \subseteq approved'
    PROVE  ReadIsApproved'
    <1>1. ASSUME NEW d \in Callers
          PROVE  \/ d # c /\ pc'[d] = pc[d]
                 \/ d = c /\ pc'[d] = step
        BY DEF IInv, TypeOK, Goto
    <1> QED
        BY <1>1 DEF IInv, ReadIsApproved, Live, Exists, Subject

LEMMA RenameHeldKeeps ==
    ASSUME IInv, NEW c \in Callers, RenameHeld(c)
    PROVE  IInv'
    <1>1. log' = log /\ approved' = approved /\ pc[c] = "held"
        BY DEF RenameHeld
    <1>2. LiveIsApproved'
        BY <1>1 DEF IInv, LiveIsApproved, Live, Exists, Subject
    <1>3. log' \in [Names -> Records \cup {None}]
        BY <1>1 DEF IInv, TypeOK
    <1>4. CASE Leave(c)
        BY <1>1, <1>2, <1>3, <1>4, LeaveTypes, LeaveKeeps DEF IInv
    <1>5. CASE Goto(c, "renamed") /\ UNCHANGED <<call, prev>>
        <2>1. prev' \in [Callers -> Records \cup {None}]
            BY <1>5 DEF IInv, TypeOK
        <2>2. TypeOK'
            BY <1>1, <1>3, <1>5, <2>1, GotoTypes DEF IInv
        <2> QED
            BY <1>1, <1>2, <1>5, <2>2, RenameReads DEF IInv
    <1> QED
        BY <1>4, <1>5 DEF RenameHeld

LEMMA RenameAppendKeeps ==
    ASSUME IInv, NEW c \in Callers, RenameAppend(c)
    PROVE  IInv'
    <1> DEFINE old == call[c].name
               new == call[c].to
               record == call[c].record
    <1>1. old \in Names /\ new \in Names /\ record \in Records
        BY DEF IInv, TypeOK, RenameAppend, Renames
    <1>2. /\ log' = [log EXCEPT ![new] = record]
          /\ pc[c] = "renamed" /\ Goto(c, "retire")
          /\ call' = call /\ prev' = prev
        BY DEF RenameAppend
    <1>3. /\ approved \subseteq approved'
          /\ <<old, Subject(record)>> \in approved => <<new, Subject(record)>> \in approved'
        BY DEF RenameAppend
    <1>4. TypeOK'
        <2>1. log' \in [Names -> Records \cup {None}]
            BY <1>1, <1>2 DEF IInv, TypeOK
        <2>2. prev' \in [Callers -> Records \cup {None}]
            BY <1>2 DEF IInv, TypeOK
        <2> QED
            BY <1>2, <2>1, <2>2, GotoTypes DEF IInv
    <1>5. record.enabled => <<new, Subject(record)>> \in approved'
        BY <1>2, <1>3 DEF IInv, ReadIsApproved
    <1>6. ASSUME NEW m \in Names, Live(log'[m])
          PROVE  <<m, Subject(log'[m])>> \in approved'
        <2>1. log'[m] = IF m = new THEN record ELSE log[m]
            BY <1>2 DEF IInv, TypeOK
        <2>2. CASE m = new
            BY <1>5, <1>6, <2>1, <2>2 DEF Live
        <2>3. CASE m # new
            BY <1>3, <1>6, <2>1, <2>3 DEF IInv, LiveIsApproved
        <2> QED
            BY <2>2, <2>3
    <1>7. LiveIsApproved'
        BY <1>6 DEF LiveIsApproved, Live, Exists, Subject
    <1> QED
        BY <1>2, <1>3, <1>4, <1>7, RenameReads DEF IInv

\* The two steps that append a line switched off.
LEMMA OffLineKeeps ==
    ASSUME IInv, NEW c \in Callers, RenameRetire(c) \/ RoleGone(c)
    PROVE  IInv'
    <1>1. call[c].name \in Names /\ call[c].record \in Records
        BY DEF IInv, TypeOK, RenameRetire, RoleGone, Requests, Renames
    <1>2. PICK r \in Records : ~r.enabled /\ log' = [log EXCEPT ![call[c].name] = r]
        BY <1>1, RecordsStayRecords DEF RenameRetire, RoleGone
    <1>3. Leave(c) /\ approved' = approved
        BY DEF RenameRetire, RoleGone
    <1>4. log' \in [Names -> Records \cup {None}]
        BY <1>1, <1>2 DEF IInv, TypeOK
    <1> QED
        BY <1>1, <1>2, <1>3, <1>4, LeaveTypes, LeaveKeeps, OffKeeps DEF IInv

LEMMA GivesUpKeeps ==
    ASSUME IInv, NEW c \in Callers, Refuse(c) \/ RoleExists(c)
    PROVE  IInv'
    <1>1. Leave(c) /\ log' = log /\ approved' = approved
        BY DEF Refuse, RoleExists
    <1>2. LiveIsApproved'
        BY <1>1 DEF IInv, LiveIsApproved, Live, Exists, Subject
    <1>3. log' \in [Names -> Records \cup {None}]
        BY <1>1 DEF IInv, TypeOK
    <1> QED
        BY <1>1, <1>2, <1>3, LeaveTypes, LeaveKeeps DEF IInv

\* A write, a press and an edit begin with a record of their own.
LEMMA DoorsBegin ==
    ASSUME IInv, NEW c \in Callers, NEW n \in Names,
           \/ \E record \in Records : Write(c, n, record)
           \/ \E on \in BOOLEAN : Press(c, n, on)
           \/ \E grant \in Grants, text \in Texts : Edit(c, n, grant, text)
    PROVE  IInv'
    <1>0. Exists(log[n]) => log[n] \in Records
        BY DEF IInv, TypeOK, Exists
    <1>1. \E door \in {"write", "press", "edit"}, record \in Records :
             Begin(c, "previous", [door |-> door, name |-> n, record |-> record])
        <2>1. CASE \E record \in Records : Write(c, n, record)
            BY <2>1 DEF Write
        <2>2. CASE \E on \in BOOLEAN : Press(c, n, on)
            BY <1>0, <2>2, RecordsStayRecords DEF Press
        <2>3. CASE \E grant \in Grants, text \in Texts : Edit(c, n, grant, text)
            <3>1. PICK grant \in Grants, text \in Texts : Edit(c, n, grant, text)
                BY <2>3
            <3> DEFINE kept == IF Exists(log[n])
                               THEN log[n]
                               ELSE [grant |-> grant, text |-> text,
                                     enabled |-> FALSE, retired |-> FALSE]
                       record == [kept EXCEPT !.grant = grant, !.text = text]
            <3>2. kept \in Records
                BY <1>0 DEF Records
            <3>3. record \in Records
                BY <3>2, RecordsStayRecords
            <3>4. Begin(c, "previous", [door |-> "edit", name |-> n, record |-> record])
                BY <3>1 DEF Edit
            <3> QED
                BY <3>3, <3>4
        <2> QED
            BY <2>1, <2>2, <2>3
    <1>2. PICK door \in {"write", "press", "edit"}, record \in Records :
             Begin(c, "previous", [door |-> door, name |-> n, record |-> record])
        BY <1>1
    <1>3. [door |-> door, name |-> n, record |-> record] \in Requests({"write", "press", "edit"})
        BY DEF Requests
    <1>4. TypeOK'
        BY <1>2, <1>3, BeginTypes DEF IInv
    <1>5. LiveIsApproved' /\ ReadIsApproved'
        BY <1>2, BeginKeeps
    <1> QED
        BY <1>4, <1>5 DEF IInv

LEMMA RenameBegins ==
    ASSUME IInv, NEW c \in Callers, NEW old \in Names, NEW new \in Names,
           RenameBegin(c, old, new)
    PROVE  IInv'
    <1> DEFINE request == [door |-> "rename", name |-> old, to |-> new, record |-> log[old]]
    <1>1. log[old] \in Records /\ Exists(log[old]) /\ new # old /\ Begin(c, "held", request)
        BY DEF IInv, TypeOK, RenameBegin, Exists
    <1>2. /\ request \in Renames /\ request.to # request.name
          /\ request.name \in Names /\ request.record = log[request.name]
          /\ Exists(request.record)
        BY <1>1 DEF Renames
    <1> HIDE DEF request
    <1>3. TypeOK'
        BY <1>1, <1>2, BeginTypes DEF IInv
    <1>4. LiveIsApproved' /\ ReadIsApproved'
        BY <1>1, <1>2, BeginKeeps
    <1> QED
        BY <1>3, <1>4 DEF IInv

LEMMA TickBegins ==
    ASSUME IInv, NEW c \in Callers, NEW n \in Names, TickReads(c, n)
    PROVE  IInv'
    <1> DEFINE request == [door |-> "tick", name |-> n, record |-> log[n]]
    <1>1. log[n] \in Records /\ Begin(c, "launch", request)
        BY DEF IInv, TypeOK, TickReads, Live, Exists
    <1>2. request \in Requests({"tick"})
        BY <1>1 DEF Requests
    <1> HIDE DEF request
    <1>3. TypeOK'
        BY <1>1, <1>2, BeginTypes DEF IInv
    <1>4. LiveIsApproved' /\ ReadIsApproved'
        BY <1>1, BeginKeeps
    <1> QED
        BY <1>3, <1>4 DEF IInv

LEMMA DieKeeps ==
    ASSUME IInv, Die
    PROVE  IInv'
    <1>1. TypeOK'
        BY DEF IInv, TypeOK, Die
    <1>2. LiveIsApproved'
        BY DEF IInv, LiveIsApproved, Die, Live, Exists, Subject
    <1>3. ReadIsApproved'
        BY DEF ReadIsApproved, Die
    <1> QED
        BY <1>1, <1>2, <1>3 DEF IInv
-----------------------------------------------------------------------------
LEMMA IInvInit == Init => IInv
    <1> SUFFICES ASSUME Init PROVE IInv
        OBVIOUS
    <1>1. LiveIsApproved
        BY DEF Init, LiveIsApproved, Live, Exists
    <1>2. ReadIsApproved
        BY DEF Init, ReadIsApproved
    <1> QED
        BY <1>1, <1>2, TypeInit DEF IInv

LEMMA IInvNext == IInv /\ [Next]_vars => IInv'
    <1> SUFFICES ASSUME IInv, [Next]_vars PROVE IInv'
        OBVIOUS
    <1>1. CASE UNCHANGED vars
        BY <1>1 DEF vars, IInv, TypeOK, LiveIsApproved, ReadIsApproved, Live, Exists, Subject
    <1>2. CASE Die
        BY <1>2, DieKeeps
    <1>3. CASE \E c \in Callers : ReadPrevious(c) \/ Append(c)
        BY <1>3, ReadPreviousKeeps, AppendKeeps
    <1>4. CASE \E c \in Callers : Refuse(c) \/ RoleExists(c)
        BY <1>4, GivesUpKeeps
    <1>5. CASE \E c \in Callers : RenameHeld(c) \/ RenameAppend(c)
        BY <1>5, RenameHeldKeeps, RenameAppendKeeps
    <1>6. CASE \E c \in Callers : RenameRetire(c) \/ RoleGone(c)
        BY <1>6, OffLineKeeps
    <1>7. CASE \E c \in Callers, n \in Names :
                  \/ \E record \in Records : Write(c, n, record)
                  \/ \E on \in BOOLEAN : Press(c, n, on)
                  \/ \E grant \in Grants, text \in Texts : Edit(c, n, grant, text)
        BY <1>7, DoorsBegin
    <1>8. CASE \E c \in Callers, n \in Names :
                  (\E new \in Names : RenameBegin(c, n, new)) \/ TickReads(c, n)
        BY <1>8, RenameBegins, TickBegins
    <1> QED
        BY <1>1, <1>2, <1>3, <1>4, <1>5, <1>6, <1>7, <1>8 DEF Next

\* Every door keeps its records, requests and log well formed, and a rename
\* under way has two names.
THEOREM DoorsTyped == Spec => []TypeOK
    <1>1. IInv => TypeOK
        BY DEF IInv
    <1> QED
        BY IInvInit, IInvNext, <1>1, PTL DEF Spec

\* However the doors and ticks overlap, what is live was approved as it is.
THEOREM ApprovedBeforeLive == Spec => []LiveIsApproved
    <1>1. IInv => LiveIsApproved
        BY DEF IInv
    <1> QED
        BY IInvInit, IInvNext, <1>1, PTL DEF Spec
=============================================================================
