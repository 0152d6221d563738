-------------------------- MODULE WayfinderProofs --------------------------
(***************************************************************************)
(* What the doors of maps and tickets keep for any store, any number of     *)
(* callers and any nesting of projects.                                     *)
(***************************************************************************)
EXTENDS Wayfinder, FiniteSetTheorems, TLAPS

\* The one caller told it has the claim has it still.
ClaimHeld == \A x \in Tasks :
    claims[x] = {} \/ (task[x].started /\ \E c \in Callers : claims[x] = {c})

\* The one caller told it resolved a task did, and none of the others can.
OneCloser ==
    /\ \A c \in Callers : pc[c] = "read" => call[c].door \in {"move", "claim", "resolve"}
    /\ \A x \in Tasks : closers[x] = {} \/ (/\ task[x].status = "completed"
                                            /\ \E c \in Callers : closers[x] = {c})

\* Past the check of `resolve` a request is alone on a task that is still open,
\* and has answered it if it is at its `done`; an answer stays on a task that is
\* closed or about to be.
Past(c, x) == pc[c] \in {"children", "answer", "done"} /\ call[c].task = x
AnsweredOnce(x) ==
    /\ \A c, d \in Callers : Past(c, x) /\ Past(d, x) => c = d
    /\ \A c \in Callers : Past(c, x) => Pending(x) /\ answers[x] = IF pc[c] = "done" THEN 1 ELSE 0
    /\ answers[x] \in {0, 1}
    /\ answers[x] = 1 => \/ task[x].status = "completed"
                         \/ \E c \in Callers : pc[c] = "done" /\ call[c].task = x
Answered == \A x \in Tasks \ doubtful : AnsweredOnce(x)

\* Once the tickets of a map have been checked, each one it has came late.
ClosingIsEmpty == \A c \in Callers : pc[c] \in {"answer", "done"} =>
    \A k \in Tickets : Pending(k) /\ task[k].parent = call[c].task => k \in late

\* What a request is about, and what a placement is judged by, is in the store;
\* a map moves to a project that was named.
InStore ==
    /\ \A k \in Tickets : task[k].parent # None => There(task[k].parent)
    /\ \A c \in Callers : pc[c] # "idle" =>
          /\ call[c].task # None => There(call[c].task)
          /\ call[c].parent # None => There(call[c].parent) /\ call[c].task \notin Maps
          /\ call[c].door = "move" /\ call[c].task \in Maps => call[c].project # None
    /\ \A c \in Callers : pc[c] \in {"check", "write"} => There(Over(call[c]))

AsSeen(r) == task[r.task].parent = r.seen.parent /\ task[r.task].project = r.seen.project

\* A placement that nothing has crossed is still what was read and allowed.
Judged(c) ==
    LET r == call[c] IN
    ~r.crossed =>
       /\ pc[c] \in {"check", "write"} /\ r.task \in Tickets => AsSeen(r)
       /\ pc[c] = "write" /\ r.task \notin Maps => placed(r.project, task[Over(r)].project)
       /\ pc[c] = "write" /\ r.task \in Maps =>
             \A k \in Tickets : Pending(k) /\ task[k].parent = r.task /\ k \notin overlap =>
                placed(task[k].project, r.project)

\* Whatever has become of its map, an open ticket is where its map is.
WellPlaced == \A k \in Tickets :
    Pending(k) /\ task[k].parent # None /\ k \notin overlap =>
        placed(task[k].project, task[task[k].parent].project)

Placement == InStore /\ WellPlaced /\ \A c \in Callers : Judged(c)
IInv ==
    /\ TypeOK /\ ClaimHeld /\ OneCloser /\ Answered
    /\ ClosingIsEmpty /\ OrphansCameLate /\ Placement
-----------------------------------------------------------------------------
LEMMA RequestFields ==
    ASSUME NEW r \in Requests
    PROVE  /\ r.door \in {"none", "create", "move", "claim", "resolve"}
           /\ r.task \in Tasks \cup {None} /\ r.parent \in Maps \cup {None}
           /\ r.project \in Projects \cup {None} /\ r.seen \in Records
           /\ r.crossed \in BOOLEAN
    BY DEF Requests

LEMMA RecordFields ==
    ASSUME NEW t \in Records
    PROVE  /\ t.status \in {"absent", "pending", "completed"} /\ t.started \in BOOLEAN
           /\ t.parent \in Maps \cup {None} /\ t.project \in Projects \cup {None}
    BY DEF Records

LEMMA RecordsStay ==
    ASSUME NEW t \in Records
    PROVE  /\ \A q \in Projects \cup {None} : [t EXCEPT !.project = q] \in Records
           /\ \A m \in Maps \cup {None}, q \in Projects \cup {None} :
                 [t EXCEPT !.parent = m, !.project = q] \in Records
           /\ \A b \in BOOLEAN : [t EXCEPT !.started = b] \in Records
           /\ [t EXCEPT !.status = "pending"] \in Records
           /\ [t EXCEPT !.status = "completed", !.started = FALSE] \in Records
    BY DEF Records

LEMMA Changed ==
    /\ NoTask \in Records /\ Nothing \in Requests
    /\ \A r \in Requests :
          /\ [r EXCEPT !.crossed = TRUE] \in Requests
          /\ Over([r EXCEPT !.crossed = TRUE]) = Over(r)
          /\ \A t \in Records : [r EXCEPT !.seen = t] \in Requests
          /\ \A q \in Projects \cup {None} : [r EXCEPT !.project = q] \in Requests
    BY WayfinderAssumption DEF NoTask, Records, Nothing, Requests, Tasks, Over

\* What a request is given when it begins.
LEMMA RequestType ==
    ASSUME TypeOK, NEW x \in Tasks \cup {None}, NEW m \in Maps \cup {None},
           NEW q \in Projects \cup {None},
           NEW door \in {"create", "move", "claim", "resolve"}
    PROVE  Request(door, x, m, q) \in Requests
    BY Changed, RecordFields DEF TypeOK, Request, Requests

LEMMA BeginTypes ==
    ASSUME TypeOK, NEW c \in Callers, NEW step \in Steps, NEW r \in Requests,
           Begin(c, step, r),
           IF r.door = "create" THEN r.task = None /\ r.parent \in Maps ELSE r.task \in Tasks,
           \/ step = "read" /\ r.door # "create"
           \/ step = "check" /\ r.door = "create"
    PROVE  TypeOK'
    <1>1. ASSUME NEW d \in Callers
          PROVE  /\ pc'[d] = IF d = c THEN step ELSE pc[d]
                 /\ call'[d] = IF d = c THEN r ELSE call[d]
        BY DEF TypeOK, Begin, Goto
    <1>2. pc' \in [Callers -> Steps] /\ call' \in [Callers -> Requests]
        BY DEF TypeOK, Begin, Goto
    <1>3. step = "check" => Over(r) \in Maps
        BY WayfinderAssumption DEF Over, Tasks
    <1> QED
        BY <1>1, <1>2, <1>3 DEF TypeOK, Begin, history, replies

\* A request that goes on to a further step, with what it has read.
LEMMA OnTypes ==
    ASSUME TypeOK, NEW c \in Callers, NEW step \in Steps, Goto(c, step),
           pc[c] # "idle",
           NEW r \in Requests, call' = [call EXCEPT ![c] = r],
           r.door = call[c].door, r.task = call[c].task, r.parent = call[c].parent,
           r.door = "create" => step \in {"check", "write"},
           step \in {"check", "write"} => r.door \in {"create", "move"} /\ Over(r) \in Maps,
           UNCHANGED <<task, late, overlap, claims, closers>>,
           answers' \in [Tasks -> Nat], doubtful' \subseteq Tasks
    PROVE  TypeOK'
    <1>1. ASSUME NEW d \in Callers
          PROVE  /\ pc'[d] = IF d = c THEN step ELSE pc[d]
                 /\ call'[d] = IF d = c THEN r ELSE call[d]
        BY DEF TypeOK, Goto
    <1>2. pc' \in [Callers -> Steps] /\ call' \in [Callers -> Requests]
        BY DEF TypeOK, Goto
    <1> QED
        BY <1>1, <1>2 DEF TypeOK

\* A request that ends, whatever it has written and crossed.
LEMMA EndTypes ==
    ASSUME TypeOK, NEW c \in Callers,
           Leave(c) \/ \E x, m : LeaveCrossing(c, x, m),
           task' \in [Tasks -> Records], late' \subseteq Tickets, overlap' \subseteq Tickets,
           claims' \in [Tasks -> SUBSET Callers], closers' \in [Tasks -> SUBSET Callers],
           answers' = answers, doubtful' \subseteq Tasks
    PROVE  TypeOK'
    <1>1. ASSUME NEW d \in Callers
          PROVE  /\ pc'[d] = IF d = c THEN "idle" ELSE pc[d]
                 /\ d = c => call'[d] = Nothing
                 /\ d # c => call'[d] \in {call[d], [call[d] EXCEPT !.crossed = TRUE]}
        BY DEF TypeOK, Leave, LeaveCrossing, Goto
    <1>2. pc' \in [Callers -> Steps]
        BY DEF TypeOK, Leave, LeaveCrossing, Goto, Steps
    <1>3. call' \in [Callers -> Requests]
        <2>1. \A d \in Callers : call'[d] \in Requests
            BY <1>1, Changed DEF TypeOK
        <2>2. call' = [d \in Callers |-> call'[d]]
            BY DEF TypeOK, Leave, LeaveCrossing
        <2> QED BY <2>1, <2>2
    <1>4. ASSUME NEW d \in Callers, pc'[d] # "idle"
          PROVE  IF call'[d].door = "create"
                 THEN pc'[d] \in {"check", "write"} /\ call'[d].task = None /\ call'[d].parent \in Maps
                 ELSE call'[d].task \in Tasks
        BY <1>1, <1>4 DEF TypeOK, Requests
    <1>5. ASSUME NEW d \in Callers, pc'[d] \in {"check", "write"}
          PROVE  call'[d].door \in {"create", "move"} /\ Over(call'[d]) \in Maps
        <2>1. d # c /\ pc[d] = pc'[d]
            BY <1>1, <1>5
        <2>2. CASE call'[d] = call[d]
            BY <1>5, <2>1, <2>2 DEF TypeOK
        <2>3. CASE call'[d] = [call[d] EXCEPT !.crossed = TRUE]
            <3>1. call[d] \in Requests
                BY DEF TypeOK
            <3>2. Over(call'[d]) = Over(call[d]) /\ call'[d].door = call[d].door
                BY <2>3, <3>1, Changed DEF Requests
            <3> QED BY <1>5, <2>1, <3>2 DEF TypeOK
        <2> QED BY <1>1, <2>1, <2>2, <2>3
    <1> QED
        BY <1>2, <1>3, <1>4, <1>5 DEF TypeOK

\* Steps of no request.
LEMMA NoRequestTypes ==
    ASSUME TypeOK, UNCHANGED <<pc, call, late, overlap, replies, closers>>,
           task' \in [Tasks -> Records], claims' \in [Tasks -> SUBSET Callers]
    PROVE  TypeOK'
    BY DEF TypeOK, replies

LEMMA TypeInit == Init => TypeOK
    <1> SUFFICES ASSUME Init PROVE TypeOK OBVIOUS
    <1>1. task \in [Tasks -> Records]
        <2>1. ASSUME NEW q \in Projects
              PROVE  [NoTask EXCEPT !.status = "pending", !.project = q] \in Records
            BY Changed DEF NoTask, Records
        <2>2. PICK mapTask \in [Maps -> {NoTask} \cup {[NoTask EXCEPT !.status = "pending", !.project = q] : q \in Projects}] :
                 task = [x \in Tasks |-> IF x \in Maps THEN mapTask[x] ELSE NoTask]
            BY DEF Init
        <2>3. ASSUME NEW m \in Maps PROVE mapTask[m] \in Records
            <3>1. mapTask[m] = NoTask
                  \/ \E q \in Projects : mapTask[m] = [NoTask EXCEPT !.status = "pending", !.project = q]
                OBVIOUS
            <3> QED BY <2>1, <3>1, Changed
        <2> QED BY <2>2, <2>3, Changed DEF Tasks
    <1> QED
        BY <1>1, Changed DEF Init, TypeOK, Steps, Tasks

LEMMA ReadTypes ==
    ASSUME TypeOK, NEW c \in Callers, Read(c)
    PROVE  TypeOK'
    <1> USE DEF Outside, history, replies
    <1>1. CASE Leave(c)
        BY <1>1, EndTypes DEF Read, TypeOK
    <1>2. CASE ~Leave(c)
        <2> DEFINE t == task[call[c].task]
                   step == CASE call[c].door = "claim" -> "start"
                             [] call[c].door = "move" -> "check"
                             [] OTHER -> IF call[c].task \in Maps THEN "children" ELSE "answer"
                   seen == IF call[c].door = "move" THEN t ELSE call[c].seen
                   r == [call[c] EXCEPT !.seen = seen]
        <2>1. step \in Steps
            BY DEF Steps
        <2>2. /\ Goto(c, step) /\ call' = [call EXCEPT ![c].seen = seen] /\ pc[c] # "idle"
              /\ ~Refused(call[c], t)
            BY <1>2 DEF Read
        <2>3. call[c].door = "move" => call[c].task \in Tasks
            BY <2>2 DEF TypeOK
        <2>4. call[c] \in Requests /\ seen \in Records
            BY <2>3, RequestFields DEF TypeOK
        <2>5. r \in Requests /\ r.door = call[c].door /\ r.task = call[c].task
                 /\ r.parent = call[c].parent /\ r.seen = seen
            BY <2>4, Changed DEF Requests
        <2>6. call' = [call EXCEPT ![c] = r]
            BY <2>2, <2>4 DEF TypeOK
        <2>7. call[c].door = "move" => Over(r) \in Maps
            <3>1. call[c].door = "move" => Over(r) # None
                BY <2>2 DEF Refused
            <3> QED
                BY <2>4, <2>5, <3>1, RequestFields, RecordFields DEF Over
        <2>8. /\ step \in {"check", "write"} => r.door = "move"
              /\ r.door # "create"
            BY <1>2, <2>5 DEF Read, TypeOK
        <2>9. UNCHANGED <<task, late, overlap, claims, closers>> /\ answers' \in [Tasks -> Nat] /\ doubtful' \subseteq Tasks
            BY DEF Read, TypeOK
        <2> HIDE DEF step, seen, r
        <2> QED
            BY <2>1, <2>2, <2>5, <2>6, <2>7, <2>8, <2>9, OnTypes
    <1> QED BY <1>1, <1>2

LEMMA CheckTypes ==
    ASSUME TypeOK, NEW c \in Callers, Check(c)
    PROVE  TypeOK'
    <1> USE DEF Outside, history, replies
    <1>1. CASE Leave(c)
        BY <1>1, EndTypes DEF Check, TypeOK
    <1>2. CASE ~Leave(c)
        <2> DEFINE q == ProjectOf(call[c])
                   r == [call[c] EXCEPT !.project = q]
        <2>1. /\ Goto(c, "write") /\ call' = [call EXCEPT ![c].project = q] /\ pc[c] = "check"
            BY <1>2 DEF Check
        <2>2. call[c] \in Requests /\ Over(call[c]) \in Maps /\ call[c].door \in {"create", "move"}
            BY <2>1 DEF TypeOK
        <2>3. task[Over(call[c])] \in Records
            BY <2>2 DEF TypeOK, Tasks
        <2>4. q \in Projects \cup {None}
            BY <2>2, <2>3, RequestFields, RecordFields DEF ProjectOf
        <2>5. /\ r \in Requests /\ r.door = call[c].door /\ r.task = call[c].task
              /\ r.parent = call[c].parent /\ r.seen = call[c].seen
            BY <2>2, <2>4, Changed DEF Requests
        <2>6. call' = [call EXCEPT ![c] = r]
            BY <2>1, <2>2 DEF TypeOK
        <2>7. Over(r) \in Maps
            BY <2>2, <2>5 DEF Over
        <2>8. UNCHANGED <<task, late, overlap, claims, closers>> /\ answers' \in [Tasks -> Nat] /\ doubtful' \subseteq Tasks
            BY DEF Check, TypeOK
        <2> HIDE DEF q, r
        <2> QED
            BY <2>1, <2>2, <2>5, <2>6, <2>7, <2>8, OnTypes DEF Steps
    <1> QED BY <1>1, <1>2

\* What the writing steps make of the store.
LEMMA WritesTypes ==
    ASSUME TypeOK, NEW c \in Callers
    PROVE  /\ \A k \in Tickets : Add(c, k) => TypeOK'
           /\ ModifyTicket(c) => TypeOK'
           /\ ModifyMap(c) => TypeOK'
           /\ Start(c) => TypeOK'
           /\ Complete(c) => TypeOK'
    <1> USE DEF Outside, replies
    <1>0. call[c] \in Requests /\ \A x \in Tasks : task[x] \in Records
        BY DEF TypeOK
    <1>1. ASSUME NEW k \in Tickets, Add(c, k) PROVE TypeOK'
        <2>1. task' \in [Tasks -> Records]
            BY <1>0, <1>1, RequestFields DEF Add, TypeOK, Records
        <2> QED
            BY <1>1, <2>1, EndTypes DEF Add, TypeOK
    <1>2. ASSUME ModifyTicket(c) PROVE TypeOK'
        <2>1. Over(call[c]) \in Maps
            BY <1>2 DEF ModifyTicket, TypeOK
        <2>2. task' \in [Tasks -> Records]
            <3> DEFINE r == call[c]
                       k == r.task
                       m == IF Over(r) # r.seen.parent THEN Over(r) ELSE task[k].parent
                       q == IF r.project # r.seen.project THEN r.project ELSE task[k].project
            <3>1. k \in Tasks
                BY <1>2 DEF ModifyTicket, Tasks
            <3>2. m \in Maps \cup {None} /\ q \in Projects \cup {None}
                BY <1>0, <2>1, <3>1, RequestFields, RecordFields
            <3>3. task' = [task EXCEPT ![k] = [task[k] EXCEPT !.parent = m, !.project = q]]
                BY <1>2, <3>1 DEF ModifyTicket, TypeOK
            <3>4. [task[k] EXCEPT !.parent = m, !.project = q] \in Records
                BY <1>0, <3>1, <3>2, RecordsStay
            <3> HIDE DEF m, q
            <3> QED BY <3>1, <3>3, <3>4 DEF TypeOK
        <2> QED
            BY <1>2, <2>2, EndTypes DEF ModifyTicket, TypeOK
    <1>3. ASSUME ModifyMap(c) PROVE TypeOK'
        <2>1. task' \in [Tasks -> Records]
            <3>1. call[c].task \in Tasks
                BY <1>3 DEF ModifyMap, Tasks
            <3>2. task' = [task EXCEPT ![call[c].task] = [task[call[c].task] EXCEPT !.project = call[c].project]]
                BY <1>3 DEF ModifyMap
            <3> QED BY <1>0, <3>1, <3>2, RequestFields, RecordsStay DEF TypeOK
        <2> QED
            BY <1>3, <2>1, EndTypes DEF ModifyMap, TypeOK, Children
    <1>4. ASSUME Start(c) PROVE TypeOK'
        <2>1. task' \in [Tasks -> Records] /\ claims' \in [Tasks -> SUBSET Callers]
            <3>1. call[c].task \in Tasks
                BY <1>4 DEF Start, TypeOK
            <3>2. [task[call[c].task] EXCEPT !.started = TRUE] \in Records
                BY <1>0, <3>1, RecordsStay
            <3> QED BY <1>4, <3>1, <3>2 DEF Start, TypeOK
        <2> QED
            BY <1>4, <2>1, EndTypes DEF Start, TypeOK
    <1>5. ASSUME Complete(c) PROVE TypeOK'
        <2>1. task' \in [Tasks -> Records] /\ claims' \in [Tasks -> SUBSET Callers]
              /\ closers' \in [Tasks -> SUBSET Callers]
            <3>1. call[c].task \in Tasks
                BY <1>5 DEF Complete, TypeOK
            <3>2. [task[call[c].task] EXCEPT !.status = "completed", !.started = FALSE] \in Records
                BY <1>0, <3>1, RecordsStay
            <3>3. task' \in {task, [task EXCEPT ![call[c].task] =
                                [task[call[c].task] EXCEPT !.status = "completed", !.started = FALSE]]}
                BY <1>5, <3>1 DEF Complete, TypeOK
            <3> QED BY <1>5, <3>1, <3>2, <3>3 DEF Complete, TypeOK
        <2> QED
            BY <1>5, <2>1, EndTypes DEF Complete, TypeOK
    <1> QED BY <1>1, <1>2, <1>3, <1>4, <1>5

LEMMA DoorsTypes ==
    ASSUME TypeOK, NEW c \in Callers, Doors(c)
    PROVE  TypeOK'
    <1> USE DEF Outside, history, replies
    <1>1. CASE Read(c) \/ Check(c)
        BY <1>1, ReadTypes, CheckTypes
    <1>2. CASE ModifyTicket(c) \/ ModifyMap(c) \/ Start(c) \/ Complete(c) \/ \E k \in Tickets : Add(c, k)
        BY <1>2, WritesTypes
    <1>3. CASE OpenChildren(c)
        <2>1. CASE Leave(c)
            BY <1>3, <2>1, EndTypes DEF OpenChildren, TypeOK
        <2>2. CASE ~Leave(c)
            <3>1. /\ call[c] \in Requests /\ call[c].door # "create" /\ pc[c] # "idle"
                  /\ Goto(c, "answer") /\ call' = [call EXCEPT ![c] = call[c]]
                  /\ UNCHANGED <<task, late, overlap, claims, closers>>
                  /\ answers' \in [Tasks -> Nat] /\ doubtful' \subseteq Tasks
                BY <1>3, <2>2 DEF OpenChildren, TypeOK
            <3> QED BY <3>1, OnTypes DEF Steps
        <2> QED BY <2>1, <2>2
    <1>4. CASE Annotate(c)
        <2>1. call[c] \in Requests /\ call[c].task \in Tasks
              /\ call[c].door # "create" /\ pc[c] # "idle"
            BY <1>4, RequestFields DEF Annotate, TypeOK
        <2>2. answers' \in [Tasks -> Nat] /\ doubtful' \subseteq Tasks /\ call' = [call EXCEPT ![c] = call[c]]
              /\ Goto(c, "done") /\ UNCHANGED <<task, late, overlap, claims, closers>>
            BY <1>4, <2>1 DEF Annotate, TypeOK
        <2> QED BY <2>1, <2>2, OnTypes DEF Steps
    <1>7. CASE Fails(c)
        BY <1>7, EndTypes DEF Fails, TypeOK
    <1>5. ASSUME NEW m \in Maps, NEW q \in Projects \cup {None}, Create(c, m, q)
          PROVE  TypeOK'
        <2>1. Request("create", None, m, q) \in Requests
            BY RequestType
        <2>2. /\ Request("create", None, m, q).door = "create"
              /\ Request("create", None, m, q).task = None
              /\ Request("create", None, m, q).parent = m
            BY DEF Request
        <2>3. Begin(c, "check", Request("create", None, m, q)) /\ "check" \in Steps
            BY <1>5 DEF Create, Steps
        <2> QED BY <2>1, <2>2, <2>3, BeginTypes
    <1>6. ASSUME NEW x \in Tasks, NEW m \in Maps \cup {None}, NEW q \in Projects \cup {None},
                 Move(c, x, m, q) \/ Claim(c, x) \/ Resolve(c, x)
          PROVE  TypeOK'
        <2>1. /\ Request("move", x, m, q) \in Requests
              /\ Request("claim", x, None, None) \in Requests
              /\ Request("resolve", x, None, None) \in Requests
            BY RequestType
        <2>2. \A door, y, z : Request(door, x, y, z).door = door /\ Request(door, x, y, z).task = x
            BY DEF Request
        <2>3. "read" \in Steps
            BY DEF Steps
        <2> QED BY <1>6, <2>1, <2>2, <2>3, BeginTypes DEF Move, Claim, Resolve
    <1> QED
        BY <1>1, <1>2, <1>3, <1>4, <1>5, <1>6, <1>7 DEF Doors

LEMMA TypeStep == TypeOK /\ [Next]_vars => TypeOK'
    <1> SUFFICES ASSUME TypeOK, [Next]_vars PROVE TypeOK' OBVIOUS
    <1> USE DEF Outside, history, replies
    <1>0. \A x \in Tasks : task[x] \in Records
        BY DEF TypeOK
    <1>1. ASSUME NEW c \in Callers, Doors(c) PROVE TypeOK'
        BY <1>1, DoorsTypes
    <1>2. ASSUME NEW m \in Maps, NEW q \in Projects, CreateMap(m, q) PROVE TypeOK'
        <2>1. [NoTask EXCEPT !.status = "pending", !.project = q] \in Records
            BY DEF NoTask, Records
        <2> QED BY <1>2, <2>1, NoRequestTypes DEF CreateMap, TypeOK, Tasks
    <1>3. ASSUME NEW x \in Tasks, Release(x) PROVE TypeOK'
        BY <1>0, <1>3, RecordsStay, NoRequestTypes DEF Release, TypeOK
    <1>4. ASSUME NEW k \in Tickets, AddByHand(k) PROVE TypeOK'
        BY <1>0, <1>4, RecordsStay, NoRequestTypes DEF AddByHand, TypeOK, Tasks
    <1>5. CASE AuditTells \/ AuditSaves \/ AuditUnsaved
        BY <1>5, NoRequestTypes DEF AuditTells, AuditSaves, AuditUnsaved, TypeOK
    <1>6. CASE Die
        BY <1>6, Changed DEF Die, TypeOK, Steps
    <1>7. CASE UNCHANGED vars
        BY <1>7, NoRequestTypes DEF vars, TypeOK
    <1> QED
        BY <1>1, <1>2, <1>3, <1>4, <1>5, <1>6, <1>7 DEF Next
-----------------------------------------------------------------------------
\* The steps of a request that leave the store alone, and those that write.
Begins(c) ==
    \/ \E m \in Maps, q \in Projects \cup {None} : Create(c, m, q)
    \/ \E x \in Tasks : \/ Claim(c, x) \/ Resolve(c, x)
                        \/ \E m \in Maps \cup {None}, q \in Projects \cup {None} : Move(c, x, m, q)
Looks(c) == Read(c) \/ Check(c) \/ OpenChildren(c) \/ Annotate(c) \/ Fails(c)
Places(c) == ModifyTicket(c) \/ ModifyMap(c) \/ \E k \in Tickets : Add(c, k)
Settles(c) == Start(c) \/ Complete(c)
Aside ==
    \/ \E m \in Maps, q \in Projects : CreateMap(m, q)
    \/ \E x \in Tasks : Release(x)
    \/ \E k \in Tickets : AddByHand(k)
    \/ AuditTells \/ AuditSaves \/ AuditUnsaved \/ Die

LEMMA StepsAre ==
    ASSUME [Next]_vars
    PROVE  \/ \E c \in Callers : Begins(c) \/ Looks(c) \/ Places(c) \/ Settles(c)
           \/ Aside \/ UNCHANGED vars
    BY DEF Next, Doors, Begins, Looks, Places, Settles, Aside

\* What a request is like after a step of its own.
LEMMA OwnStep ==
    ASSUME TypeOK, NEW c \in Callers
    PROVE  /\ Begins(c) =>
                /\ pc[c] = "idle" /\ pc'[c] \in {"read", "check"}
                /\ pc'[c] = "check" => call'[c].door = "create"
                /\ pc'[c] = "read" => call'[c].door \in {"move", "claim", "resolve"}
                /\ call'[c].task # None => There(call'[c].task)
                /\ call'[c].parent # None => There(call'[c].parent) /\ call'[c].task \notin Maps
                /\ call'[c].door = "move" /\ call'[c].task \in Maps => call'[c].project # None
                /\ ~call'[c].crossed
                /\ UNCHANGED <<task, late, overlap, answers, claims, closers>>
           /\ Looks(c) =>
                /\ \/ pc'[c] = "idle" /\ call'[c] = Nothing
                   \/ /\ pc[c] # "idle" /\ pc'[c] \in {"start", "check", "children", "answer", "write", "done"}
                      /\ call'[c].door = call[c].door /\ call'[c].task = call[c].task
                      /\ call'[c].parent = call[c].parent
                      /\ call'[c].crossed = call[c].crossed
                /\ UNCHANGED <<task, late, overlap, claims, closers>>
           /\ Places(c) \/ Settles(c) => pc'[c] = "idle" /\ call'[c] = Nothing
    <1> USE DEF Outside, history, replies
    <1>0. call[c] \in Requests
        BY DEF TypeOK
    <1>1. ASSUME Begins(c)
          PROVE  /\ pc[c] = "idle" /\ pc'[c] \in {"read", "check"}
                 /\ pc'[c] = "check" => call'[c].door = "create"
                 /\ pc'[c] = "read" => call'[c].door \in {"move", "claim", "resolve"}
                 /\ call'[c].task # None => There(call'[c].task)
                 /\ call'[c].parent # None => There(call'[c].parent) /\ call'[c].task \notin Maps
                 /\ call'[c].door = "move" /\ call'[c].task \in Maps => call'[c].project # None
                 /\ ~call'[c].crossed
                 /\ UNCHANGED <<task, late, overlap, answers, claims, closers>>
        <2>1. ASSUME NEW step, NEW r, Begin(c, step, r)
              PROVE  /\ pc[c] = "idle" /\ pc'[c] = step /\ call'[c] = r
                     /\ UNCHANGED <<task, late, overlap, answers, claims, closers>>
            BY <2>1 DEF Begin, Goto, TypeOK
        <2>2. ASSUME NEW x \in Tasks \cup {None}, NEW m, NEW q, NEW door
              PROVE  LET r == Request(door, x, m, q) IN
                     /\ r.door = door /\ r.task = x /\ r.parent = m /\ r.project = q /\ ~r.crossed
            BY DEF Request
        <2>3. ASSUME NEW m \in Maps, NEW q \in Projects \cup {None}, Create(c, m, q)
              PROVE  Begin(c, "check", Request("create", None, m, q)) /\ There(m) /\ None \notin Maps
            BY <2>3, WayfinderAssumption DEF Create, Tasks
        <2>4. ASSUME NEW x \in Tasks, NEW m \in Maps \cup {None}, NEW q \in Projects \cup {None}, Move(c, x, m, q)
              PROVE  /\ Begin(c, "read", Request("move", x, m, q)) /\ There(x) /\ (m # None \/ q # None)
                     /\ m # None => There(m) /\ x \notin Maps
            BY <2>4 DEF Move
        <2>5. ASSUME NEW x \in Tasks, Claim(c, x) \/ Resolve(c, x)
              PROVE  There(x) /\ \E door \in {"claim", "resolve"} : Begin(c, "read", Request(door, x, None, None))
            BY <2>5 DEF Claim, Resolve
        <2>6. CASE \E m \in Maps, q \in Projects \cup {None} : Create(c, m, q)
            BY <2>1, <2>2, <2>3, <2>6
        <2>7. CASE \E x \in Tasks, m \in Maps \cup {None}, q \in Projects \cup {None} : Move(c, x, m, q)
            BY <2>1, <2>2, <2>4, <2>7
        <2>8. CASE \E x \in Tasks : Claim(c, x) \/ Resolve(c, x)
            BY <2>1, <2>2, <2>5, <2>8
        <2> QED BY <1>1, <2>6, <2>7, <2>8 DEF Begins
    <1>2. ASSUME Looks(c)
          PROVE  /\ \/ pc'[c] = "idle" /\ call'[c] = Nothing
                    \/ /\ pc[c] # "idle" /\ pc'[c] \in {"start", "check", "children", "answer", "write", "done"}
                       /\ call'[c].door = call[c].door /\ call'[c].task = call[c].task
                       /\ call'[c].parent = call[c].parent
                       /\ call'[c].crossed = call[c].crossed
                 /\ UNCHANGED <<task, late, overlap, claims, closers>>
        <2>1. CASE Leave(c)
            BY <1>2, <2>1 DEF Leave, Goto, Looks, Read, Check, OpenChildren, Annotate, Fails, TypeOK
        <2>2. CASE Read(c) /\ ~Leave(c)
            <3>1. UNCHANGED <<task, late, overlap, claims, closers>> /\ pc[c] # "idle"
                BY <2>2 DEF Read
            <3>2. pc'[c] \in {"start", "check", "children", "answer"}
                BY <2>2 DEF Read, Goto, TypeOK
            <3>3. \E t : call' = [call EXCEPT ![c].seen = t]
                BY <2>2 DEF Read
            <3>4. /\ call'[c].door = call[c].door /\ call'[c].task = call[c].task
                  /\ call'[c].parent = call[c].parent
                  /\ call'[c].crossed = call[c].crossed
                BY <1>0, <3>3 DEF TypeOK, Requests
            <3> QED BY <3>1, <3>2, <3>4
        <2>3. CASE Check(c) /\ ~Leave(c)
            BY <1>0, <2>3 DEF Check, Goto, TypeOK, Requests
        <2>4. CASE OpenChildren(c) \/ Annotate(c)
            BY <2>1, <2>4 DEF OpenChildren, Annotate, Goto, TypeOK
        <2> QED BY <1>2, <2>1, <2>2, <2>3, <2>4 DEF Looks, Fails
    <1>3. ASSUME Places(c) \/ Settles(c) PROVE pc'[c] = "idle" /\ call'[c] = Nothing
        BY <1>3 DEF Places, Settles, ModifyTicket, ModifyMap, Add, Start, Complete, Leave,
                    LeaveCrossing, Goto, TypeOK
    <1> QED BY <1>1, <1>2, <1>3

\* And what the others are like after it.
LEMMA OthersStep ==
    ASSUME TypeOK, NEW c \in Callers, NEW d \in Callers, d # c
    PROVE  /\ Begins(c) \/ Looks(c) \/ Settles(c) => pc'[d] = pc[d] /\ call'[d] = call[d]
           /\ Places(c) => /\ pc'[d] = pc[d]
                           /\ call'[d] \in {call[d], [call[d] EXCEPT !.crossed = TRUE]}
    <1>1. ASSUME Begins(c) \/ Looks(c) \/ Settles(c) PROVE pc'[d] = pc[d] /\ call'[d] = call[d]
        BY <1>1 DEF Begins, Looks, Settles, Create, Claim, Resolve, Move, Begin, Read, Check, OpenChildren,
                    Annotate, Fails, Start, Complete, Leave, Goto, TypeOK
    <1>2. ASSUME Places(c)
          PROVE  pc'[d] = pc[d] /\ call'[d] \in {call[d], [call[d] EXCEPT !.crossed = TRUE]}
        <2>1. \E x, m : LeaveCrossing(c, x, m)
            BY <1>2 DEF Places, ModifyTicket, ModifyMap, Add
        <2> QED BY <2>1 DEF LeaveCrossing, Goto, TypeOK
    <1> QED BY <1>1, <1>2
-----------------------------------------------------------------------------
\* What each writing step does to one task of the store.
LEMMA TicketWritten ==
    ASSUME TypeOK, NEW c \in Callers, ModifyTicket(c), NEW x \in Tasks
    PROVE  LET r == call[c] IN
           /\ r.task \in Tickets /\ r.door = "move" /\ pc[c] = "write" /\ Over(r) \in Maps
           /\ x # r.task => task'[x] = task[x]
           /\ task'[x].status = task[x].status /\ task'[x].started = task[x].started
           /\ x = r.task => /\ task'[x].parent = IF Over(r) # r.seen.parent THEN Over(r) ELSE task[x].parent
                            /\ task'[x].project = IF r.project # r.seen.project THEN r.project ELSE task[x].project
           /\ UNCHANGED <<answers, claims, closers>>
    <1> DEFINE r == call[c]
               m == IF Over(r) # r.seen.parent THEN Over(r) ELSE task[r.task].parent
               q == IF r.project # r.seen.project THEN r.project ELSE task[r.task].project
    <1>1. /\ task' = [task EXCEPT ![r.task].parent = m, ![r.task].project = q]
          /\ r.task \in Tickets /\ r.door = "move" /\ pc[c] = "write" /\ Over(r) \in Maps
          /\ UNCHANGED <<answers, claims, closers>>
        BY DEF ModifyTicket, TypeOK, replies
    <1>2. task \in [Tasks -> Records] /\ task[x] \in Records /\ r.task \in Tasks
        BY <1>1 DEF TypeOK, Tasks
    <1> HIDE DEF m, q
    <1>3. /\ x # r.task => task'[x] = task[x]
          /\ task'[x].status = task[x].status /\ task'[x].started = task[x].started
          /\ x = r.task => task'[x].parent = m /\ task'[x].project = q
        BY <1>1, <1>2 DEF Records
    <1> QED BY <1>1, <1>3 DEF m, q

LEMMA MapWritten ==
    ASSUME TypeOK, NEW c \in Callers, ModifyMap(c), NEW x \in Tasks
    PROVE  LET r == call[c] IN
           /\ r.task \in Maps /\ r.door = "move" /\ pc[c] = "write" /\ Over(r) = r.task
           /\ x # r.task => task'[x] = task[x]
           /\ task'[x].status = task[x].status /\ task'[x].started = task[x].started
           /\ task'[x].parent = task[x].parent
           /\ x = r.task => task'[x].project = r.project
           /\ UNCHANGED <<late, answers, claims, closers>>
    <1>1. task[x] \in Records /\ call[c].task \in Tasks
        BY DEF ModifyMap, TypeOK, Tasks
    <1>2. task' = [task EXCEPT ![call[c].task].project = call[c].project]
        BY DEF ModifyMap
    <1> QED BY <1>1, <1>2 DEF ModifyMap, TypeOK, Records, Over, replies

LEMMA TicketAdded ==
    ASSUME TypeOK, NEW c \in Callers, NEW k \in Tickets, Add(c, k), NEW x \in Tasks
    PROVE  /\ call[c].door = "create" /\ pc[c] = "write" /\ call[c].task = None
           /\ call[c].parent \in Maps
           /\ task[k] = NoTask
           /\ x # k => task'[x] = task[x]
           /\ task'[k] = [status |-> "pending", started |-> FALSE,
                          parent |-> call[c].parent, project |-> call[c].project]
           /\ UNCHANGED <<answers, claims, closers>>
    BY DEF Add, TypeOK, Tasks, replies

LEMMA Settled ==
    ASSUME TypeOK, NEW c \in Callers, Settles(c), NEW x \in Tasks
    PROVE  /\ call[c].task \in Tasks
           /\ x # call[c].task => task'[x] = task[x] /\ claims'[x] = claims[x] /\ closers'[x] = closers[x]
           /\ task'[x].parent = task[x].parent /\ task'[x].project = task[x].project
           /\ \/ task'[x] = task[x] /\ claims'[x] = claims[x] /\ closers'[x] = closers[x]
              \/ /\ task[x].status = "pending" /\ ~task[x].started
                 /\ task'[x].status = "pending" /\ task'[x].started
                 /\ claims'[x] = claims[x] \cup {c} /\ closers'[x] = closers[x]
              \/ /\ task[x].status = "pending" /\ pc[c] = "done" /\ x = call[c].task
                 /\ task'[x].status = "completed"
                 /\ claims'[x] = {} /\ closers'[x] = closers[x] \cup {c}
           /\ UNCHANGED <<late, overlap, answers>>
    <1> DEFINE y == call[c].task
    <1>1. y \in Tasks /\ task[x] \in Records
        BY DEF Settles, Start, Complete, TypeOK
    <1>2. CASE UNCHANGED <<task, claims, closers>>
        BY <1>1, <1>2 DEF Settles, Start, Complete, replies
    <1>3. CASE /\ Start(c) /\ ~UNCHANGED <<task, claims, closers>>
        <2>1. /\ task[y].status = "pending" /\ ~task[y].started
              /\ task' = [task EXCEPT ![y].started = TRUE]
              /\ claims' = [claims EXCEPT ![y] = @ \cup {c}]
              /\ UNCHANGED <<closers, late, overlap, answers>>
            BY <1>3 DEF Start, Pending, replies
        <2> QED BY <1>1, <2>1 DEF TypeOK, Records
    <1>4. CASE /\ Complete(c) /\ ~UNCHANGED <<task, claims, closers>>
        <2>1. /\ task[y].status = "pending" /\ pc[c] = "done"
              /\ task' = [task EXCEPT ![y].status = "completed", ![y].started = FALSE]
              /\ claims' = [claims EXCEPT ![y] = {}]
              /\ closers' = [closers EXCEPT ![y] = @ \cup {c}]
              /\ UNCHANGED <<late, overlap, answers>>
            BY <1>4 DEF Complete, Pending, replies
        <2> QED BY <1>1, <2>1 DEF TypeOK, Records
    <1> QED BY <1>2, <1>3, <1>4 DEF Settles

\* The steps of no request.
LEMMA AsideStore ==
    ASSUME TypeOK, Aside \/ UNCHANGED vars, NEW x \in Tasks
    PROVE  /\ \/ task'[x] = task[x] /\ claims'[x] = claims[x]
              \/ /\ task[x] = NoTask /\ claims'[x] = claims[x]
                 /\ task'[x].status = "pending" /\ ~task'[x].started /\ task'[x].parent = None
              \/ /\ task'[x].status = task[x].status
                 /\ task'[x].parent = task[x].parent /\ task'[x].project = task[x].project
                 /\ claims'[x] = {}
    <1> USE DEF Outside, history, replies
    <1>0. task[x] \in Records /\ NoTask.parent = None /\ ~NoTask.started
        BY DEF TypeOK, NoTask
    <1>1. ASSUME NEW m \in Maps, NEW q \in Projects, CreateMap(m, q)
          PROVE  \/ task'[x] = task[x]
                 \/ /\ task[x] = NoTask
                    /\ task'[x].status = "pending" /\ ~task'[x].started /\ task'[x].parent = None
        BY <1>0, <1>1 DEF CreateMap, TypeOK, NoTask
    <1>2. ASSUME NEW y \in Tasks, Release(y)
          PROVE  \/ task'[x] = task[x] /\ claims'[x] = claims[x]
                 \/ /\ task'[x].status = task[x].status
                    /\ task'[x].parent = task[x].parent /\ task'[x].project = task[x].project
                    /\ claims'[x] = {}
        BY <1>0, <1>2 DEF Release, TypeOK, Records
    <1>3. ASSUME NEW k \in Tickets, AddByHand(k)
          PROVE  \/ task'[x] = task[x]
                 \/ /\ task[x] = NoTask
                    /\ task'[x].status = "pending" /\ ~task'[x].started /\ task'[x].parent = None
        BY <1>0, <1>3 DEF AddByHand, TypeOK, NoTask
    <1>4. CASE AuditTells \/ AuditSaves \/ AuditUnsaved \/ UNCHANGED vars
        BY <1>4 DEF AuditTells, AuditSaves, AuditUnsaved, vars
    <1>5. CASE Die
        BY <1>5 DEF Die
    <1>6. (\E m \in Maps, q \in Projects : CreateMap(m, q)) \/ (\E k \in Tickets : AddByHand(k)) => UNCHANGED claims
        BY DEF CreateMap, AddByHand
    <1> QED BY <1>1, <1>2, <1>3, <1>4, <1>5, <1>6 DEF Aside

LEMMA AsideRequests ==
    ASSUME Aside \/ UNCHANGED vars
    PROVE  /\ UNCHANGED <<late, overlap, answers, closers>>
           /\ \/ UNCHANGED <<pc, call>>
              \/ \A c \in Callers : pc'[c] = "idle" /\ call'[c] = Nothing
    <1> USE DEF Outside, history, replies
    <1>1. CASE UNCHANGED vars
        BY <1>1 DEF vars
    <1>2. CASE Die
        BY <1>2 DEF Die
    <1>3. CASE Aside /\ ~Die
        BY <1>3 DEF Aside, CreateMap, Release, AddByHand, AuditTells, AuditSaves, AuditUnsaved
    <1> QED BY <1>1, <1>2, <1>3

\* What any step makes of a request.
LEMMA RequestSteps ==
    ASSUME TypeOK, [Next]_vars, NEW d \in Callers
    PROVE  \/ pc'[d] = "idle" /\ call'[d] = Nothing
           \/ pc'[d] = pc[d] /\ call'[d] = call[d]
           \/ /\ \E c \in Callers \ {d} : Places(c)
              /\ pc'[d] = pc[d] /\ call'[d] = [call[d] EXCEPT !.crossed = TRUE]
           \/ Begins(d) \/ Looks(d)
    <1>1. CASE Aside \/ UNCHANGED vars
        BY <1>1, AsideRequests
    <1>2. ASSUME NEW c \in Callers, c # d, Begins(c) \/ Looks(c) \/ Settles(c) \/ Places(c)
          PROVE  \/ pc'[d] = pc[d] /\ call'[d] = call[d]
                 \/ Places(c) /\ pc'[d] = pc[d] /\ call'[d] = [call[d] EXCEPT !.crossed = TRUE]
        BY <1>2, OthersStep
    <1>3. CASE Settles(d) \/ Places(d)
        BY <1>3, OwnStep
    <1> QED BY <1>1, <1>2, <1>3, StepsAre

\* A completed task stays completed, no task leaves the store, and none gets a
\* new parent or project but by a placement.
LEMMA StoreKeeps ==
    ASSUME TypeOK, [Next]_vars, NEW x \in Tasks
    PROVE  /\ task[x].status = "completed" => task'[x].status = "completed"
           /\ task[x].status # "absent" => task'[x].status # "absent"
           /\ \/ \E c \in Callers : Places(c)
              \/ task'[x].parent = task[x].parent /\ (task'[x].project = task[x].project \/ task[x] = NoTask)
    <1>0. NoTask.status = "absent" /\ NoTask.parent = None
        BY DEF NoTask
    <1>1. ASSUME NEW c \in Callers, Begins(c) \/ Looks(c) PROVE UNCHANGED task
        BY <1>1, OwnStep
    <1>2. ASSUME NEW c \in Callers, Places(c)
          PROVE  task[x].status # "absent" => task'[x].status = task[x].status
        BY <1>0, <1>2, TicketWritten, MapWritten, TicketAdded DEF Places
    <1>3. ASSUME NEW c \in Callers, Settles(c)
          PROVE  /\ task[x].status = "completed" => task'[x].status = "completed"
                 /\ task[x].status # "absent" => task'[x].status # "absent"
                 /\ task'[x].parent = task[x].parent /\ task'[x].project = task[x].project
        BY <1>3, Settled
    <1> QED BY <1>0, <1>1, <1>2, <1>3, AsideStore, StepsAre
-----------------------------------------------------------------------------
LEMMA ClaimStep ==
    ASSUME TypeOK, ClaimHeld, [Next]_vars
    PROVE  ClaimHeld'
    <1> SUFFICES ASSUME NEW x \in Tasks
                 PROVE  claims'[x] = {} \/ (task'[x].started /\ \E c \in Callers : claims'[x] = {c})
        BY DEF ClaimHeld
    <1>0. /\ ~NoTask.started
          /\ claims[x] = {} \/ (task[x].started /\ \E c \in Callers : claims[x] = {c})
        BY DEF ClaimHeld, NoTask
    <1>1. ASSUME NEW c \in Callers, Begins(c) \/ Looks(c) PROVE UNCHANGED <<task, claims>>
        BY <1>1, OwnStep
    <1>2. ASSUME NEW c \in Callers, Places(c)
          PROVE  UNCHANGED claims /\ (task'[x].started = task[x].started \/ task[x] = NoTask)
        BY <1>2, TicketWritten, MapWritten, TicketAdded DEF Places
    <1>3. ASSUME NEW c \in Callers, Settles(c)
          PROVE  \/ task'[x] = task[x] /\ claims'[x] = claims[x]
                 \/ claims[x] = {} /\ task'[x].started /\ claims'[x] = {c}
                 \/ claims'[x] = {}
        BY <1>0, <1>3, Settled
    <1>4. ASSUME Aside \/ UNCHANGED vars
          PROVE  \/ claims'[x] = {}
                 \/ claims'[x] = claims[x] /\ (task'[x] = task[x] \/ task[x] = NoTask)
        BY <1>4, AsideStore
    <1> QED BY <1>0, <1>1, <1>2, <1>3, <1>4, StepsAre

LEMMA CloserStep ==
    ASSUME TypeOK, OneCloser, [Next]_vars
    PROVE  OneCloser'
    <1>1. ASSUME NEW d \in Callers, pc'[d] = "read"
          PROVE  call'[d].door \in {"move", "claim", "resolve"}
        <2>1. CASE pc'[d] = pc[d] /\ (call'[d] = call[d] \/ call'[d] = [call[d] EXCEPT !.crossed = TRUE])
            <3>1. call[d] \in Requests
                BY DEF TypeOK
            <3>2. call'[d].door = call[d].door
                BY <2>1, <3>1 DEF Requests
            <3> QED BY <1>1, <2>1, <3>2 DEF OneCloser
        <2> QED BY <1>1, <2>1, OwnStep, RequestSteps
    <1>3. ASSUME NEW x \in Tasks
          PROVE  closers'[x] = {} \/ (/\ task'[x].status = "completed"
                                      /\ \E c \in Callers : closers'[x] = {c})
        <2>1. closers[x] = {} \/ (task[x].status = "completed" /\ \E c \in Callers : closers[x] = {c})
            BY DEF OneCloser
        <2>2. task[x].status = "completed" => task'[x].status = "completed"
            BY StoreKeeps
        <2>3. ASSUME NEW c \in Callers, Settles(c)
              PROVE  \/ closers'[x] = closers[x]
                     \/ /\ task[x].status = "pending" /\ task'[x].status = "completed"
                        /\ closers'[x] = closers[x] \cup {c}
            BY <2>3, Settled
        <2>4. ASSUME NEW c \in Callers, Places(c) PROVE UNCHANGED closers
            BY <2>4 DEF Places, ModifyTicket, ModifyMap, Add
        <2>5. (\E c \in Callers : Settles(c)) \/ UNCHANGED closers
            BY <2>4, StepsAre, OwnStep, AsideRequests
        <2> QED BY <2>1, <2>2, <2>3, <2>5
    <1> QED BY <1>1, <1>3 DEF OneCloser

\* What leaves a task's answers, and who is past its check, as they were.
LEMMA AnsweredKept ==
    ASSUME NEW x \in Tasks, AnsweredOnce(x), answers'[x] = answers[x],
           Pending(x) => Pending(x)',
           task[x].status = "completed" => task'[x].status = "completed",
           \A c \in Callers : Past(c, x)' => Past(c, x) /\ pc'[c] = pc[c],
           \A c \in Callers : pc[c] = "done" /\ call[c].task = x =>
                pc'[c] = "done" /\ call'[c].task = x
    PROVE  AnsweredOnce(x)'
    BY DEF AnsweredOnce, Past, Pending

\* A request's own steps, but for the writes and the ends that leave no doubt.
LEMMA AnsweredLooks ==
    ASSUME TypeOK, OneCloser, NEW c \in Callers, Looks(c), NEW x \in Tasks, x \notin doubtful',
           AnsweredOnce(x), x \notin doubtful
    PROVE  AnsweredOnce(x)'
    <1> USE DEF Outside
    <1>0. /\ UNCHANGED task /\ call[c] \in Requests /\ answers \in [Tasks -> Nat]
          /\ \A d \in Callers \ {c} : pc'[d] = pc[d] /\ call'[d] = call[d]
          /\ pc'[c] # "idle" => call'[c].task = call[c].task
        BY OwnStep, OthersStep DEF TypeOK
    <1>1. CASE UNCHANGED answers /\ pc[c] \notin {"done"} /\ pc'[c] \notin {"children", "answer", "done"}
        BY <1>0, <1>1, AnsweredKept DEF Past, Pending
    <1>2. CASE Read(c) /\ pc'[c] \in {"children", "answer", "done"}
        <2>1. /\ pc[c] = "read" /\ ~Leave(c) /\ UNCHANGED answers
              /\ call[c].door \in {"move", "claim", "resolve"}
            BY <1>2 DEF Read, Leave, Goto, TypeOK, OneCloser
        <2>2. pc'[c] = CASE call[c].door = "claim" -> "start"
                         [] call[c].door = "move" -> "check"
                         [] OTHER -> IF call[c].task \in Maps THEN "children" ELSE "answer"
            BY <1>2, <2>1 DEF Read, Goto, TypeOK
        <2>3. call[c].door = "resolve" /\ pc'[c] # "done"
            BY <1>2, <2>1, <2>2
        <2>4. /\ Pending(call[c].task)
              /\ Resolving(call[c].task) => call[c].task \in doubtful'
            BY <1>2, <2>1, <2>3 DEF Read, Refused, Pending
        <2>5. CASE call[c].task = x
            <3>1. Pending(x) /\ \A d \in Callers : ~Past(d, x)
                BY <2>4, <2>5 DEF Resolving, Past
            <3>2. answers[x] = 0
                BY <3>1 DEF AnsweredOnce, Past, Pending
            <3>3. /\ \A d \in Callers : Past(d, x)' => d = c
                  /\ Pending(x)' /\ answers'[x] = 0
                BY <1>0, <2>1, <3>1, <3>2 DEF Past, Pending
            <3> QED BY <2>3, <3>3 DEF AnsweredOnce, Past
        <2>6. CASE call[c].task # x
            BY <1>0, <1>2, <2>1, <2>6, AnsweredKept DEF Past, Pending
        <2> QED BY <2>5, <2>6
    <1>3. CASE OpenChildren(c) /\ pc'[c] \in {"children", "answer", "done"}
        <2>1. pc[c] = "children" /\ pc'[c] = "answer" /\ UNCHANGED answers
            BY <1>3 DEF OpenChildren, Leave, Goto, TypeOK, history, replies
        <2> QED BY <1>0, <2>1 DEF AnsweredOnce, Past, Pending
    <1>4. CASE Annotate(c)
        <2>1. /\ pc[c] = "answer" /\ pc'[c] = "done" /\ call'[c].task = call[c].task
              /\ answers' = [answers EXCEPT ![call[c].task] = @ + 1]
            BY <1>4 DEF Annotate, Goto, TypeOK
        <2>2. CASE call[c].task = x
            <3>1. Past(c, x) /\ Pending(x) /\ answers[x] = 0
                BY <2>1, <2>2 DEF Past, AnsweredOnce
            <3>2. /\ \A d \in Callers : Past(d, x)' => d = c
                  /\ Pending(x)' /\ answers'[x] = 1
                BY <1>0, <2>1, <2>2, <3>1 DEF Past, Pending, AnsweredOnce
            <3> QED BY <2>1, <2>2, <3>2 DEF AnsweredOnce, Past
        <2>3. CASE call[c].task # x
            BY <1>0, <2>1, <2>3, AnsweredKept DEF Past, Pending
        <2> QED BY <2>2, <2>3
    <1>5. CASE Fails(c)
        <2>1. /\ pc'[c] = "idle" /\ UNCHANGED answers
              /\ pc[c] = "done" => call[c].task # x
            BY <1>5 DEF Fails, Leave, Goto, TypeOK
        <2> QED BY <1>0, <2>1, AnsweredKept DEF Past, Pending
    <1>6. CASE Read(c) \/ Check(c) \/ OpenChildren(c)
        <2>1. UNCHANGED answers /\ pc[c] # "done"
            BY <1>6 DEF Read, Check, OpenChildren, history, replies
        <2>2. Check(c) => pc'[c] \notin {"children", "answer", "done"}
            BY DEF Check, Leave, Goto, TypeOK
        <2> QED BY <1>1, <1>2, <1>3, <1>6, <2>1, <2>2
    <1> QED BY <1>4, <1>5, <1>6 DEF Looks

LEMMA AnsweredStep ==
    ASSUME TypeOK, OneCloser, Answered, [Next]_vars
    PROVE  Answered'
    <1> USE DEF Outside, history, replies
    <1>0. doubtful \subseteq doubtful'
        <2>1. ASSUME NEW c \in Callers, Begins(c) \/ Looks(c) PROVE doubtful \subseteq doubtful'
            BY <2>1 DEF Begins, Looks, Create, Claim, Resolve, Move, Begin, Read, Check, OpenChildren,
                        Annotate, Fails
        <2>2. ASSUME NEW c \in Callers, Places(c) \/ Settles(c) PROVE UNCHANGED doubtful
            BY <2>2 DEF Places, Settles, ModifyTicket, ModifyMap, Add, Start, Complete
        <2>3. CASE Aside
            BY <2>3 DEF Aside, CreateMap, Release, AddByHand, AuditTells, AuditSaves, AuditUnsaved, Die
        <2> QED BY <2>1, <2>2, <2>3, StepsAre DEF vars
    <1> SUFFICES ASSUME NEW x \in Tasks, x \notin doubtful' PROVE AnsweredOnce(x)'
        BY DEF Answered
    <1>1. AnsweredOnce(x) /\ x \notin doubtful
        BY <1>0 DEF Answered
    <1>2. /\ task[x].status = "completed" => task'[x].status = "completed"
          /\ NoTask.status = "absent" /\ Nothing.task = None /\ None \notin Tasks
        BY StoreKeeps, WayfinderAssumption DEF NoTask, Nothing
    <1>3. ASSUME NEW c \in Callers, Begins(c) PROVE AnsweredOnce(x)'
        <2>1. /\ pc[c] = "idle" /\ pc'[c] \in {"read", "check"} /\ UNCHANGED <<task, answers>>
              /\ \A d \in Callers \ {c} : pc'[d] = pc[d] /\ call'[d] = call[d]
            BY <1>3, OwnStep, OthersStep
        <2> QED BY <1>1, <2>1, AnsweredKept DEF Past, Pending
    <1>4. ASSUME NEW c \in Callers, Looks(c) PROVE AnsweredOnce(x)'
        BY <1>1, <1>4, AnsweredLooks
    <1>5. ASSUME NEW c \in Callers, Places(c) PROVE AnsweredOnce(x)'
        <2>1. pc[c] = "write" /\ pc'[c] = "idle" /\ UNCHANGED answers
            BY <1>5, OwnStep DEF Places, ModifyTicket, ModifyMap, Add
        <2>2. ASSUME NEW d \in Callers \ {c} PROVE pc'[d] = pc[d] /\ call'[d].task = call[d].task
            BY <1>5, OthersStep DEF TypeOK, Requests
        <2>3. Pending(x) => Pending(x)'
            BY <1>2, <1>5, TicketWritten, MapWritten, TicketAdded DEF Places, Pending
        <2> QED BY <1>1, <1>2, <2>1, <2>2, <2>3, AnsweredKept DEF Past
    <1>6. ASSUME NEW c \in Callers, Settles(c) PROVE AnsweredOnce(x)'
        <2>1. /\ pc[c] \in {"start", "done"} /\ pc'[c] = "idle" /\ UNCHANGED answers
              /\ \A d \in Callers \ {c} : pc'[d] = pc[d] /\ call'[d] = call[d]
            BY <1>6, OwnStep, OthersStep DEF Settles, Start, Complete
        <2>2. CASE pc[c] = "done" /\ call[c].task = x
            <3>1. Past(c, x) /\ Pending(x) /\ answers[x] = 1
                BY <1>1, <2>2 DEF AnsweredOnce, Past
            <3>2. task'[x].status = "completed"
                BY <1>6, <2>2, <3>1 DEF Settles, Start, Complete, TypeOK, Records
            <3>3. \A d \in Callers : ~Past(d, x)'
                BY <1>1, <2>1, <3>1 DEF AnsweredOnce, Past
            <3> QED BY <2>1, <3>1, <3>2, <3>3 DEF AnsweredOnce, Past
        <2>3. CASE ~(pc[c] = "done" /\ call[c].task = x)
            <3>1. Pending(x) => Pending(x)'
                BY <1>6, <2>3, Settled DEF Pending
            <3> QED BY <1>1, <1>2, <2>1, <2>3, <3>1, AnsweredKept DEF Past
        <2> QED BY <2>2, <2>3
    <1>7. CASE Aside \/ UNCHANGED vars
        <2>1. UNCHANGED answers /\ (Pending(x) => Pending(x)')
            BY <1>2, <1>7, AsideStore, AsideRequests DEF Pending
        <2>2. CASE UNCHANGED <<pc, call>>
            BY <1>1, <1>2, <2>1, <2>2, AnsweredKept DEF Past
        <2>3. CASE Die
            <3>1. /\ \A c \in Callers : pc'[c] = "idle"
                  /\ \A c \in Callers : pc[c] = "done" => call[c].task # x
                BY <2>3 DEF Die
            <3> QED BY <1>1, <1>2, <2>1, <3>1, AnsweredKept DEF Past
        <2>4. UNCHANGED <<pc, call>> \/ Die
            BY <1>7 DEF vars, Aside, CreateMap, Release, AddByHand, AuditTells, AuditSaves, AuditUnsaved
        <2> QED BY <2>2, <2>3, <2>4
    <1> QED BY <1>3, <1>4, <1>5, <1>6, <1>7, StepsAre
-----------------------------------------------------------------------------
\* Requests between their check and their end keep the map or task they are on.
LEMMA ClosingStays ==
    ASSUME TypeOK, [Next]_vars, NEW d \in Callers, pc'[d] \in {"answer", "done"}
    PROVE  /\ call'[d].task = call[d].task
           /\ \/ pc[d] \in {"answer", "done"} /\ (UNCHANGED late \/ \E c \in Callers : Places(c))
              \/ /\ pc[d] = "read" /\ call[d].task \notin Maps
                 /\ UNCHANGED <<task, late>>
              \/ /\ pc[d] = "children" /\ Children(call[d].task) = {}
                 /\ UNCHANGED <<task, late>>
    <1>0. call[d] \in Requests
        BY DEF TypeOK
    <1>1. CASE pc'[d] = pc[d] /\ (call'[d] = call[d] \/ call'[d] = [call[d] EXCEPT !.crossed = TRUE])
        <2>1. call'[d].task = call[d].task
            BY <1>0, <1>1 DEF Requests
        <2>2. UNCHANGED late \/ \E c \in Callers : Places(c)
            BY StepsAre, OwnStep, AsideRequests DEF Settles, Start, Complete
        <2> QED BY <1>1, <2>1, <2>2
    <1>2. CASE Looks(d)
        <2>1. call'[d].task = call[d].task /\ UNCHANGED <<task, late>>
            BY <1>2, OwnStep
        <2>2. CASE Read(d)
            BY <2>1, <2>2 DEF Read, Leave, Goto, TypeOK
        <2>3. CASE Check(d)
            BY <2>3 DEF Check, Leave, Goto, TypeOK
        <2>4. CASE OpenChildren(d)
            BY <2>1, <2>4 DEF OpenChildren, Leave, Goto, TypeOK
        <2>5. CASE Annotate(d)
            BY <2>1, <2>5 DEF Annotate
        <2>6. CASE Fails(d)
            BY <2>6 DEF Fails, Leave, Goto, TypeOK
        <2> QED BY <1>2, <2>2, <2>3, <2>4, <2>5, <2>6 DEF Looks
    <1> QED BY <1>1, <1>2, RequestSteps, OwnStep

\* An open ticket that is under a map was there, or is put there late if it
\* comes late.
LEMMA UnderMap ==
    ASSUME TypeOK, [Next]_vars, NEW k \in Tickets, NEW m \in Maps,
           task'[k].status = "pending", task'[k].parent = m
    PROVE  \/ Pending(k) /\ task[k].parent = m /\ (k \in late => k \in late')
           \/ /\ \E c \in Callers : Places(c)
              /\ task'[m].status = task[m].status
              /\ ComesLate(m) => k \in late'
    <1>0. k \in Tasks /\ m \in Tasks /\ m # None /\ m \notin Tickets /\ k # m
          /\ NoTask.status = "absent" /\ task[k] \in Records
        BY WayfinderAssumption DEF Tasks, NoTask, TypeOK
    <1>1. ASSUME NEW c \in Callers, Begins(c) \/ Looks(c) PROVE UNCHANGED <<task, late>>
        BY <1>1, OwnStep
    <1>2. ASSUME NEW c \in Callers, Settles(c)
          PROVE  UNCHANGED late /\ Pending(k) /\ task[k].parent = m
        BY <1>0, <1>2, Settled DEF Pending
    <1>3. CASE Aside \/ UNCHANGED vars
        BY <1>0, <1>3, AsideStore, AsideRequests DEF Pending
    <1>4. ASSUME NEW c \in Callers, ModifyTicket(c)
          PROVE  /\ task'[m].status = task[m].status
                 /\ \/ Pending(k) /\ task[k].parent = m /\ (k \in late => k \in late')
                    \/ ComesLate(m) => k \in late'
        <2> DEFINE r == call[c]
        <2>1. /\ task'[m].status = task[m].status /\ task'[k].status = task[k].status
              /\ k # r.task => task'[k] = task[k]
              /\ k = r.task => task'[k].parent = IF Over(r) # r.seen.parent THEN Over(r) ELSE task[k].parent
            BY <1>0, <1>4, TicketWritten
        <2>2. late' = IF Over(r) # r.seen.parent
                      THEN IF ComesLate(Over(r)) THEN late \cup {r.task} ELSE late \ {r.task} ELSE late
            BY <1>4 DEF ModifyTicket
        <2> HIDE DEF r
        <2> QED BY <2>1, <2>2 DEF Pending
    <1>5. ASSUME NEW c \in Callers, ModifyMap(c)
          PROVE  UNCHANGED late /\ Pending(k) /\ task[k].parent = m
        BY <1>0, <1>5, MapWritten DEF Pending
    <1>6. ASSUME NEW c \in Callers, NEW j \in Tickets, Add(c, j)
          PROVE  /\ task'[m].status = task[m].status
                 /\ \/ Pending(k) /\ task[k].parent = m /\ (k \in late => k \in late')
                    \/ ComesLate(m) => k \in late'
        <2>0. m # j /\ task'[m] = task[m] /\ (k # j => task'[k] = task[k])
            BY <1>0, <1>6, TicketAdded
        <2>1. task'[j].parent = call[c].parent
            <3>1. task'[j] = [status |-> "pending", started |-> FALSE,
                              parent |-> call[c].parent, project |-> call[c].project]
                BY <1>0, <1>6, TicketAdded
            <3> QED BY <3>1
        <2>2. late' = IF ComesLate(call[c].parent) THEN late \cup {j} ELSE late
            BY <1>6 DEF Add
        <2> QED BY <2>0, <2>1, <2>2 DEF Pending
    <1> QED BY <1>1, <1>2, <1>3, <1>4, <1>5, <1>6, StepsAre DEF Places, Pending

LEMMA ClosingStep ==
    ASSUME TypeOK, ClosingIsEmpty, [Next]_vars
    PROVE  ClosingIsEmpty'
    <1> SUFFICES ASSUME NEW d \in Callers, pc'[d] \in {"answer", "done"}, NEW k \in Tickets,
                        task'[k].status = "pending", task'[k].parent = call'[d].task
                 PROVE  k \in late'
        BY DEF ClosingIsEmpty, Pending
    <1> DEFINE m == call[d].task
    <1>1. call'[d].task = m
        BY ClosingStays
    <1>2. m \in Maps
        <2>1. TypeOK'
            BY TypeStep
        <2>2. call'[d].task \in Tasks /\ task'[k] \in Records
            BY <2>1 DEF TypeOK, Tasks
        <2> QED BY <1>1, <2>2, RecordFields, WayfinderAssumption
    <1>3. CASE pc[d] \in {"answer", "done"}
        <2>1. Closing(m) /\ (Pending(k) /\ task[k].parent = m => k \in late)
            BY <1>3 DEF Closing, ClosingIsEmpty
        <2>2. ComesLate(m)
            BY <2>1 DEF ComesLate
        <2> HIDE DEF m
        <2> QED BY <1>1, <1>2, <2>1, <2>2, UnderMap
    <1>4. CASE Children(m) = {} /\ UNCHANGED <<task, late>>
        BY <1>1, <1>4 DEF Children, Pending
    <1> QED BY <1>2, <1>3, <1>4, ClosingStays

LEMMA OrphansStep ==
    ASSUME TypeOK, ClosingIsEmpty, OrphansCameLate, [Next]_vars
    PROVE  OrphansCameLate'
    <1> SUFFICES ASSUME NEW k \in Tickets, task'[k].status = "pending", task'[k].parent # None,
                        task'[task'[k].parent].status # "pending"
                 PROVE  k \in late'
        BY DEF OrphansCameLate, Orphaned, Pending
    <1> DEFINE m == task'[k].parent
    <1>1. m \in Maps /\ m \in Tasks /\ m # None
        <2>1. TypeOK'
            BY TypeStep
        <2>2. task'[k] \in Records
            BY <2>1 DEF TypeOK, Tasks
        <2> QED BY <2>2, RecordFields DEF Tasks
    <1>2. CASE ~Pending(m)
        <2>1. ComesLate(m) /\ (Pending(k) /\ task[k].parent = m => k \in late)
            BY <1>1, <1>2 DEF ComesLate, OrphansCameLate, Orphaned
        <2> HIDE DEF m
        <2> QED BY <1>1, <2>1, UnderMap DEF m
    <1>3. CASE Pending(m)
        <2>1. ~\E c \in Callers : Places(c) /\ task'[m].status = task[m].status
            BY <1>3 DEF Pending
        <2>2. ASSUME NEW c \in Callers, Settles(c)
              PROVE  pc[c] = "done" /\ call[c].task = m
            BY <1>1, <1>3, <2>2, Settled DEF Pending
        <2>3. ASSUME NEW c \in Callers, Begins(c) \/ Looks(c) PROVE FALSE
            BY <1>3, <2>3, OwnStep DEF Pending
        <2>4. ASSUME Aside \/ UNCHANGED vars PROVE FALSE
            BY <1>1, <1>3, <2>4, AsideStore DEF Pending
        <2>5. ASSUME NEW c \in Callers, Places(c) PROVE FALSE
            <3>1. m \notin Tickets
                BY <1>1, WayfinderAssumption
            <3> QED BY <1>1, <2>1, <2>5, <3>1, TicketWritten, MapWritten, TicketAdded DEF Places
        <2>6. PICK c \in Callers : Settles(c)
            BY <2>3, <2>4, <2>5, StepsAre
        <2>7. Pending(k) /\ task[k].parent = m => k \in late
            BY <2>2, <2>6 DEF ClosingIsEmpty
        <2> HIDE DEF m
        <2> QED BY <1>1, <2>5, <2>7, UnderMap DEF m
    <1> QED BY <1>2, <1>3

-----------------------------------------------------------------------------
\* Except by a placement, no project of a task in the store changes.
LEMMA ProjectsKeep ==
    ASSUME TypeOK, [Next]_vars, NEW x \in Tasks, There(x), ~\E c \in Callers : Places(c)
    PROVE  task'[x].parent = task[x].parent /\ task'[x].project = task[x].project
    BY StoreKeeps DEF There, NoTask

LEMMA OverKeeps ==
    ASSUME TypeOK, NEW d \in Callers,
           call'[d] = call[d] \/ call'[d] = [call[d] EXCEPT !.crossed = TRUE]
    PROVE  /\ Over(call'[d]) = Over(call[d])
           /\ call'[d].task = call[d].task /\ call'[d].parent = call[d].parent
           /\ call'[d].door = call[d].door /\ call'[d].project = call[d].project
    <1>1. call[d] \in Requests
        BY DEF TypeOK
    <1> QED BY <1>1, Changed DEF Requests

\* What a look of a request's own finds.
LEMMA LooksAt ==
    ASSUME TypeOK, OneCloser, InStore, NEW d \in Callers, Looks(d), pc'[d] \in {"check", "write"}
    PROVE  LET r == call'[d] IN
           /\ There(Over(r)) /\ UNCHANGED <<task, overlap>>
           /\ r.crossed = call[d].crossed
           /\ \/ Read(d) /\ pc'[d] = "check" /\ r.seen = task[r.task]
              \/ /\ Check(d) /\ pc[d] = "check" /\ pc'[d] = "write"
                 /\ r.task = call[d].task /\ r.seen = call[d].seen
                 /\ r.task \notin Maps => placed(r.project, task[Over(r)].project)
                 /\ r.task \in Maps => \A k \in Children(r.task) : placed(task[k].project, r.project)
    <1>0. call[d] \in Requests /\ UNCHANGED <<task, overlap>> /\ call'[d].crossed = call[d].crossed
        BY OwnStep, RequestFields DEF TypeOK, Nothing
    <1>1. ~OpenChildren(d) /\ ~Annotate(d) /\ ~Fails(d)
        BY DEF OpenChildren, Annotate, Fails, Leave, Goto, TypeOK
    <1>2. CASE Read(d)
        <2>0. pc[d] = "read" /\ ~Leave(d) /\ pc'[d] = "check"
            BY <1>2 DEF Read, Leave, Goto, TypeOK
        <2>1. /\ call' = [call EXCEPT ![d].seen = IF call[d].door = "move" THEN task[call[d].task] ELSE @]
              /\ ~Refused(call[d], task[call[d].task])
            BY <1>2, <2>0 DEF Read
        <2>2. call[d].door = "move"
            <3>1. call[d].door \in {"move", "claim", "resolve"}
                BY <2>0 DEF OneCloser
            <3>2. pc'[d] = CASE call[d].door = "claim" -> "start"
                             [] call[d].door = "move" -> "check"
                             [] OTHER -> IF call[d].task \in Maps THEN "children" ELSE "answer"
                BY <1>2, <2>0 DEF Read, Goto, TypeOK
            <3> QED BY <2>0, <3>1, <3>2
        <2>3. /\ call'[d] = [call[d] EXCEPT !.seen = task[call[d].task]]
              /\ call[d].task \in Tasks
            BY <2>0, <2>1, <2>2 DEF TypeOK
        <2>4. /\ call'[d].task = call[d].task /\ call'[d].seen = task[call[d].task]
              /\ Over(call'[d]) # None /\ call'[d].parent = call[d].parent
            BY <1>0, <2>1, <2>2, <2>3 DEF Refused, Requests
        <2>5. There(Over(call'[d]))
            <3>1. call[d].task # None => There(call[d].task)
                BY <2>0 DEF InStore
            <3>2. call[d].parent # None => There(call[d].parent)
                BY <2>0 DEF InStore
            <3>3. call[d].task \in Tickets /\ task[call[d].task].parent # None => There(task[call[d].task].parent)
                BY DEF InStore
            <3>4. call[d].task # None
                BY <2>3, WayfinderAssumption
            <3> QED BY <2>3, <2>4, <3>1, <3>2, <3>3, <3>4 DEF Over, Tasks
        <2> QED BY <1>0, <1>2, <2>0, <2>4, <2>5
    <1>3. CASE Check(d)
        <2>1. /\ pc[d] = "check" /\ pc'[d] = "write" /\ Allowed(call[d])
              /\ call' = [call EXCEPT ![d].project = ProjectOf(call[d])]
            BY <1>3 DEF Check, Leave, Goto, TypeOK
        <2>2. /\ call'[d].task = call[d].task /\ call'[d].seen = call[d].seen
              /\ call'[d].parent = call[d].parent /\ call'[d].project = ProjectOf(call[d])
            BY <1>0, <2>1 DEF TypeOK, Requests
        <2>3. Over(call'[d]) = Over(call[d]) /\ There(Over(call[d]))
            BY <2>1, <2>2 DEF Over, InStore
        <2>4. call[d].task \in Maps => ProjectOf(call[d]) = call[d].project
            <3>1. call[d].task \in Maps => call[d].door = "move"
                BY <2>1, WayfinderAssumption DEF TypeOK, Tasks
            <3>2. call[d].task \in Maps => call[d].project # None
                BY <2>1, <3>1 DEF InStore
            <3> QED BY <3>2 DEF ProjectOf
        <2>5. /\ call[d].task \notin Maps => placed(ProjectOf(call[d]), task[Over(call[d])].project)
              /\ call[d].task \in Maps => \A k \in Children(call[d].task) : placed(task[k].project, call[d].project)
            BY <2>1 DEF Allowed
        <2> QED BY <1>0, <1>3, <2>1, <2>2, <2>3, <2>4, <2>5
    <1> QED BY <1>1, <1>2, <1>3 DEF Looks

LEMMA InStoreStep ==
    ASSUME TypeOK, OneCloser, InStore, [Next]_vars
    PROVE  InStore'
    <1>0. \A x \in Tasks : There(x) => There(x)'
        BY StoreKeeps DEF There
    <1>1. ASSUME NEW k \in Tickets, task'[k].parent # None PROVE task'[task'[k].parent].status # "absent"
        <2> DEFINE m == task'[k].parent
        <2>1. m \in Maps /\ k \in Tasks /\ m \in Tasks
            <3>1. TypeOK'
                BY TypeStep
            <3>2. task'[k] \in Records /\ k \in Tasks
                BY <3>1 DEF TypeOK, Tasks
            <3> QED BY <1>1, <3>2, RecordFields DEF Tasks
        <2>2. CASE task[k].parent = m
            BY <1>0, <1>1, <2>1, <2>2 DEF InStore, There
        <2>3. ASSUME NEW c \in Callers, ModifyTicket(c), task[k].parent # m PROVE There(m)
            <3>1. m = Over(call[c]) /\ pc[c] = "write"
                BY <2>1, <2>3, TicketWritten
            <3> QED BY <3>1 DEF InStore
        <2>4. ASSUME NEW c \in Callers, ModifyMap(c) PROVE task[k].parent = m
            BY <2>1, <2>4, MapWritten
        <2>5. ASSUME NEW c \in Callers, NEW j \in Tickets, Add(c, j), task[k].parent # m PROVE There(m)
            <3>1. /\ k = j /\ pc[c] = "write" /\ call[c].task = None /\ call[c].parent \in Maps
                  /\ task'[j] = [status |-> "pending", started |-> FALSE,
                                 parent |-> call[c].parent, project |-> call[c].project]
                BY <2>1, <2>5, TicketAdded
            <3>2. m = call[c].parent
                BY <3>1
            <3>3. call[c].parent # None
                BY <1>1, <3>2
            <3> QED BY <3>1, <3>2, <3>3 DEF InStore
        <2>6. (\E c \in Callers : Places(c)) \/ task[k].parent = m
            BY <2>1, StoreKeeps
        <2> QED BY <1>0, <2>1, <2>2, <2>3, <2>4, <2>5, <2>6 DEF Places, There
    <1>2. ASSUME NEW d \in Callers, pc'[d] # "idle"
          PROVE  /\ call'[d].task # None => task'[call'[d].task].status # "absent"
                 /\ call'[d].parent # None => task'[call'[d].parent].status # "absent" /\ call'[d].task \notin Maps
                 /\ call'[d].door = "move" /\ call'[d].task \in Maps => call'[d].project # None
        <2>0. /\ call'[d] \in Requests /\ call[d] \in Requests
              /\ call'[d].task \in Tasks \cup {None} /\ call'[d].parent \in Tasks \cup {None}
            BY TypeStep, RequestFields DEF TypeOK, Tasks
        <2>1. CASE pc'[d] = pc[d] /\ (call'[d] = call[d] \/ call'[d] = [call[d] EXCEPT !.crossed = TRUE])
            <3>1. /\ call'[d].task = call[d].task /\ call'[d].parent = call[d].parent
                  /\ call'[d].door = call[d].door /\ call'[d].project = call[d].project
                BY <2>1, OverKeeps
            <3> QED BY <1>0, <1>2, <2>0, <2>1, <3>1 DEF InStore, There
        <2>2. CASE Begins(d)
            BY <1>0, <2>0, <2>2, OwnStep DEF There
        <2>3. CASE Looks(d)
            <3>1. /\ pc[d] # "idle" /\ call'[d].door = call[d].door /\ call'[d].task = call[d].task
                  /\ call'[d].parent = call[d].parent
                BY <1>2, <2>3, OwnStep
            <3>2. call'[d].door = "move" /\ call'[d].task \in Maps => call'[d].project # None
                <4>1. CASE Check(d) /\ pc'[d] = "write"
                    <5>1. call'[d].project = ProjectOf(call[d])
                        BY <2>0, <4>1 DEF Check, Leave, Goto, TypeOK, Requests
                    <5> QED BY <3>1, <5>1 DEF InStore, ProjectOf
                <4>2. CASE ~(Check(d) /\ pc'[d] = "write")
                    <5>1. call'[d].project = call[d].project
                        BY <1>2, <2>0, <2>3, <4>2 DEF Looks, Read, Check, OpenChildren, Annotate, Fails, Leave, Goto, TypeOK, Requests
                    <5> QED BY <3>1, <5>1 DEF InStore
                <4> QED BY <4>1, <4>2
            <3> QED BY <1>0, <2>0, <3>1, <3>2 DEF InStore, There
        <2> QED BY <1>2, <2>1, <2>2, <2>3, RequestSteps
    <1>3. ASSUME NEW d \in Callers, pc'[d] \in {"check", "write"} PROVE task'[Over(call'[d])].status # "absent"
        <2>0. Over(call'[d]) \in Maps /\ Over(call'[d]) \in Tasks
            BY <1>3, TypeStep DEF TypeOK, Tasks
        <2>1. CASE pc'[d] = pc[d] /\ (call'[d] = call[d] \/ call'[d] = [call[d] EXCEPT !.crossed = TRUE])
            BY <1>0, <1>3, <2>0, <2>1, OverKeeps DEF InStore, There
        <2>2. CASE Begins(d)
            <3>1. pc'[d] = "check" /\ call'[d].door = "create"
                BY <1>3, <2>2, OwnStep
            <3>2. call'[d].task = None /\ call'[d].parent \in Maps
                BY <3>1, TypeStep DEF TypeOK
            <3>3. Over(call'[d]) = call'[d].parent /\ call'[d].parent # None
                BY <3>2, WayfinderAssumption DEF Over, Tasks
            <3> QED BY <1>2, <1>3, <3>3
        <2>3. CASE Looks(d)
            BY <1>0, <1>3, <2>0, <2>3, LooksAt DEF There
        <2> QED BY <1>3, <2>1, <2>2, <2>3, RequestSteps
    <1> QED BY <1>1, <1>2, <1>3 DEF InStore, There

\* A request that a write did not mark is neither about the task that was
\* written nor judged by the map it was placed under.
LEMMA NotCrossed ==
    ASSUME TypeOK, NEW c \in Callers, NEW d \in Callers, d # c, Places(c), ~call'[d].crossed
    PROVE  /\ call'[d] = call[d]
           /\ pc[d] \in {"check", "write"} =>
                call[d].task # call[c].task \/ call[c].door = "create"
           /\ pc[d] = "write" => Over(call[d]) # Over(call[c])
    <1>1. ASSUME NEW x, NEW m, LeaveCrossing(c, x, m)
          PROVE  /\ call'[d] = call[d]
                 /\ pc[d] \in {"check", "write"} => call[d].task # x
                 /\ pc[d] = "write" => Over(call[d]) # m
        <2>1. call[d] \in Requests
            BY DEF TypeOK
        <2> QED BY <1>1, <2>1 DEF LeaveCrossing, Requests
    <1>2. CASE ModifyTicket(c)
        <2>1. LeaveCrossing(c, call[c].task, Over(call[c]))
            BY <1>2 DEF ModifyTicket
        <2> QED BY <1>1, <2>1
    <1>3. CASE ModifyMap(c)
        <2>1. LeaveCrossing(c, call[c].task, call[c].task) /\ Over(call[c]) = call[c].task
            BY <1>3 DEF ModifyMap, Over
        <2> QED BY <1>1, <2>1
    <1>4. ASSUME NEW k \in Tickets, Add(c, k)
          PROVE  LeaveCrossing(c, k, Over(call[c])) /\ call[c].door = "create"
        <2>1. call[c].task = None /\ call[c].parent \in Maps /\ None \notin Maps
            BY <1>4, TicketAdded, WayfinderAssumption DEF Tasks, Add, TypeOK
        <2> QED BY <1>4, <2>1 DEF Add, Over
    <1> QED BY <1>1, <1>2, <1>3, <1>4 DEF Places

\* What a placement leaves of a ticket that it does not write, and of one it does.
LEMMA PlacedBy ==
    ASSUME TypeOK, InStore, NEW c \in Callers, Places(c), Judged(c), NEW k \in Tickets,
           task'[k].status = "pending", k \notin overlap'
    PROVE  \/ /\ task'[k] = task[k] /\ k \notin overlap
              /\ ~(call[c].task \in Maps /\ task[k].parent = call[c].task)
           \/ /\ task'[k] = task[k] /\ k \notin overlap /\ ModifyMap(c)
              /\ task[k].parent = call[c].task /\ placed(task[k].project, call[c].project)
           \/ /\ ModifyTicket(c) \/ Add(c, k)
              /\ task'[k].parent = Over(call[c]) /\ task'[k].project = call[c].project
              /\ placed(call[c].project, task[Over(call[c])].project)
    <1> DEFINE r == call[c]
    <1>0. k \in Tasks /\ k \notin Maps /\ None \notin Maps /\ None \notin Tasks
        BY WayfinderAssumption DEF Tasks
    <1>1. CASE ModifyTicket(c)
        <2>1. /\ r.task \in Tickets /\ r.task \notin Maps /\ pc[c] = "write"
              /\ k # r.task => task'[k] = task[k]
              /\ k = r.task => /\ task'[k].parent = IF Over(r) # r.seen.parent THEN Over(r) ELSE task[k].parent
                               /\ task'[k].project = IF r.project # r.seen.project THEN r.project ELSE task[k].project
            BY <1>0, <1>1, TicketWritten, WayfinderAssumption
        <2>2. overlap' = IF r.crossed THEN overlap \cup {r.task} ELSE overlap \ {r.task}
            BY <1>1 DEF ModifyTicket
        <2>3. CASE k # r.task
            BY <2>1, <2>2, <2>3
        <2>4. CASE k = r.task
            <3>1. ~r.crossed
                BY <2>2, <2>4
            <3>2. /\ AsSeen(r) /\ placed(r.project, task[Over(r)].project)
                BY <2>1, <3>1 DEF Judged
            <3> HIDE DEF r
            <3>3. task'[k].parent = Over(r) /\ task'[k].project = r.project
                BY <2>1, <2>4, <3>2 DEF AsSeen
            <3> QED BY <1>1, <3>2, <3>3 DEF r
        <2> QED BY <2>3, <2>4
    <1>2. CASE ModifyMap(c)
        <2>1. r.task \in Maps /\ pc[c] = "write" /\ task'[k] = task[k]
            BY <1>0, <1>2, MapWritten
        <2>2. overlap' = IF r.crossed THEN overlap \cup Children(r.task) ELSE overlap
            BY <1>2 DEF ModifyMap
        <2>3. CASE task[k].parent = r.task
            <3>1. k \in Children(r.task)
                BY <2>1, <2>3 DEF Children, Pending
            <3>2. ~r.crossed /\ k \notin overlap
                BY <2>2, <3>1
            <3> QED BY <1>2, <2>1, <2>3, <3>1, <3>2 DEF Judged, Children
        <2> QED BY <2>1, <2>2, <2>3
    <1>3. ASSUME NEW j \in Tickets, Add(c, j)
          PROVE  \/ task'[k] = task[k] /\ k \notin overlap /\ r.task \notin Maps
                 \/ /\ Add(c, k)
                    /\ task'[k].parent = Over(r) /\ task'[k].project = r.project
                    /\ placed(r.project, task[Over(r)].project)
        <2>1. /\ r.task = None /\ pc[c] = "write" /\ r.parent \in Maps
              /\ k # j => task'[k] = task[k]
              /\ task'[j] = [status |-> "pending", started |-> FALSE, parent |-> r.parent, project |-> r.project]
            BY <1>0, <1>3, TicketAdded
        <2>2. overlap' = IF r.crossed THEN overlap \cup {j} ELSE overlap
            BY <1>3 DEF Add
        <2>3. Over(r) = r.parent /\ r.task \notin Maps
            BY <1>0, <2>1 DEF Over
        <2>4. CASE k = j
            <3>1. placed(r.project, task[Over(r)].project)
                BY <2>1, <2>2, <2>3, <2>4 DEF Judged
            <3>2. task'[k].parent = r.parent /\ task'[k].project = r.project
                BY <2>1, <2>4
            <3> QED BY <1>3, <2>3, <2>4, <3>1, <3>2
        <2> QED BY <2>1, <2>2, <2>3, <2>4
    <1> QED BY <1>1, <1>2, <1>3 DEF Places

\* What a placement leaves of a map.
LEMMA MapsKept ==
    ASSUME TypeOK, NEW c \in Callers, Places(c), NEW m \in Maps
    PROVE  /\ m # call[c].task => task'[m] = task[m]
           /\ call[c].task \in Maps /\ m = call[c].task => task'[m].project = call[c].project
    <1>0. m \in Tasks /\ m \notin Tickets
        BY WayfinderAssumption DEF Tasks
    <1>1. CASE ModifyTicket(c)
        BY <1>0, <1>1, TicketWritten, WayfinderAssumption
    <1>2. CASE ModifyMap(c)
        BY <1>0, <1>2, MapWritten
    <1>3. ASSUME NEW k \in Tickets, Add(c, k) PROVE task'[m] = task[m] /\ call[c].task \notin Maps
        BY <1>0, <1>3, TicketAdded, WayfinderAssumption DEF Tasks
    <1> QED BY <1>1, <1>2, <1>3 DEF Places

LEMMA WellPlacedStep ==
    ASSUME TypeOK, InStore, WellPlaced, \A c \in Callers : Judged(c), [Next]_vars
    PROVE  WellPlaced'
    <1> SUFFICES ASSUME NEW k \in Tickets, task'[k].status = "pending",
                        task'[k].parent # None, k \notin overlap'
                 PROVE  placed(task'[k].project, task'[task'[k].parent].project)
        BY DEF WellPlaced, Pending, placed
    <1> DEFINE m == task'[k].parent
    <1>0. m \in Maps /\ m \in Tasks /\ k \in Tasks /\ NoTask.status = "absent"
        <2>1. TypeOK'
            BY TypeStep
        <2>2. task'[k] \in Records /\ k \in Tasks
            BY <2>1 DEF TypeOK, Tasks
        <2> QED BY <2>2, RecordFields DEF Tasks, NoTask
    <1>1. Pending(k) /\ task[k].parent = m /\ k \notin overlap =>
             placed(task[k].project, task[m].project) /\ There(m)
        BY <1>0 DEF WellPlaced, InStore
    <1>2. CASE ~\E c \in Callers : Places(c)
        <2>1. Pending(k) /\ task[k].parent = m
            BY <1>0, <1>2, UnderMap
        <2>2. UNCHANGED overlap
            BY <1>2, StepsAre, OwnStep, AsideRequests DEF Settles, Start, Complete
        <2>3. There(k) /\ There(m) /\ placed(task[k].project, task[m].project)
            BY <1>1, <2>1, <2>2 DEF Pending, There
        <2>4. task'[k].project = task[k].project /\ task'[m].project = task[m].project
            BY <1>0, <1>2, <2>3, ProjectsKeep
        <2> QED BY <2>3, <2>4
    <1>3. ASSUME NEW c \in Callers, Places(c) PROVE placed(task'[k].project, task'[m].project)
        <2>1. CASE /\ task'[k] = task[k] /\ k \notin overlap
                   /\ ~(call[c].task \in Maps /\ task[k].parent = call[c].task)
            <3>1. task'[m] = task[m]
                BY <1>0, <1>3, <2>1, MapsKept
            <3>2. placed(task[k].project, task[m].project)
                BY <1>1, <2>1 DEF Pending
            <3> QED BY <2>1, <3>1, <3>2
        <2>2. CASE /\ task'[k] = task[k] /\ k \notin overlap /\ ModifyMap(c)
                   /\ task[k].parent = call[c].task /\ placed(task[k].project, call[c].project)
            <3>1. task'[m].project = call[c].project
                BY <1>0, <1>3, <2>2, MapsKept
            <3> QED BY <2>2, <3>1
        <2>3. CASE /\ ModifyTicket(c) \/ Add(c, k)
                   /\ task'[k].parent = Over(call[c]) /\ task'[k].project = call[c].project
                   /\ placed(call[c].project, task[Over(call[c])].project)
            <3>1. m # call[c].task
                BY <1>0, <2>3, WayfinderAssumption, TicketWritten, TicketAdded DEF Tasks
            <3>2. task'[m] = task[m]
                BY <1>0, <1>3, <3>1, MapsKept
            <3> QED BY <2>3, <3>2
        <2> QED BY <1>3, <2>1, <2>2, <2>3, PlacedBy
    <1> QED BY <1>2, <1>3

LEMMA JudgedStep ==
    ASSUME TypeOK, OneCloser, InStore, \A c \in Callers : Judged(c), [Next]_vars, NEW d \in Callers
    PROVE  Judged(d)'
    <1> DEFINE r == call'[d]
    <1> SUFFICES ASSUME ~r.crossed
                 PROVE  /\ pc'[d] \in {"check", "write"} /\ r.task \in Tickets =>
                             task'[r.task].parent = r.seen.parent /\ task'[r.task].project = r.seen.project
                        /\ pc'[d] = "write" /\ r.task \notin Maps => placed(r.project, task'[Over(r)].project)
                        /\ pc'[d] = "write" /\ r.task \in Maps =>
                              \A k \in Tickets : /\ task'[k].status = "pending"
                                                 /\ task'[k].parent = r.task /\ k \notin overlap'
                                                 => placed(task'[k].project, r.project)
        BY DEF Judged, AsSeen, Over, Pending, placed
    <1>0. call[d] \in Requests /\ None \notin Maps /\ None \notin Tasks /\ Maps \subseteq Tasks
          /\ Tickets \subseteq Tasks /\ Maps \cap Tickets = {}
        BY WayfinderAssumption DEF TypeOK, Tasks
    <1>1. CASE pc'[d] = "idle"
        BY <1>1
    <1>2. CASE pc'[d] = pc[d] /\ r = [call[d] EXCEPT !.crossed = TRUE]
        BY <1>0, <1>2 DEF Requests
    <1>3. CASE Begins(d)
        <2>1. pc'[d] \in {"read", "check"} /\ (pc'[d] = "check" => r.door = "create")
            BY <1>3, OwnStep
        <2>2. pc'[d] = "check" => r.task = None
            BY <2>1, TypeStep DEF TypeOK
        <2> QED BY <1>0, <2>1, <2>2
    <1>4. CASE Looks(d) /\ pc'[d] \in {"check", "write"}
        <2>1. CASE Read(d) /\ pc'[d] = "check" /\ r.seen = task[r.task] /\ UNCHANGED task
            BY <2>1
        <2>2. CASE /\ Check(d) /\ pc[d] = "check" /\ pc'[d] = "write" /\ UNCHANGED <<task, overlap>>
                   /\ r.task = call[d].task /\ r.seen = call[d].seen /\ ~call[d].crossed
                   /\ r.task \notin Maps => placed(r.project, task[Over(r)].project)
                   /\ r.task \in Maps => \A k \in Children(r.task) : placed(task[k].project, r.project)
            <3>1. r.task \in Tickets => AsSeen(call[d])
                BY <2>2 DEF Judged
            <3> HIDE DEF r
            <3> QED BY <2>2, <3>1 DEF AsSeen, Children, Pending
        <2> QED BY <1>4, <2>1, <2>2, LooksAt
    <1>5. CASE pc'[d] = pc[d] /\ r = call[d] /\ pc[d] \in {"check", "write"}
        <2>1. /\ r.task \in Tickets => There(r.task) /\ AsSeen(r)
              /\ Over(r) \in Maps /\ There(Over(r))
              /\ pc[d] = "write" /\ r.task \notin Maps => placed(r.project, task[Over(r)].project)
              /\ pc[d] = "write" /\ r.task \in Maps =>
                    \A k \in Tickets : Pending(k) /\ task[k].parent = r.task /\ k \notin overlap =>
                       placed(task[k].project, r.project)
            BY <1>0, <1>5 DEF Judged, InStore, TypeOK
        <2>2. CASE ~\E c \in Callers : Places(c)
            <3>1. UNCHANGED overlap
                BY <2>2, StepsAre, OwnStep, AsideRequests DEF Settles, Start, Complete
            <3>2. \A x \in Tasks : There(x) => task'[x].parent = task[x].parent /\ task'[x].project = task[x].project
                BY <2>2, ProjectsKeep
            <3>3. ASSUME NEW k \in Tickets, task'[k].status = "pending", NEW m \in Maps, task'[k].parent = m
                  PROVE  Pending(k) /\ There(k) /\ task[k].parent = m
                BY <2>2, <3>3, UnderMap DEF Pending, There
            <3> HIDE DEF r
            <3> QED BY <1>0, <1>5, <2>1, <3>1, <3>2, <3>3 DEF AsSeen
        <2>3. ASSUME NEW c \in Callers, Places(c), c # d
              PROVE  /\ r.task \in Tickets => task'[r.task].parent = task[r.task].parent
                                              /\ task'[r.task].project = task[r.task].project
                     /\ pc[d] = "write" => task'[Over(r)].project = task[Over(r)].project
                     /\ pc[d] = "write" /\ r.task \in Maps =>
                           \A k \in Tickets : /\ task'[k].status = "pending"
                                              /\ task'[k].parent = r.task /\ k \notin overlap'
                                              => placed(task'[k].project, r.project)
            <3>1. /\ r.task # call[c].task \/ call[c].door = "create"
                  /\ pc[d] = "write" => Over(r) # Over(call[c])
                BY <1>5, <2>3, NotCrossed
            <3>2. r.task \in Tickets => task'[r.task].parent = task[r.task].parent
                                        /\ task'[r.task].project = task[r.task].project
                <4>1. CASE ModifyTicket(c) \/ ModifyMap(c)
                    BY <1>0, <3>1, <4>1, TicketWritten, MapWritten
                <4>2. ASSUME NEW j \in Tickets, Add(c, j), r.task \in Tickets
                      PROVE  task'[r.task] = task[r.task]
                    <5>1. task[j] = NoTask /\ NoTask.status = "absent"
                        BY <4>2 DEF Add, NoTask
                    <5>2. r.task # j
                        BY <2>1, <4>2, <5>1 DEF There
                    <5> QED BY <1>0, <4>2, <5>2 DEF Add, TypeOK
                <4> QED BY <2>3, <4>1, <4>2 DEF Places
            <3>3. pc[d] = "write" => task'[Over(r)] = task[Over(r)]
                <4>1. call[c].task \in Maps => Over(call[c]) = call[c].task
                    BY DEF Over
                <4>2. pc[d] = "write" => Over(r) # call[c].task
                    BY <2>1, <3>1, <4>1
                <4> HIDE DEF r
                <4> QED BY <2>1, <2>3, <4>2, MapsKept
            <3>4. ASSUME pc[d] = "write", r.task \in Maps, NEW k \in Tickets, task'[k].status = "pending",
                         task'[k].parent = r.task, k \notin overlap'
                  PROVE  placed(task'[k].project, r.project)
                <4>1. Over(r) = r.task
                    BY <3>4 DEF Over
                <4>2. task'[k].parent # Over(call[c])
                    BY <3>1, <3>4, <4>1
                <4>3. task'[k] = task[k] /\ k \notin overlap
                    BY <2>3, <3>4, <4>2, PlacedBy
                <4> QED BY <2>1, <3>4, <4>3 DEF Pending
            <3> QED BY <3>2, <3>3, <3>4
        <2>4. \A c \in Callers : Places(c) => c # d
            BY <1>5, OwnStep
        <2> HIDE DEF r
        <2> QED BY <1>5, <2>1, <2>2, <2>3, <2>4 DEF AsSeen
    <1>6. CASE pc'[d] \notin {"check", "write"}
        BY <1>6
    <1> QED BY <1>1, <1>2, <1>3, <1>4, <1>5, <1>6, RequestSteps
-----------------------------------------------------------------------------
LEMMA InitIInv == Init => IInv
    <1> SUFFICES ASSUME Init PROVE IInv OBVIOUS
    <1>1. TypeOK
        BY TypeInit
    <1>2. /\ \A c \in Callers : pc[c] = "idle" /\ call[c] = Nothing
          /\ \A x \in Tasks : answers[x] = 0 /\ claims[x] = {} /\ closers[x] = {}
        BY DEF Init
    <1>4. \A k \in Tickets : task[k] = NoTask /\ NoTask.parent = None /\ NoTask.status = "absent"
        BY WayfinderAssumption DEF Init, Tasks, NoTask
    <1> QED
        BY <1>1, <1>2, <1>4 DEF IInv, ClaimHeld, OneCloser, Answered, AnsweredOnce, Past, ClosingIsEmpty, OrphansCameLate, Orphaned,
            Placement, InStore, WellPlaced, Judged, Pending

LEMMA StepIInv == IInv /\ [Next]_vars => IInv'
    BY TypeStep, ClaimStep, CloserStep, AnsweredStep, ClosingStep, OrphansStep, InStoreStep, WellPlacedStep, JudgedStep
       DEF IInv, Placement

LEMMA Inductive == Spec => []IInv
    BY InitIInv, StepIInv, PTL DEF Spec

\* Every request has what its step needs, whatever the store holds: a placement
\* is never judged by no map.
THEOREM TypeCorrect == Spec => []TypeOK
    BY Inductive, PTL DEF IInv

LEMMA NoneOrOne ==
    ASSUME NEW s, s = {} \/ \E c \in Callers : s = {c}
    PROVE  Cardinality(s) <= 1
    <1>1. CASE s = {}
        BY <1>1, FS_EmptySet
    <1>2. ASSUME NEW c \in Callers, s = {c} PROVE Cardinality(s) = 1
        <2>1. Cardinality({c}) = 1
            BY FS_Singleton
        <2> QED BY <1>2, <2>1
    <1> QED BY <1>1, <1>2

\* However many callers race for a task, one at most is told it has the claim.
THEOREM OneClaim == Spec => []ClaimedByOne
    <1>1. ClaimHeld => ClaimedByOne
        BY NoneOrOne DEF ClaimHeld, ClaimedByOne
    <1> QED BY <1>1, Inductive, PTL DEF IInv

\* One resolve at most succeeds, and a retry answers a second time only if two
\* requests resolved at once, or one stopped between its answer and its `done`.
THEOREM AnswersStand == Spec => []AnswerStands
    <1>1. TypeOK /\ OneCloser /\ Answered => AnswerStands
        <2> SUFFICES ASSUME TypeOK, OneCloser, Answered, NEW x \in Tasks
                     PROVE  Cardinality(closers[x]) <= 1 /\ (answers[x] <= 1 \/ x \in doubtful)
            BY DEF AnswerStands
        <2>1. Cardinality(closers[x]) <= 1
            BY NoneOrOne DEF OneCloser
        <2> QED BY <2>1 DEF Answered, AnsweredOnce
    <1> QED BY <1>1, Inductive, PTL DEF IInv

\* An open ticket under a closed map was put there after the map's check.
THEOREM OrphansLate == Spec => []OrphansCameLate
    BY Inductive, PTL DEF IInv

\* A ticket outside its map's project was moved, or its map was, by a request
\* that another crossed.
THEOREM MisplacedCrossed == Spec => []MisplacedByOverlap
    <1>1. Placement => MisplacedByOverlap
        BY DEF Placement, WellPlaced, MisplacedByOverlap, Misplaced
    <1> QED BY <1>1, Inductive, PTL DEF IInv

\* What an audit has told or is about to save is in the last message about it, or
\* is excused there.
Told == named \cup unheard \cup crowded
Named ==
    /\ told \subseteq Told
    /\ audit.step = "save" => audit.faults \subseteq Told

LEMMA FaultsFinite == IsFiniteSet(Faults)
    <1>1. IsFiniteSet({"mapless", "orphaned", "misplaced"}) /\ IsFiniteSet(Tickets)
        <2>1. IsFiniteSet({"mapless"})
            BY FS_Singleton
        <2>2. IsFiniteSet({"mapless"} \cup {"orphaned"})
            BY <2>1, FS_AddElement
        <2>3. IsFiniteSet(({"mapless"} \cup {"orphaned"}) \cup {"misplaced"})
            BY <2>2, FS_AddElement
        <2>4. ({"mapless"} \cup {"orphaned"}) \cup {"misplaced"} = {"mapless", "orphaned", "misplaced"}
            OBVIOUS
        <2> QED BY <2>3, <2>4, WayfinderAssumption
    <1>2. IsFiniteSet({"mapless", "orphaned", "misplaced"} \X Tickets)
        BY <1>1, FS_Product
    <1>3. Faults \subseteq {"mapless", "orphaned", "misplaced"} \X Tickets
        BY DEF Faults
    <1> QED BY <1>2, <1>3, FS_Subset

\* A message with room for all that is new lists all of it.
LEMMA AllListed ==
    ASSUME NEW new, IsFiniteSet(new), NEW shown \in Listed(new), ~(Cardinality(new) > Lines)
    PROVE  shown = new
    <1>1. shown \subseteq new /\ Cardinality(shown) = Cardinality(new)
        BY DEF Listed
    <1> QED BY <1>1, FS_Subset

LEMMA NamedTells ==
    ASSUME Named, AuditTells
    PROVE  Named'
    <1> DEFINE new == Faults \ told
    <1>1. IsFiniteSet(new)
        BY FaultsFinite, FS_Subset
    <1>2. audit'.faults = Faults /\ told' = told
        BY DEF AuditTells
    <1>3. Told \cup new \subseteq Told'
        <2>1. ASSUME NEW shown \in Listed(new),
                     named' = (named \ new) \cup shown, unheard' = unheard \ new,
                     crowded' = (crowded \ new) \cup (IF Cardinality(new) > Lines THEN new \ shown ELSE {})
              PROVE  Told \cup new \subseteq Told'
            <3>1. new \subseteq shown \cup (IF Cardinality(new) > Lines THEN new \ shown ELSE {})
                BY <1>1, AllListed
            <3> HIDE DEF new
            <3> QED BY <2>1, <3>1 DEF Told
        <2>2. CASE named' = named \ new /\ unheard' = unheard \cup new /\ crowded' = crowded \ new
            BY <2>2 DEF Told
        <2> HIDE DEF new
        <2> QED BY <2>1, <2>2 DEF AuditTells, new
    <1> QED BY <1>2, <1>3 DEF Named

LEMMA NamedNext == Named /\ [Next]_vars => Named'
    <1> SUFFICES ASSUME Named, [Next]_vars PROVE Named'
        OBVIOUS
    <1> USE DEF history, heard
    <1>1. CASE AuditTells
        BY <1>1, NamedTells
    <1>2. CASE AuditSaves
        BY <1>2 DEF AuditSaves, StillThere, Named, Told, AtRest
    <1>3. CASE AuditUnsaved
        <2>1. told' \subseteq told /\ audit' = AtRest /\ UNCHANGED <<named, unheard, crowded>>
            BY <1>3 DEF AuditUnsaved, CutOff
        <2> QED BY <2>1 DEF Named, Told, AtRest
    <1>4. CASE Die
        <2>1. told' \subseteq told /\ audit' = AtRest /\ UNCHANGED <<named, unheard, crowded>>
            BY <1>4 DEF Die, CutOff
        <2> QED BY <2>1 DEF Named, Told, AtRest
    <1>5. CASE \/ \E m \in Maps, q \in Projects : CreateMap(m, q)
               \/ \E x \in Tasks : Release(x)
               \/ \E k \in Tickets : AddByHand(k)
               \/ UNCHANGED vars
        BY <1>5 DEF CreateMap, Release, AddByHand, Outside, Named, Told, vars
    <1>6. ASSUME NEW c \in Callers, Doors(c) PROVE UNCHANGED <<audit, told, heard>>
        <2>1. Read(c) \/ Check(c) \/ OpenChildren(c) \/ Annotate(c) \/ Fails(c) => UNCHANGED <<audit, told, heard>>
            BY DEF Read, Check, OpenChildren, Annotate, Fails, Outside
        <2>2. ModifyTicket(c) \/ ModifyMap(c) => UNCHANGED <<audit, told, heard>>
            BY DEF ModifyTicket, ModifyMap, Outside
        <2>3. Start(c) \/ Complete(c) => UNCHANGED <<audit, told, heard>>
            BY DEF Start, Complete, Outside
        <2>4. ASSUME NEW k \in Tickets, Add(c, k) PROVE UNCHANGED <<audit, told, heard>>
            BY <2>4 DEF Add, Outside
        <2>5. ASSUME NEW step, NEW request, Begin(c, step, request)
              PROVE  UNCHANGED <<audit, told, heard>>
            BY <2>5 DEF Begin
        <2>6. ASSUME NEW m, NEW q, Create(c, m, q) PROVE UNCHANGED <<audit, told, heard>>
            BY <2>5, <2>6 DEF Create
        <2>7. ASSUME NEW x, Claim(c, x) \/ Resolve(c, x) PROVE UNCHANGED <<audit, told, heard>>
            BY <2>5, <2>7 DEF Claim, Resolve
        <2>8. ASSUME NEW x, NEW m, NEW q, Move(c, x, m, q) PROVE UNCHANGED <<audit, told, heard>>
            BY <2>5, <2>8 DEF Move
        <2> QED BY <1>6, <2>1, <2>2, <2>3, <2>4, <2>6, <2>7, <2>8 DEF Doors
    <1>7. CASE \E c \in Callers : Doors(c)
        BY <1>6, <1>7 DEF Named, Told
    <1> QED BY <1>1, <1>2, <1>3, <1>4, <1>5, <1>7 DEF Next

\* What the audit keeps quiet about was named in the last message about it, unless
\* that did not arrive or had more to name than lines; and it has been there since.
THEOREM QuietIsNamed == Spec => []QuietFaultsWereNamed
    <1>1. Init => Named
        <2>1. Init => audit = AtRest /\ told = {}
            BY Zenon DEF Init
        <2>2. audit = AtRest /\ told = {} => Named
            BY DEF Named, AtRest
        <2> QED BY <2>1, <2>2
    <1>2. Named => QuietFaultsWereNamed
        BY DEF Named, Told, QuietFaultsWereNamed
    <1> QED BY <1>1, <1>2, NamedNext, PTL DEF Spec
=============================================================================
