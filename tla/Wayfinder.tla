----------------------------- MODULE Wayfinder -----------------------------
(***************************************************************************)
(* Maps and their tickets (pu/service.py): placing, moving, claiming and    *)
(* resolving them, each request in a thread of its own and each a few store *)
(* commands long, and the daily audit that tells the owner what is out of   *)
(* place (pu/pipeline.py).  A map is a task with children and a project; a  *)
(* ticket belongs in its map's project or below it.  The store applies each *)
(* command to the task as it stands, see Taskwarrior.                       *)
(***************************************************************************)
EXTENDS Naturals, FiniteSets

CONSTANTS
    Maps, Tickets,
    Projects,
    Inside,       \* <<p, q>>: project p is nested under project q
    Callers,      \* the threads that serve the doors
    None,
    Lines,        \* how many faults a message lists: 15
    MaxCalls,     \* bound: requests begun
    MaxByHand     \* bound: tickets added past the doors, with the task program

Tasks == Maps \cup Tickets
Records == [status : {"absent", "pending", "completed"}, started : BOOLEAN,
            parent : Maps \cup {None}, project : Projects \cup {None}]
NoTask == [status |-> "absent", started |-> FALSE, parent |-> None, project |-> None]

ASSUME WayfinderAssumption ==
    /\ Maps \cap Tickets = {} /\ None \notin Tasks \cup Projects
    /\ IsFiniteSet(Tickets) /\ Lines \in Nat /\ MaxCalls \in Nat /\ MaxByHand \in Nat

VARIABLES
    task,      \* the store
    pc,        \* where each caller is
    call,      \* its request, what it read, and a history flag
    audit,     \* the audit of the deciding tick: idle, or the faults it found
    told,      \* audit.json
    calls, byHand,
    named,     \* history: faults the last message about them named to the owner,
    unheard,   \* or that did not reach the owner,
    crowded,   \* or had too many for; each gone at no audit saved since
    late,      \* history: tickets put under a map that was closed or closing
    overlap,   \* history: tickets placed by a request that another crossed
    answers,   \* history: how many answers `resolve` wrote to each task
    doubtful,  \* history: tasks two requests resolved at once, or one half
    claims,    \* history: callers told they hold the claim a task has now
    closers    \* history: callers told they resolved a task

heard == <<named, unheard, crowded>>
replies == <<answers, doubtful>>
history == <<heard, late, overlap, replies, claims, closers>>
vars == <<task, pc, call, audit, told, calls, byHand, history>>

There(x) == task[x].status # "absent"
Pending(x) == task[x].status = "pending"
Children(m) == {k \in Tickets : Pending(k) /\ task[k].parent = m}

\* The rule: a ticket's project is its map's or nested under it.
placed(ticket, map) ==
    ticket # None /\ map # None /\ (ticket = map \/ <<ticket, map>> \in Inside)

Request(door, x, m, p) ==
    [door |-> door, task |-> x, parent |-> m, project |-> p, seen |-> NoTask,
     crossed |-> FALSE]
Nothing == [door |-> "none", task |-> None, parent |-> None, project |-> None,
            seen |-> NoTask, crossed |-> FALSE]

\* The map a placement is judged by.
Over(r) == IF r.task \in Maps THEN r.task
           ELSE IF r.parent # None THEN r.parent ELSE r.seen.parent

AtRest == [step |-> "idle", faults |-> {}]

Goto(c, step) == pc' = [pc EXCEPT ![c] = step]
Leave(c) == Goto(c, "idle") /\ call' = [call EXCEPT ![c] = Nothing]
Outside == UNCHANGED <<audit, told, calls, byHand>>

\* A write on x, placed under map m, by c: requests that have read x or judged
\* a placement by m are crossed.
LeaveCrossing(c, x, m) ==
    /\ Goto(c, "idle")
    /\ call' = [d \in Callers |->
          IF d = c THEN Nothing
          ELSE IF \/ pc[d] \in {"check", "write"} /\ call[d].task = x
                  \/ pc[d] = "write" /\ Over(call[d]) = m
               THEN [call[d] EXCEPT !.crossed = TRUE]
               ELSE call[d]]
-----------------------------------------------------------------------------
Init ==
    /\ \E mapTask \in [Maps -> {NoTask} \cup {[NoTask EXCEPT !.status = "pending", !.project = p] : p \in Projects}] :
          task = [x \in Tasks |-> IF x \in Maps THEN mapTask[x] ELSE NoTask]
    /\ pc = [c \in Callers |-> "idle"]
    /\ call = [c \in Callers |-> Nothing]
    /\ audit = AtRest /\ told = {} /\ calls = 0 /\ byHand = 0
    /\ named = {} /\ unheard = {} /\ crowded = {} /\ late = {} /\ overlap = {}
    /\ answers = [x \in Tasks |-> 0] /\ doubtful = {}
    /\ claims = [x \in Tasks |-> {}] /\ closers = [x \in Tasks |-> {}]

Begin(c, step, request) ==
    /\ pc[c] = "idle" /\ calls < MaxCalls
    /\ calls' = calls + 1
    /\ Goto(c, step)
    /\ call' = [call EXCEPT ![c] = request]
    /\ UNCHANGED <<task, audit, told, byHand, history>>

\* create_map: one command.
CreateMap(m, p) ==
    /\ task[m] = NoTask /\ calls < MaxCalls
    /\ calls' = calls + 1
    /\ task' = [task EXCEPT ![m] = [NoTask EXCEPT !.status = "pending", !.project = p]]
    /\ UNCHANGED <<pc, call, audit, told, byHand, history>>

\* create_ticket, move_task, claim, resolve: what each is called with.
Create(c, m, p) == There(m) /\ Begin(c, "check", Request("create", None, m, p))
Move(c, x, m, p) ==
    /\ There(x) /\ (m # None \/ p # None)
    /\ m # None => x \notin Maps /\ There(m)
    /\ Begin(c, "read", Request("move", x, m, p))
Claim(c, x) == There(x) /\ Begin(c, "read", Request("claim", x, None, None))
Resolve(c, x) == There(x) /\ Begin(c, "read", Request("resolve", x, None, None))

\* Mutation: resolve leaves it to `done` to refuse a closed task.
RefusedLate(r, t) ==
    \/ r.door = "claim" /\ t.started
    \/ r.door = "move" /\ Over([r EXCEPT !.seen = t]) = None
\* What a door refuses of the task as it read it.
Refused(r, t) ==
    \/ r.door = "claim" /\ t.started
    \/ r.door = "resolve" /\ t.status # "pending"
    \/ r.door = "move" /\ Over([r EXCEPT !.seen = t]) = None

\* A request is past the check of `resolve` and has not ended.
Resolving(x) == \E c \in Callers : pc[c] \in {"children", "answer", "done"} /\ call[c].task = x

Read(c) ==
    /\ pc[c] = "read"
    /\ LET r == call[c] t == task[r.task] IN
       IF Refused(r, t) THEN Leave(c) /\ UNCHANGED doubtful
       ELSE /\ Goto(c, CASE r.door = "claim" -> "start"
                         [] r.door = "move" -> "check"
                         [] OTHER -> IF r.task \in Maps THEN "children" ELSE "answer")
            /\ call' = [call EXCEPT ![c].seen = IF r.door = "move" THEN t ELSE @]
            /\ doubtful' = IF r.door = "resolve" /\ Resolving(r.task) THEN doubtful \cup {r.task} ELSE doubtful
    /\ Outside /\ UNCHANGED <<task, heard, late, overlap, answers, claims, closers>>

\* The project a ticket gets: the one asked for, its own if it stays under its
\* map, else the map's.
ProjectOf(r) ==
    LET own == IF r.project # None THEN r.project
               ELSE IF r.parent = None THEN r.seen.project ELSE None
    IN IF own # None THEN own ELSE task[Over(r)].project

\* Mutation: a map may move away from its tickets.
AllowedFreely(r) == r.task \in Maps \/ placed(ProjectOf(r), task[Over(r)].project)
\* A ticket must be placed under its map; a map's open tickets must stay so.
Allowed(r) ==
    IF r.task \in Maps
    THEN \A k \in Children(r.task) : placed(task[k].project, r.project)
    ELSE placed(ProjectOf(r), task[Over(r)].project)

Check(c) ==
    /\ pc[c] = "check"
    /\ IF Allowed(call[c])
       THEN Goto(c, "write") /\ call' = [call EXCEPT ![c].project = ProjectOf(call[c])]
       ELSE Leave(c)
    /\ Outside /\ UNCHANGED <<task, history>>

Closing(m) == \E c \in Callers : pc[c] \in {"answer", "done"} /\ call[c].task = m
ComesLate(m) == ~Pending(m) \/ Closing(m)

Add(c, k) ==
    /\ pc[c] = "write" /\ call[c].door = "create" /\ task[k] = NoTask
    /\ LET r == call[c] IN
       /\ task' = [task EXCEPT ![k] = [status |-> "pending", started |-> FALSE,
                                       parent |-> r.parent, project |-> r.project]]
       /\ late' = IF ComesLate(r.parent) THEN late \cup {k} ELSE late
       /\ overlap' = IF r.crossed THEN overlap \cup {k} ELSE overlap
       /\ LeaveCrossing(c, k, r.parent)
    /\ Outside /\ UNCHANGED <<heard, replies, claims, closers>>

\* Only the fields that differ from what was read are written.
ModifyTicket(c) ==
    /\ pc[c] = "write" /\ call[c].door = "move" /\ call[c].task \in Tickets
    /\ LET r == call[c] k == r.task
           moved == Over(r) # r.seen.parent
       IN /\ task' = [task EXCEPT
                ![k].parent = IF moved THEN Over(r) ELSE @,
                ![k].project = IF r.project # r.seen.project THEN r.project ELSE @]
          /\ late' = IF moved THEN IF ComesLate(Over(r)) THEN late \cup {k} ELSE late \ {k} ELSE late
          /\ overlap' = IF r.crossed THEN overlap \cup {k} ELSE overlap \ {k}
          /\ LeaveCrossing(c, k, Over(r))
    /\ Outside /\ UNCHANGED <<heard, replies, claims, closers>>

ModifyMap(c) ==
    /\ pc[c] = "write" /\ call[c].door = "move" /\ call[c].task \in Maps
    /\ LET r == call[c] IN
       /\ task' = [task EXCEPT ![r.task].project = r.project]
       /\ overlap' = IF r.crossed THEN overlap \cup Children(r.task) ELSE overlap
       /\ LeaveCrossing(c, r.task, r.task)
    /\ Outside /\ UNCHANGED <<heard, late, replies, claims, closers>>
-----------------------------------------------------------------------------
\* Mutation: the refusal of a started task is swallowed.
StartAlways(c) ==
    /\ pc[c] = "start"
    /\ LET x == call[c].task IN
       IF Pending(x)
       THEN /\ task' = [task EXCEPT ![x].started = TRUE]
            /\ claims' = [claims EXCEPT ![x] = @ \cup {c}]
       ELSE UNCHANGED <<task, claims>>
    /\ Leave(c) /\ Outside /\ UNCHANGED <<heard, late, overlap, replies, closers>>

\* `task start`: refused, and an error to the caller, unless pending and idle.
Start(c) ==
    /\ pc[c] = "start"
    /\ LET x == call[c].task IN
       IF Pending(x) /\ ~task[x].started
       THEN /\ task' = [task EXCEPT ![x].started = TRUE]
            /\ claims' = [claims EXCEPT ![x] = @ \cup {c}]
       ELSE UNCHANGED <<task, claims>>
    /\ Leave(c) /\ Outside /\ UNCHANGED <<heard, late, overlap, replies, closers>>

\* `task stop`, by a person or a run that yields.
Release(x) ==
    /\ Pending(x) /\ task[x].started
    /\ task' = [task EXCEPT ![x].started = FALSE]
    /\ claims' = [claims EXCEPT ![x] = {}]
    /\ UNCHANGED <<pc, call, heard, late, overlap, replies, closers>> /\ Outside

\* Mutation: only tickets nobody has claimed hold a map open.
OpenFrontier(c) ==
    /\ pc[c] = "children"
    /\ IF \E k \in Children(call[c].task) : ~task[k].started THEN Leave(c)
       ELSE Goto(c, "answer") /\ UNCHANGED call
    /\ Outside /\ UNCHANGED <<task, history>>

\* A map with open tickets is not resolved.
OpenChildren(c) ==
    /\ pc[c] = "children"
    /\ IF Children(call[c].task) # {} THEN Leave(c)
       ELSE Goto(c, "answer") /\ UNCHANGED call
    /\ Outside /\ UNCHANGED <<task, history>>

\* The answer is an annotation, which the store takes on a closed task too.
Annotate(c) ==
    /\ pc[c] = "answer"
    /\ answers' = [answers EXCEPT ![call[c].task] = @ + 1]
    /\ Goto(c, "done")
    /\ Outside /\ UNCHANGED <<task, call, heard, late, overlap, doubtful, claims, closers>>

\* `task done`: refused on a closed task, an error to the caller.
Complete(c) ==
    /\ pc[c] = "done"
    /\ LET x == call[c].task IN
       IF Pending(x)
       THEN /\ task' = [task EXCEPT ![x].status = "completed", ![x].started = FALSE]
            /\ closers' = [closers EXCEPT ![x] = @ \cup {c}]
            /\ claims' = [claims EXCEPT ![x] = {}]
       ELSE UNCHANGED <<task, claims, closers>>
    /\ Leave(c) /\ Outside /\ UNCHANGED <<heard, late, overlap, replies>>

\* A command fails: an error to the caller, and what was written before stays.
Fails(c) ==
    /\ pc[c] # "idle"
    /\ doubtful' = IF pc[c] = "done" THEN doubtful \cup {call[c].task} ELSE doubtful
    /\ Leave(c) /\ Outside /\ UNCHANGED <<task, heard, late, overlap, answers, claims, closers>>

\* A session or a person adds a task with the task program, under no map.
AddByHand(k) ==
    /\ byHand < MaxByHand /\ task[k] = NoTask
    /\ byHand' = byHand + 1
    /\ task' = [task EXCEPT ![k].status = "pending"]
    /\ UNCHANGED <<pc, call, audit, told, calls, history>>
-----------------------------------------------------------------------------
\* service.audit, over one export of the open tasks.
Orphaned(k) == Pending(k) /\ task[k].parent # None /\ ~Pending(task[k].parent)
Misplaced(k) == /\ Pending(k) /\ task[k].parent # None /\ Pending(task[k].parent)
                /\ ~placed(task[k].project, task[task[k].parent].project)
Faults ==
    {<<"mapless", k>> : k \in {k \in Tickets : Pending(k) /\ task[k].parent = None}}
    \cup {<<"orphaned", k>> : k \in {k \in Tickets : Orphaned(k)}}
    \cup {<<"misplaced", k>> : k \in {k \in Tickets : Misplaced(k)}}

\* The lines of a message: the faults by kind, and no more than fit.
Order(fault) == CASE fault[1] = "mapless" -> 1 [] fault[1] = "misplaced" -> 2 [] OTHER -> 3
Listed(new) ==
    {shown \in SUBSET new :
        /\ Cardinality(shown) = IF Cardinality(new) > Lines THEN Lines ELSE Cardinality(new)
        /\ \A f \in shown, g \in new \ shown : Order(f) <= Order(g)}

\* _daily_audit, a day after the last: one message for all that is new.  Whether it
\* reached the owner is not looked at.  Nothing of the audit shows before that.
AuditTells ==
    /\ audit = AtRest
    /\ audit' = [step |-> "save", faults |-> Faults]
    /\ LET new == Faults \ told IN
       \/ \E shown \in Listed(new) :
             /\ named' = (named \ new) \cup shown
             /\ unheard' = unheard \ new
             /\ crowded' = (crowded \ new) \cup (IF Cardinality(new) > Lines THEN new \ shown ELSE {})
       \/ named' = named \ new /\ unheard' = unheard \cup new /\ crowded' = crowded \ new
    /\ UNCHANGED <<task, pc, call, told, calls, byHand, late, overlap, replies, claims, closers>>

\* What was gone at this audit is news again when it comes back.
StillThere ==
    /\ named' = named \cap audit.faults
    /\ unheard' = unheard \cap audit.faults
    /\ crowded' = crowded \cap audit.faults

\* Mutation: what was told once is never forgotten.
AuditAccumulates ==
    /\ audit.step = "save"
    /\ told' = told \cup audit.faults
    /\ StillThere
    /\ audit' = AtRest
    /\ UNCHANGED <<task, pc, call, calls, byHand, late, overlap, replies, claims, closers>>
AuditSaves ==
    /\ audit.step = "save"
    /\ told' = audit.faults
    /\ StillThere
    /\ audit' = AtRest
    /\ UNCHANGED <<task, pc, call, calls, byHand, late, overlap, replies, claims, closers>>

\* audit.json is emptied and then written: what cannot be read was never told.
CutOff == told' \in IF audit.step = "save" THEN {told, {}} ELSE {told}

\* It cannot be written, which is no error.
AuditUnsaved ==
    /\ audit.step = "save"
    /\ CutOff
    /\ audit' = AtRest
    /\ UNCHANGED <<task, pc, call, calls, byHand, history>>

\* The process dies; the store stays, and so does audit.json if it was whole.
Die ==
    /\ audit # AtRest \/ \E c \in Callers : pc[c] # "idle"
    /\ CutOff
    /\ doubtful' = doubtful \cup {call[c].task : c \in {c \in Callers : pc[c] = "done"}}
    /\ pc' = [c \in Callers |-> "idle"]
    /\ call' = [c \in Callers |-> Nothing]
    /\ audit' = AtRest
    /\ UNCHANGED <<task, calls, byHand, heard, late, overlap, answers, claims, closers>>

Doors(c) ==
    \/ Read(c) \/ Check(c) \/ ModifyTicket(c) \/ ModifyMap(c)
    \/ Start(c) \/ OpenChildren(c) \/ Annotate(c) \/ Complete(c) \/ Fails(c)
    \/ \E k \in Tickets : Add(c, k)
    \/ \E m \in Maps, p \in Projects \cup {None} : Create(c, m, p)
    \/ \E x \in Tasks : \/ Claim(c, x) \/ Resolve(c, x)
                        \/ \E m \in Maps \cup {None}, p \in Projects \cup {None} : Move(c, x, m, p)

Next ==
    \/ \E c \in Callers : Doors(c)
    \/ \E m \in Maps, p \in Projects : CreateMap(m, p)
    \/ \E x \in Tasks : Release(x)
    \/ \E k \in Tickets : AddByHand(k)
    \/ AuditTells \/ AuditSaves \/ AuditUnsaved
    \/ Die

Spec == Init /\ [][Next]_vars
-----------------------------------------------------------------------------
Steps == {"idle", "read", "check", "write", "start", "children", "answer", "done"}
Requests == [door : {"none", "create", "move", "claim", "resolve"}, task : Tasks \cup {None},
             parent : Maps \cup {None}, project : Projects \cup {None},
             seen : Records, crossed : BOOLEAN]

\* Every request is about a task or a map that is in the store.
TypeOK ==
    /\ task \in [Tasks -> Records]
    /\ pc \in [Callers -> Steps]
    /\ call \in [Callers -> Requests]
    /\ \A c \in Callers : pc[c] # "idle" =>
          IF call[c].door = "create"
          THEN pc[c] \in {"check", "write"} /\ call[c].task = None /\ call[c].parent \in Maps
          ELSE call[c].task \in Tasks
    /\ \A c \in Callers : pc[c] \in {"check", "write"} =>
          call[c].door \in {"create", "move"} /\ Over(call[c]) \in Maps
    /\ late \subseteq Tickets /\ overlap \subseteq Tickets
    /\ answers \in [Tasks -> Nat] /\ doubtful \subseteq Tasks
    /\ claims \in [Tasks -> SUBSET Callers] /\ closers \in [Tasks -> SUBSET Callers]

\* Of all the requests that claim a task, one at most is told it has the claim
\* until the claim is released: the door's read of `active` does not decide
\* that, the refusal of `task start` does.
ClaimedByOne == \A x \in Tasks : Cardinality(claims[x]) <= 1

\* One request at most is told it resolved a task, and a task has one answer at
\* most, however often `resolve` is tried again -- unless two were past its check
\* at once, or one failed or died between its answer and its `done`, for which the
\* next attempt answers again ("a retry used to append a second answer",
\* service.py).
AnswerStands ==
    \A x \in Tasks : Cardinality(closers[x]) <= 1 /\ (answers[x] <= 1 \/ x \in doubtful)

\* Closing a map hides no ticket that was under it: an open ticket under a
\* closed map was put there once the map's tickets had been checked.
OrphansCameLate == \A k \in Tickets : Orphaned(k) => k \in late

\* Every ticket's project is its map's or below it, unless the ticket or its
\* map was moved by a request that another crossed between check and write.
MisplacedByOverlap == \A k \in Tickets : Misplaced(k) => k \in overlap

\* What the daily audit keeps quiet about was in its last message about it: it was
\* named there, unless that message did not arrive or had more faults to name than
\* lines; and it has been there at every audit since.  A fault that is fixed and
\* comes back is told again, and no crash makes one be taken for told.
QuietFaultsWereNamed == told \subseteq named \cup unheard \cup crowded
=============================================================================
