----------------------------- MODULE FilesProofs -----------------------------
(***************************************************************************)
(* What a reader of pu's files gets, for any number of those who write them *)
(* and die over them: a task's body (Bodies), the all-time statistics       *)
(* (Rollup), the config of a type's MCP servers (Servers), the copy of the  *)
(* roles (Roles) and a type's instructions (Instructions); and what a       *)
(* session's report, read back, makes of its task (Verdict).                *)
(***************************************************************************)
EXTENDS Bodies, Rollup, Servers, Roles, Instructions, Verdict, WellFoundedInduction, TLAPS

-----------------------------------------------------------------------------
(* Bodies: a writer that nobody crosses has the temporary file to itself.  *)

BodiesShapes ==
    /\ content \in [Writers -> Contents]
    /\ tmp \in Writers \cup {NoFile} /\ body \in Writers \cup {NoFile}
    /\ put \in [Writers -> [step : {"start", "write", "replace", "over"},
                            file : Writers \cup {NoFile}]]
    /\ settled \in Writers \cup {NoFile}
    /\ between \subseteq Writers

\* The two names are never the same file, a file is new to the writer that
\* creates it, and what is in place is what the last set() wrote.
FilesApart ==
    /\ \A w \in Writers : put[w].step = "start" => put[w] = NotPutting /\ tmp # w /\ body # w
    /\ tmp # NoFile => tmp # body
    /\ IF body = NoFile THEN settled = NoFile ELSE content[body] = settled

\* A writer that nobody crosses has the temporary file to itself.
WriterAlone ==
    \A w \in Putting :
        /\ \A v \in Putting : v = w
        /\ tmp # NoFile /\ put[w].file = tmp
        /\ content[tmp] = IF put[w].step = "write" THEN "partial" ELSE w

BodiesInv == BodiesShapes /\ (between = {} => FilesApart /\ WriterAlone)

LEMMA BodiesInvInit == BodiesInit => BodiesInv
    <1> SUFFICES ASSUME BodiesInit PROVE BodiesInv
        OBVIOUS
    <1> USE BodiesAssumption DEF BodiesInit
    <1>1. BodiesShapes
        BY DEF BodiesShapes, Contents, NotPutting
    <1>2. FilesApart
        BY DEF FilesApart, NotPutting
    <1>3. WriterAlone
        BY DEF WriterAlone, Putting, NotPutting
    <1> QED
        BY <1>1, <1>2, <1>3 DEF BodiesInv

LEMMA BodiesOpenKeeps == ASSUME BodiesInv, NEW w \in Writers, OpenTemporary(w) PROVE BodiesInv'
    <1> USE BodiesAssumption
    <1> DEFINE file == IF tmp = NoFile THEN w ELSE tmp
    <1>1. /\ file \in Writers /\ tmp' = file /\ body' = body /\ settled' = settled
          /\ content' = [content EXCEPT ![file] = "partial"]
          /\ put' = [put EXCEPT ![w] = [step |-> "write", file |-> file]]
          /\ put[w] = NotPutting
        BY DEF OpenTemporary, BodiesInv, BodiesShapes
    <1>2. BodiesShapes'
        BY <1>1 DEF OpenTemporary, BodiesInv, BodiesShapes, Contents, Putting
    <1> SUFFICES ASSUME between' = {} PROVE FilesApart' /\ WriterAlone'
        BY <1>2 DEF BodiesInv
    <1>3. between = {} /\ Putting = {}
        BY DEF OpenTemporary, BodiesInv, BodiesShapes
    <1>4. FilesApart
        BY <1>3 DEF BodiesInv
    <1>5. file # body
        BY <1>1, <1>4 DEF FilesApart, NotPutting
    <1>6. \A v \in Writers \ {w} : put[v].step \in {"start", "over"} /\ put'[v] = put[v]
        BY <1>1, <1>3 DEF BodiesInv, BodiesShapes, Putting
    <1>7. /\ Putting' = {w} /\ put'[w] = [step |-> "write", file |-> file]
          /\ content'[file] = "partial"
        BY <1>1, <1>6 DEF BodiesInv, BodiesShapes, Putting
    <1>8. FilesApart'
        <2>1. \A v \in Writers : put'[v].step = "start"
                                  => put'[v] = NotPutting /\ tmp' # v /\ body' # v
            BY <1>1, <1>4, <1>6, <1>7 DEF FilesApart, NotPutting
        <2>2. body # NoFile => content'[body] = content[body]
            BY <1>1, <1>5 DEF BodiesInv, BodiesShapes
        <2> QED
            BY <1>1, <1>4, <1>5, <2>1, <2>2 DEF FilesApart
    <1>9. WriterAlone'
        BY <1>1, <1>7 DEF WriterAlone
    <1> QED
        BY <1>8, <1>9

LEMMA BodiesWriteKeeps == ASSUME BodiesInv, NEW w \in Writers, WriteTemporary(w) PROVE BodiesInv'
    <1> USE BodiesAssumption
    <1> DEFINE file == put[w].file
    <1>1. PICK text \in Contents :
              /\ text = w \/ content[file] \in Writers
              /\ content' = [content EXCEPT ![file] = text]
        BY DEF WriteTemporary, Contents
    <1>2. /\ put[w].step = "write" /\ put' = [put EXCEPT ![w].step = "replace"]
          /\ UNCHANGED <<tmp, body, settled, between>>
        BY DEF WriteTemporary
    <1>3. BodiesShapes'
        BY <1>1, <1>2 DEF BodiesInv, BodiesShapes
    <1> SUFFICES ASSUME between' = {} PROVE FilesApart' /\ WriterAlone'
        BY <1>3 DEF BodiesInv
    <1>4. FilesApart /\ WriterAlone /\ Putting' = Putting /\ w \in Putting
        BY <1>2 DEF BodiesInv, BodiesShapes, Putting
    <1>5. Putting = {w} /\ tmp # NoFile /\ file = tmp /\ content[tmp] = "partial" /\ tmp # body
        BY <1>2, <1>4 DEF WriterAlone, FilesApart
    <1>6. content'[tmp] = w /\ (body # NoFile => content'[body] = content[body])
        BY <1>1, <1>5 DEF BodiesInv, BodiesShapes
    <1>7. FilesApart'
        BY <1>2, <1>4, <1>6 DEF FilesApart, BodiesInv, BodiesShapes
    <1>8. WriterAlone'
        BY <1>2, <1>4, <1>5, <1>6 DEF WriterAlone, BodiesInv, BodiesShapes
    <1> QED
        BY <1>7, <1>8

LEMMA BodiesReplaceKeeps == ASSUME BodiesInv, NEW w \in Writers, ReplaceBody(w) PROVE BodiesInv'
    <1> USE BodiesAssumption
    <1>1. /\ put[w].step = "replace"
          /\ put' = [put EXCEPT ![w] = [step |-> "over", file |-> NoFile]]
          /\ UNCHANGED <<content, between>>
        BY DEF ReplaceBody, PutOver
    <1>2. BodiesShapes'
        BY <1>1 DEF ReplaceBody, BodiesInv, BodiesShapes
    <1> SUFFICES ASSUME between' = {} PROVE FilesApart' /\ WriterAlone'
        BY <1>2 DEF BodiesInv
    <1>3. FilesApart /\ WriterAlone /\ w \in Putting
        BY <1>1 DEF BodiesInv, Putting
    <1>4. Putting = {w} /\ tmp # NoFile /\ content[tmp] = w
        BY <1>1, <1>3 DEF WriterAlone
    <1>5. body' = tmp /\ tmp' = NoFile /\ settled' = w /\ Putting' = {}
        BY <1>1, <1>4 DEF ReplaceBody, Putting, BodiesInv, BodiesShapes
    <1>6. FilesApart'
        BY <1>1, <1>3, <1>4, <1>5 DEF FilesApart, BodiesInv, BodiesShapes
    <1>7. WriterAlone'
        BY <1>5 DEF WriterAlone
    <1> QED
        BY <1>6, <1>7

\* A full disk leaves what is in place; a left-over temporary file is no one's.
LEMMA BodiesFailKeeps == ASSUME BodiesInv, NEW w \in Writers, WriteFails(w) PROVE BodiesInv'
    <1> USE BodiesAssumption
    <1>1. /\ put[w].step = "write" /\ put' = [put EXCEPT ![w] = [step |-> "over", file |-> NoFile]]
          /\ content' = [content EXCEPT ![put[w].file] = "partial"]
          /\ UNCHANGED <<tmp, body, settled, between>>
        BY DEF WriteFails, PutOver
    <1>2. BodiesShapes'
        BY <1>1 DEF BodiesInv, BodiesShapes, Contents
    <1> SUFFICES ASSUME between' = {} PROVE FilesApart' /\ WriterAlone'
        BY <1>2 DEF BodiesInv
    <1>3. FilesApart /\ WriterAlone /\ w \in Putting
        BY <1>1 DEF BodiesInv, Putting
    <1>4. Putting = {w} /\ put[w].file = tmp /\ tmp # NoFile /\ tmp # body
        BY <1>3 DEF WriterAlone, FilesApart
    <1>5. Putting' = {}
        BY <1>1, <1>4 DEF Putting, BodiesInv, BodiesShapes
    <1>6. body # NoFile => content'[body] = content[body]
        BY <1>1, <1>4 DEF BodiesInv, BodiesShapes
    <1>7. FilesApart'
        BY <1>1, <1>3, <1>6 DEF FilesApart, BodiesInv, BodiesShapes
    <1>8. WriterAlone'
        BY <1>5 DEF WriterAlone
    <1> QED
        BY <1>7, <1>8

LEMMA BodiesDieKeeps == ASSUME BodiesInv, BodiesDie PROVE BodiesInv'
    <1> USE BodiesAssumption
    <1>1. /\ put' = [w \in Writers |-> IF w \in Putting THEN [step |-> "over", file |-> NoFile]
                                      ELSE put[w]]
          /\ UNCHANGED <<content, tmp, body, settled, between>>
        BY DEF BodiesDie
    <1>2. BodiesShapes'
        BY <1>1 DEF BodiesInv, BodiesShapes
    <1>3. Putting' = {}
        BY <1>1 DEF Putting
    <1> QED
        BY <1>1, <1>2, <1>3 DEF BodiesInv, FilesApart, WriterAlone

LEMMA BodiesInvNext == BodiesInv /\ [BodiesNext]_bodiesVars => BodiesInv'
    <1> SUFFICES ASSUME BodiesInv, [BodiesNext]_bodiesVars PROVE BodiesInv'
        OBVIOUS
    <1>1. CASE UNCHANGED bodiesVars
        BY <1>1 DEF bodiesVars, BodiesInv, BodiesShapes, FilesApart, WriterAlone, Putting
    <1> QED
        BY <1>1, BodiesOpenKeeps, BodiesWriteKeeps, BodiesReplaceKeeps, BodiesFailKeeps,
           BodiesDieKeeps DEF BodiesNext

\* Unless two writers were in set() at once, a reader gets the text of the last
\* set() that returned, whatever disks fill up and processes die in between.
THEOREM BodyIsWhole == BodiesInit /\ [][BodiesNext]_bodiesVars => []BodyIsTheLastSet
    <1>1. BodiesInv => BodyIsTheLastSet
        BY DEF BodiesInv, FilesApart, BodyIsTheLastSet
    <1> QED
        BY BodiesInvInit, BodiesInvNext, <1>1, PTL

-----------------------------------------------------------------------------
(* Rollup: a run that no other one crossed counts once.                    *)

Places == {"session", "load", "rebuild", "open", "write", "over"}

RollupShapes ==
    /\ at \in [Runs -> Places]
    /\ records \subseteq Runs /\ counted \subseteq Runs /\ met \subseteq Runs
    /\ rollup \in [readable : BOOLEAN, count : [Runs -> Nat]]
    /\ held \in [Runs -> [Runs -> Nat]]

\* Runs are counted after they are recorded.
Ordered == \A r \in Runs :
    /\ at[r] = "session" => r \notin records
    /\ r \in counted => at[r] = "over"
    /\ r \in Recording \cup counted => r \in records

\* A run that has crossed no other has the file to itself while it is counted.
Alone == \A r \in Recording \ met : Recording = {r}

\* What does not count a run yet: the file, until the run has counted itself or
\* another has counted all records.
NotYet == \A r \in Runs :
    /\ r \notin records => rollup.count[r] = 0 /\ \A x \in Runs : at[x] # "over" => held[x][r] = 0
    /\ r \in Recording \ met /\ at[r] = "load" => rollup.count[r] = 0

\* What counts it once: the file, and whatever is about to be written to it.
Once == \A r \in Runs \ met :
    /\ r \in counted =>
          /\ rollup.readable => rollup.count[r] = 1
          /\ \A x \in Runs : at[x] \in {"open", "write"} => held[x][r] = 1
    /\ at[r] \in {"open", "write"} => held[r][r] = 1

RollupInv == RollupShapes /\ Ordered /\ Alone /\ NotYet /\ Once

LEMMA RollupInvInit == RollupInit => RollupInv
    BY DEF RollupInit, NoRun, RollupInv, RollupShapes, Places, Ordered, Alone, NotYet, Once,
           Recording

\* A run keeps the others in place.
LEMMA RollupStepsApart ==
    ASSUME RollupShapes, NEW r \in Runs, NEW to \in Places, Step(r, to)
    PROVE  /\ at' \in [Runs -> Places] /\ at'[r] = to
           /\ \A x \in Runs \ {r} : at'[x] = at[x]
           /\ Recording' = IF to \in {"session", "over"} THEN Recording \ {r}
                           ELSE Recording \cup {r}
    BY DEF RollupShapes, Step, Recording

LEMMA RollupRecordKeeps == ASSUME RollupInv, NEW r \in Runs, RecordRun(r) PROVE RollupInv'
    <1> USE DEF RollupInv
    <1>1. at[r] = "session" /\ r \notin records /\ r \notin counted /\ r \notin Recording
        BY DEF RecordRun, Ordered, Recording
    <1>2. UNCHANGED <<rollup, held, counted>>
        BY DEF RecordRun
    <1>3. CASE Step(r, "load")
        <2>1. /\ at' \in [Runs -> Places] /\ at'[r] = "load"
              /\ \A x \in Runs \ {r} : at'[x] = at[x]
              /\ Recording' = Recording \cup {r}
            BY <1>3, RollupStepsApart DEF Places
        <2>2. /\ records' = records \cup {r}
              /\ met' = IF Recording = {} THEN met ELSE met \cup Recording \cup {r}
            BY <1>3, <2>1 DEF RecordRun, Step, RollupShapes
        <2>3. RollupShapes'
            BY <1>2, <2>1, <2>2 DEF RollupShapes, Recording
        <2>4. Ordered'
            BY <1>1, <1>2, <2>1, <2>2 DEF Ordered
        <2>5. Alone'
            BY <2>1, <2>2 DEF Alone
        <2>6. NotYet'
            BY <1>1, <1>2, <2>1, <2>2, <2>5 DEF NotYet, Alone, Recording
        <2>7. Once'
            BY <1>1, <1>2, <2>1, <2>2 DEF Once
        <2> QED
            BY <2>3, <2>4, <2>5, <2>6, <2>7
    <1>4. CASE Step(r, "over") /\ UNCHANGED <<records, met>>
        <2>1. /\ at' \in [Runs -> Places] /\ at'[r] = "over"
              /\ \A x \in Runs \ {r} : at'[x] = at[x]
              /\ Recording' = Recording
            BY <1>1, <1>4, RollupStepsApart DEF Places
        <2>2. RollupShapes' /\ Ordered' /\ Alone'
            BY <1>1, <1>2, <1>4, <2>1 DEF RollupShapes, Ordered, Alone
        <2>3. NotYet'
            BY <1>1, <1>2, <1>4, <2>1 DEF NotYet
        <2>4. Once'
            BY <1>1, <1>2, <1>4, <2>1 DEF Once
        <2> QED
            BY <2>2, <2>3, <2>4
    <1> QED
        BY <1>3, <1>4 DEF RecordRun

\* A run that reads the rollup, or counts all records, has itself once in what it
\* holds, and no one less than there was.
LEMMA RollupHoldKeeps ==
    ASSUME RollupInv, NEW x \in Runs, NEW count \in [Runs -> Nat], NEW to \in {"open", "rebuild"},
           at[x] \in {"load", "rebuild"}, Step(x, to), UNCHANGED <<records, rollup, counted, met>>,
           to = "rebuild" => held' = held,
           to = "open" => /\ held' = [held EXCEPT ![x] = count]
                          /\ \A r \in Runs \ records : count[r] = 0
                          /\ \A r \in counted \ met : count[r] = 1
                          /\ x \notin met => count[x] = 1
    PROVE  RollupInv'
    <1> USE DEF RollupInv
    <1>1. /\ at' \in [Runs -> Places] /\ at'[x] = to
          /\ \A y \in Runs \ {x} : at'[y] = at[y]
          /\ Recording' = Recording /\ x \in Recording
        BY RollupStepsApart DEF Places, Recording
    <1>2. held' \in [Runs -> [Runs -> Nat]] /\ \A y \in Runs \ {x} : held'[y] = held[y]
        BY DEF RollupShapes
    <1>3. to = "open" => held'[x] = count
        BY DEF RollupShapes
    <1>4. RollupShapes' /\ Ordered' /\ Alone'
        BY <1>1, <1>2 DEF RollupShapes, Ordered, Alone
    <1>5. NotYet'
        BY <1>1, <1>2, <1>3 DEF NotYet, RollupShapes, Ordered
    <1>6. Once'
        <2> SUFFICES ASSUME NEW r \in Runs, r \notin met PROVE
                /\ r \in counted =>
                      /\ rollup.readable => rollup.count[r] = 1
                      /\ \A y \in Runs : at'[y] \in {"open", "write"} => held'[y][r] = 1
                /\ at'[r] \in {"open", "write"} => held'[r][r] = 1
            BY <1>1 DEF Once
        <2>1. ASSUME NEW y \in Runs, y # x PROVE at'[y] = at[y] /\ held'[y] = held[y]
            BY <1>1, <1>2, <2>1
        <2>2. CASE r \in counted
            BY <1>1, <1>3, <2>1, <2>2 DEF Once, Ordered
        <2>3. CASE r \notin counted
            BY <1>1, <1>2, <1>3, <2>3 DEF Once
        <2> QED
            BY <2>2, <2>3
    <1> QED
        BY <1>4, <1>5, <1>6

LEMMA RollupLoadKeeps == ASSUME RollupInv, NEW x \in Runs, LoadRollup(x) PROVE RollupInv'
    <1>1. CASE rollup.readable
        <2> DEFINE count == Added(rollup.count, x)
        <2>1. rollup.count \in [Runs -> Nat] /\ x \in records /\ at[x] = "load" /\ x \notin counted
            BY DEF RollupInv, RollupShapes, Ordered, LoadRollup, Recording
        <2>2. /\ count \in [Runs -> Nat]
              /\ count[x] = rollup.count[x] + 1
              /\ \A r \in Runs \ {x} : count[r] = rollup.count[r]
            BY <2>1 DEF Added
        <2>3. \A r \in Runs \ records : count[r] = 0
            BY <2>1, <2>2 DEF RollupInv, NotYet
        <2>4. \A r \in counted \ met : count[r] = 1
            BY <1>1, <2>1, <2>2 DEF RollupInv, Once, RollupShapes
        <2>5. x \notin met => count[x] = 1
            BY <2>1, <2>2 DEF RollupInv, NotYet, Recording
        <2>6. Step(x, "open") /\ held' = [held EXCEPT ![x] = count]
            BY <1>1 DEF LoadRollup
        <2> HIDE DEF count
        <2> QED
            BY <2>1, <2>2, <2>3, <2>4, <2>5, <2>6, RollupHoldKeeps DEF LoadRollup
    <1>2. CASE ~rollup.readable
        BY <1>2, RollupHoldKeeps DEF LoadRollup, RollupInv, RollupShapes
    <1> QED
        BY <1>1, <1>2 DEF RollupInv, RollupShapes

LEMMA RollupRebuildKeeps == ASSUME RollupInv, NEW x \in Runs, RebuildRollup(x) PROVE RollupInv'
    <1>1. x \in records /\ at[x] = "rebuild" /\ counted \subseteq records
        BY DEF RollupInv, RollupShapes, Ordered, RebuildRollup, Recording
    <1>2. /\ Rebuilt \in [Runs -> Nat]
          /\ \A r \in Runs : Rebuilt[r] = IF r \in records THEN 1 ELSE 0
        BY DEF Rebuilt
    <1>3. Step(x, "open") /\ held' = [held EXCEPT ![x] = Rebuilt]
        BY DEF RebuildRollup
    <1> QED
        BY <1>1, <1>2, <1>3, RollupHoldKeeps DEF RebuildRollup, RollupInv, RollupShapes

\* An empty file counts nobody, and is rebuilt by whoever reads it.
LEMMA RollupOpenKeeps == ASSUME RollupInv, NEW x \in Runs, OpenRollup(x) PROVE RollupInv'
    <1> USE DEF RollupInv
    <1>1. /\ at' \in [Runs -> Places] /\ at'[x] = "write" /\ at[x] = "open"
          /\ \A y \in Runs \ {x} : at'[y] = at[y]
          /\ Recording' = Recording /\ x \in Recording
        BY RollupStepsApart DEF Places, Recording, OpenRollup
    <1>2. /\ rollup' \in [readable : BOOLEAN, count : [Runs -> Nat]] /\ ~rollup'.readable
          /\ \A r \in Runs : rollup'.count[r] = 0
          /\ UNCHANGED <<records, held, counted, met>>
        BY DEF OpenRollup, NoRun
    <1>3. RollupShapes' /\ Ordered' /\ Alone'
        BY <1>1, <1>2 DEF RollupShapes, Ordered, Alone
    <1>4. NotYet'
        BY <1>1, <1>2 DEF NotYet
    <1>5. Once'
        <2> SUFFICES ASSUME NEW r \in Runs \ met PROVE
                /\ r \in counted => \A y \in Runs : at'[y] \in {"open", "write"} => held[y][r] = 1
                /\ at'[r] \in {"open", "write"} => held[r][r] = 1
            BY <1>2 DEF Once
        <2>1. \A y \in Runs : at'[y] \in {"open", "write"} => at[y] \in {"open", "write"}
            BY <1>1
        <2> QED
            BY <2>1 DEF Once
    <1> QED
        BY <1>3, <1>4, <1>5

LEMMA RollupWriteKeeps == ASSUME RollupInv, NEW x \in Runs, WriteRollup(x) PROVE RollupInv'
    <1> USE DEF RollupInv
    <1>1. /\ at' \in [Runs -> Places] /\ at'[x] = "over" /\ at[x] = "write"
          /\ \A y \in Runs \ {x} : at'[y] = at[y]
          /\ Recording' = Recording \ {x} /\ x \in Recording
        BY RollupStepsApart DEF Places, Recording, WriteRollup
    <1>2. counted' = counted \cup {x} /\ UNCHANGED <<records, held, met>>
        BY DEF WriteRollup
    <1>3. /\ rollup' \in [readable : BOOLEAN, count : [Runs -> Nat]]
          /\ rollup'.readable => rollup'.count = held[x]
          /\ \A r \in Runs : rollup'.count[r] \in {0, held[x][r]}
        <2>1. held[x] \in [Runs -> Nat] /\ NoRun \in [Runs -> Nat] /\ \A r \in Runs : NoRun[r] = 0
            BY DEF RollupShapes, NoRun
        <2>2. CASE rollup' = [readable |-> TRUE, count |-> held[x]]
            BY <2>1, <2>2
        <2>3. CASE rollup' = [readable |-> FALSE, count |-> NoRun]
            BY <2>1, <2>3
        <2> QED
            BY <2>2, <2>3 DEF WriteRollup
    <1>4. RollupShapes' /\ Ordered' /\ Alone'
        BY <1>1, <1>2, <1>3 DEF RollupShapes, Ordered, Alone
    <1>5. NotYet'
        BY <1>1, <1>2, <1>3 DEF NotYet, Alone
    <1>6. Once'
        BY <1>1, <1>2, <1>3 DEF Once, Alone, Recording
    <1> QED
        BY <1>4, <1>5, <1>6

LEMMA RollupDieKeeps == ASSUME RollupInv, RollupDie PROVE RollupInv'
    <1>1. /\ at' = [r \in Runs |-> IF at[r] = "session" THEN "session" ELSE "over"]
          /\ UNCHANGED <<records, rollup, held, counted, met>>
        BY DEF RollupDie
    <1>2. Recording' = {}
        BY <1>1 DEF Recording
    <1> QED
        BY <1>1, <1>2 DEF RollupInv, RollupShapes, Places, Ordered, Alone, NotYet, Once

LEMMA RollupInvNext == RollupInv /\ [RollupNext]_rollupVars => RollupInv'
    <1> SUFFICES ASSUME RollupInv, [RollupNext]_rollupVars PROVE RollupInv'
        OBVIOUS
    <1>1. CASE UNCHANGED rollupVars
        BY <1>1 DEF rollupVars, RollupInv, RollupShapes, Ordered, Alone, NotYet, Once, Recording
    <1> QED
        BY <1>1, RollupRecordKeeps, RollupLoadKeeps, RollupRebuildKeeps, RollupOpenKeeps,
           RollupWriteKeeps, RollupDieKeeps DEF RollupNext

\* A run whose ending no other one crossed counts once, whatever the others do.
THEOREM CountedOnce == RollupInit /\ [][RollupNext]_rollupVars => []LoneRunsCountOnce
    <1>1. RollupInv => LoneRunsCountOnce
        BY DEF RollupInv, RollupShapes, Ordered, Once, LoneRunsCountOnce, AllTime, Rebuilt
    <1> QED
        BY RollupInvInit, RollupInvNext, <1>1, PTL

-----------------------------------------------------------------------------
(* Roles: a copy that is not behind is the last answer.                    *)

\* An answer that overlapped no other is the last one, and alone.
AnswersTyped ==
    /\ check \in [Asking -> BOOLEAN \cup {Unasked}]
    /\ registered \in BOOLEAN /\ copy \in BOOLEAN \cup {Unasked}
    /\ answer \in BOOLEAN \cup {Unasked}

LastAnswer ==
    /\ \A r \in Answered \ overlapped : check[r] = answer /\ Answered = {r}
    /\ ~uncopied => copy = answer

RolesInv == AnswersTyped /\ LastAnswer /\ SilenceKeepsTheLastWord

LEMMA FetchKeeps == ASSUME RolesInv, NEW r \in Asking, Fetch(r) PROVE RolesInv'
    <1>1. /\ check' = [check EXCEPT ![r] = registered] /\ answer' = registered /\ uncopied'
          /\ check[r] = Unasked
          /\ overlapped' = IF Answered = {} THEN overlapped \ {r}
                           ELSE overlapped \cup Answered \cup {r}
          /\ UNCHANGED <<registered, copy, verdict>>
        BY DEF Fetch
    <1>2. AnswersTyped'
        BY <1>1 DEF RolesInv, AnswersTyped
    <1>3. Answered' = Answered \cup {r} /\ check'[r] = answer'
        BY <1>1, RolesAssumption DEF RolesInv, AnswersTyped, Answered
    <1>4. LastAnswer'
        BY <1>1, <1>3 DEF LastAnswer
    <1> QED
        BY <1>1, <1>2, <1>4 DEF RolesInv, SilenceKeepsTheLastWord

\* Who has saved, or could not, is gone; the others were overlapped.
LEMMA SaveKeeps ==
    ASSUME RolesInv, NEW r \in Asking, Save(r) \/ SaveFails(r)
    PROVE  RolesInv'
    <1>1. /\ check[r] # Unasked /\ check' = [check EXCEPT ![r] = Unasked]
          /\ copy' \in {check[r], copy, Unasked}
          /\ verdict' = IF r = Tick THEN Told(r) ELSE verdict
          /\ ~uncopied' => r \notin overlapped /\ copy' = check[r]
          /\ UNCHANGED <<registered, answer, overlapped>>
        BY DEF Save, SaveFails
    <1>2. AnswersTyped'
        BY <1>1 DEF RolesInv, AnswersTyped
    <1>3. Answered' = Answered \ {r} /\ r \in Answered
        BY <1>1 DEF RolesInv, AnswersTyped, Answered
    <1>4. \A x \in Answered' : check'[x] = check[x]
        BY <1>1, <1>3 DEF RolesInv, AnswersTyped, Answered
    <1>5. LastAnswer'
        BY <1>1, <1>3, <1>4 DEF RolesInv, LastAnswer
    <1>6. SilenceKeepsTheLastWord'
        BY <1>1 DEF RolesInv, SilenceKeepsTheLastWord, Told
    <1> QED
        BY <1>2, <1>5, <1>6 DEF RolesInv

LEMMA RolesStep == ASSUME RolesInv, RolesNext PROVE RolesInv'
    <1>1. CASE RegistryChanges
        BY <1>1 DEF RegistryChanges, RolesInv, AnswersTyped, LastAnswer, Answered,
                    SilenceKeepsTheLastWord
    <1>2. CASE MakeDo
        <2>1. /\ verdict' = [by |-> IF copy = Unasked THEN "nothing" ELSE "copy",
                             exists |-> copy # FALSE, last |-> answer, crossed |-> uncopied]
              /\ UNCHANGED <<registered, copy, check, answer, overlapped, uncopied>>
            BY <1>2 DEF MakeDo
        <2>2. AnswersTyped' /\ LastAnswer'
            BY <2>1 DEF RolesInv, AnswersTyped, LastAnswer, Answered
        <2>3. ~uncopied => copy = answer
            BY DEF RolesInv, LastAnswer
        <2>4. copy \in BOOLEAN => (copy # FALSE) = copy
            OBVIOUS
        <2>5. SilenceKeepsTheLastWord'
            <3>1. CASE copy = Unasked
                BY <2>1, <2>3, <3>1 DEF SilenceKeepsTheLastWord
            <3>2. CASE copy # Unasked
                <4>1. (copy # FALSE) = copy
                    BY <2>4, <3>2 DEF RolesInv, AnswersTyped
                <4> QED
                    BY <2>1, <2>3, <3>2, <4>1 DEF SilenceKeepsTheLastWord
            <3> QED
                BY <3>1, <3>2
        <2> QED
            BY <2>2, <2>5 DEF RolesInv
    <1>3. CASE RolesDie
        <2>1. /\ check' = [r \in Asking |-> Unasked] /\ uncopied'
              /\ UNCHANGED <<registered, copy, verdict, answer, overlapped>>
            BY <1>3 DEF RolesDie
        <2>2. AnswersTyped' /\ Answered' = {}
            BY <2>1 DEF RolesInv, AnswersTyped, Answered
        <2> QED
            BY <2>1, <2>2 DEF RolesInv, LastAnswer, SilenceKeepsTheLastWord
    <1> QED
        BY <1>1, <1>2, <1>3, FetchKeeps, SaveKeeps DEF RolesNext

\* However many threads read the registry and save what they were told: a
\* launch that goes by the copy goes by the last answer, unless that could not
\* be saved or two readings crossed.
THEOREM CopyIsTheLastWord ==
    RolesInit /\ [][RolesNext]_rolesVars => []SilenceKeepsTheLastWord
    <1>1. RolesInit => RolesInv
        BY DEF RolesInit, RolesInv, AnswersTyped, LastAnswer, Answered,
               SilenceKeepsTheLastWord
    <1>2. RolesInv /\ [RolesNext]_rolesVars => RolesInv'
        <2>1. RolesInv /\ UNCHANGED rolesVars => RolesInv'
            BY DEF rolesVars, RolesInv, AnswersTyped, LastAnswer, Answered,
                   SilenceKeepsTheLastWord
        <2> QED
            BY <2>1, RolesStep
    <1> QED
        BY <1>1, <1>2, PTL DEF RolesInv

-----------------------------------------------------------------------------
(* Servers: a launch that no other crossed has the config to itself.       *)

Steps == {"ahead", "resolve", "write", "start", "session", "no token", "unknown", "failed"}
Resolutions == UNION {[S -> Nat] : S \in SUBSET McpServers}
Configs == [file : {"none", "cut", "whole"}, servers : Resolutions]

SetupShaped ==
    /\ setup \in [Launches -> [step : Steps, attaches : SUBSET McpServers,
                               resolved : Resolutions, config : Configs]]
    /\ registry \in [McpServers -> Nat]
    /\ attached \in SUBSET McpServers /\ config \in Configs
    /\ byHand \in BOOLEAN

LEMMA NoneResolved == NoServers \in Resolutions /\ DOMAIN NoServers = {}
    <1>1. NoServers \in [{} -> Nat] /\ {} \in SUBSET McpServers
        BY DEF NoServers
    <1> QED
        BY <1>1 DEF Resolutions

LEMMA OneMoreResolved ==
    ASSUME NEW f \in Resolutions, NEW s \in McpServers, NEW n \in Nat
    PROVE  LET g == [x \in DOMAIN f \cup {s} |-> IF x = s THEN n ELSE f[x]]
           IN g \in Resolutions /\ DOMAIN g = DOMAIN f \cup {s}
    <1>1. PICK S \in SUBSET McpServers : f \in [S -> Nat]
        BY DEF Resolutions
    <1> DEFINE g == [x \in DOMAIN f \cup {s} |-> IF x = s THEN n ELSE f[x]]
    <1>2. g \in [S \cup {s} -> Nat] /\ S \cup {s} \in SUBSET McpServers
        BY <1>1
    <1>3. g \in Resolutions
        BY <1>2, Zenon DEF Resolutions
    <1> QED
        BY <1>3

\* What the door lets a type attach stays known.
AttachedAreKnown ==
    byHand \/ /\ attached \subseteq Known
              /\ \A l \in Launches : /\ setup[l].attaches \subseteq Known
                                     /\ setup[l].step # "unknown"

ConfigIsOwn == \A l \in Launches :
    /\ DOMAIN setup[l].resolved \subseteq setup[l].attaches
    /\ setup[l].step = "ahead" => setup[l].resolved = NoServers
    /\ setup[l].step \in {"write", "start", "session"}
           => DOMAIN setup[l].resolved = setup[l].attaches
    /\ l \notin crossed =>
          /\ l \in UsingFile => UsingFile = {l}
          /\ setup[l].step = "write" => config.file = "cut"
          /\ setup[l].step = "start"
                 => config = [file |-> "whole", servers |-> setup[l].resolved]
          /\ setup[l].step = "session"
                 => setup[l].config = [file |-> "whole", servers |-> setup[l].resolved]

ServersInv == SetupShaped /\ AttachedAreKnown /\ ConfigIsOwn

\* The registry and the type's record change beside the launches.
LEMMA EditsKeep ==
    ASSUME ServersInv,
           \/ \E s \in McpServers : WriteServer(s)
           \/ \E servers \in SUBSET McpServers : Attach(servers) \/ AttachByHand(servers)
           \/ EnvironmentChanges
    PROVE  ServersInv'
    <1> USE DEF ServersInv
    <1>1. UNCHANGED <<setup, config, crossed>>
        BY DEF WriteServer, Attach, AttachByHand, EnvironmentChanges
    <1>2. /\ registry' \in [McpServers -> Nat]
          /\ \A s \in McpServers : registry[s] \in Nat /\ registry[s] <= registry'[s]
        BY DEF WriteServer, Attach, AttachByHand, EnvironmentChanges, SetupShaped
    <1>3. Known \subseteq Known'
        BY <1>2 DEF Known
    <1>4. /\ attached' \in SUBSET McpServers /\ byHand' \in BOOLEAN
          /\ byHand' \/ attached' \subseteq Known \/ UNCHANGED <<attached, byHand>>
          /\ byHand => byHand'
        BY DEF WriteServer, Attach, AttachByHand, EnvironmentChanges, SetupShaped
    <1>5. AttachedAreKnown'
        BY <1>1, <1>3, <1>4 DEF AttachedAreKnown
    <1>6. SetupShaped'
        BY <1>1, <1>2, <1>4 DEF SetupShaped
    <1>7. ConfigIsOwn'
        BY <1>1 DEF ConfigIsOwn, UsingFile
    <1> QED
        BY <1>5, <1>6, <1>7

\* One launch goes on from where it was.
Moves(l, to) ==
    /\ setup' = [setup EXCEPT ![l] = to]
    /\ to \in [step : Steps, attaches : SUBSET McpServers, resolved : Resolutions,
               config : Configs]
    /\ config' \in Configs /\ crossed \subseteq crossed'
    /\ UNCHANGED <<registry, attached, byHand>>

LEMMA MovesKeep ==
    ASSUME ServersInv, NEW l \in Launches, NEW to, Moves(l, to),
           to.attaches \subseteq setup[l].attaches \cup attached,
           to.step = "unknown" => byHand
    PROVE  /\ SetupShaped' /\ AttachedAreKnown' /\ setup'[l] = to
           /\ \A x \in Launches \ {l} : setup'[x] = setup[x]
           /\ UsingFile' = IF to.step \in {"write", "start"} THEN UsingFile \cup {l}
                           ELSE UsingFile \ {l}
    <1> USE DEF ServersInv
    <1>1. /\ setup'[l] = to /\ \A x \in Launches \ {l} : setup'[x] = setup[x]
          /\ SetupShaped'
        BY DEF SetupShaped, Moves
    <1>2. Known' = Known /\ UNCHANGED <<attached, byHand>>
        BY DEF Known, Moves
    <1>3. AttachedAreKnown'
        BY <1>1, <1>2 DEF AttachedAreKnown
    <1> QED
        BY <1>1, <1>3 DEF UsingFile

LEMMA TakeKeeps ==
    ASSUME ServersInv, NEW l \in Launches, TakeType(l)
    PROVE  ServersInv'
    <1> USE DEF ServersInv
    <1> DEFINE to == [setup[l] EXCEPT !.step = "resolve", !.attaches = attached]
    <1>1. /\ setup[l].step = "ahead" /\ Moves(l, to) /\ UNCHANGED <<config, crossed>>
          /\ to.step = "resolve" /\ to.attaches = attached /\ to.resolved = setup[l].resolved
        BY DEF TakeType, SetupShaped, Moves, Steps
    <1> HIDE DEF to
    <1>2. /\ SetupShaped' /\ AttachedAreKnown' /\ setup'[l] = to
          /\ \A x \in Launches \ {l} : setup'[x] = setup[x]
          /\ UsingFile' = UsingFile
        BY <1>1, MovesKeep DEF UsingFile
    <1>3. ConfigIsOwn'
        BY <1>1, <1>2, NoneResolved DEF ConfigIsOwn
    <1> QED
        BY <1>2, <1>3

LEMMA ResolveKeeps ==
    ASSUME ServersInv, NEW l \in Launches, NEW s \in McpServers, Resolve(l, s)
    PROVE  ServersInv'
    <1> USE DEF ServersInv
    <1> DEFINE known == s \in Known /\ (s \in WithToken => tokens)
               resolved == [x \in DOMAIN setup[l].resolved \cup {s} |->
                               IF x = s THEN registry[s] ELSE setup[l].resolved[x]]
               over == IF s \in Known THEN "no token" ELSE "unknown"
               to == IF known THEN [setup[l] EXCEPT !.resolved = resolved]
                     ELSE [setup[l] EXCEPT !.step = over]
    <1>1. /\ setup[l].step = "resolve" /\ s \in setup[l].attaches
          /\ UNCHANGED <<registry, attached, byHand, config, crossed>>
        BY DEF Resolve, ToResolve
    <1>2. resolved \in Resolutions /\ DOMAIN resolved = DOMAIN setup[l].resolved \cup {s}
        <2>1. setup[l].resolved \in Resolutions /\ registry[s] \in Nat
            BY DEF SetupShaped
        <2> QED
            BY <2>1, OneMoreResolved
    <1>3. setup' = [setup EXCEPT ![l] = to]
        BY DEF Resolve
    <1>4. over \in Steps /\ over \notin {"write", "start", "session", "ahead"}
        BY DEF Steps
    <1> HIDE DEF resolved, over, known
    <1>5. /\ to \in [step : Steps, attaches : SUBSET McpServers, resolved : Resolutions,
                     config : Configs]
          /\ to.step = (IF known THEN "resolve" ELSE over)
          /\ to.attaches = setup[l].attaches
          /\ to.resolved = (IF known THEN resolved ELSE setup[l].resolved)
        BY <1>1, <1>2, <1>4 DEF SetupShaped
    <1> HIDE DEF to
    <1>6. Moves(l, to)
        BY <1>1, <1>3, <1>5 DEF Moves, SetupShaped
    <1>7. to.step = "unknown" => byHand
        BY <1>1, <1>5 DEF AttachedAreKnown, over, known
    <1>8. /\ SetupShaped' /\ AttachedAreKnown' /\ setup'[l] = to
          /\ \A x \in Launches \ {l} : setup'[x] = setup[x]
          /\ UsingFile' = UsingFile
        BY <1>1, <1>4, <1>5, <1>6, <1>7, MovesKeep DEF UsingFile
    <1>9. DOMAIN to.resolved \subseteq to.attaches
        BY <1>1, <1>2, <1>5 DEF ConfigIsOwn
    <1>10. to.step \notin {"write", "start", "session", "ahead"}
        BY <1>4, <1>5
    <1>11. l \notin UsingFile
        BY <1>1 DEF UsingFile
    <1>12. ConfigIsOwn'
        BY <1>1, <1>8, <1>9, <1>10, <1>11 DEF ConfigIsOwn
    <1> QED
        BY <1>8, <1>12

LEMMA OpenConfigKeeps ==
    ASSUME ServersInv, NEW l \in Launches, OpenConfig(l)
    PROVE  ServersInv'
    <1> USE DEF ServersInv
    <1> DEFINE to == [setup[l] EXCEPT !.step = "write"]
    <1>1. /\ setup[l].step = "resolve" /\ setup[l].attaches \subseteq DOMAIN setup[l].resolved
          /\ config' = [file |-> "cut", servers |-> NoServers]
          /\ crossed' = IF UsingFile = {} THEN crossed ELSE crossed \cup UsingFile \cup {l}
        BY DEF OpenConfig, ToResolve
    <1>2. /\ Moves(l, to) /\ to.step = "write"
          /\ to.attaches = setup[l].attaches /\ to.resolved = setup[l].resolved
        <2>1. config' \in Configs /\ crossed \subseteq crossed'
            BY <1>1, NoneResolved DEF Configs
        <2> QED
            BY <2>1 DEF OpenConfig, SetupShaped, Moves, Steps
    <1> HIDE DEF to
    <1>3. /\ SetupShaped' /\ AttachedAreKnown' /\ setup'[l] = to
          /\ \A x \in Launches \ {l} : setup'[x] = setup[x]
          /\ UsingFile' = UsingFile \cup {l}
        BY <1>2, MovesKeep
    <1>4. ASSUME NEW x \in Launches, x # l, x \notin crossed'
          PROVE  x \notin UsingFile /\ x \notin crossed
        BY <1>1, <1>4
    <1>5. \A x \in Launches : x \notin UsingFile => setup[x].step \notin {"write", "start"}
        BY DEF UsingFile
    <1>6. ASSUME NEW x \in Launches, x # l, x \notin crossed'
          PROVE  /\ setup'[x] = setup[x] /\ x \notin UsingFile'
                 /\ setup[x].step \notin {"write", "start"}
        BY <1>3, <1>4, <1>5, <1>6
    <1>7. l \notin crossed' => UsingFile' = {l}
        BY <1>1, <1>3
    <1>8. config'.file = "cut" /\ crossed \subseteq crossed'
        BY <1>1
    <1>9. DOMAIN setup'[l].resolved = setup'[l].attaches /\ setup'[l].step = "write"
        BY <1>1, <1>2, <1>3 DEF ConfigIsOwn
    <1>10. ConfigIsOwn'
        BY <1>3, <1>6, <1>7, <1>8, <1>9 DEF ConfigIsOwn
    <1> QED
        BY <1>3, <1>10

LEMMA WriteConfigKeeps ==
    ASSUME ServersInv, NEW l \in Launches, WriteConfig(l)
    PROVE  ServersInv'
    <1> USE DEF ServersInv
    <1> DEFINE to == [setup[l] EXCEPT !.step = "start"]
    <1>1. /\ setup[l].step = "write" /\ crossed' = crossed /\ l \in UsingFile
          /\ \/ config' = [file |-> "whole", servers |-> setup[l].resolved]
             \/ config.file = "whole" /\ config' = [file |-> "cut", servers |-> NoServers]
        BY DEF WriteConfig, UsingFile
    <1>2. config' \in Configs
        BY <1>1, NoneResolved DEF SetupShaped, Configs
    <1>3. /\ Moves(l, to) /\ to.step = "start"
          /\ to.attaches = setup[l].attaches /\ to.resolved = setup[l].resolved
        BY <1>1, <1>2 DEF WriteConfig, SetupShaped, Moves, Steps
    <1> HIDE DEF to
    <1>4. /\ SetupShaped' /\ AttachedAreKnown' /\ setup'[l] = to
          /\ \A x \in Launches \ {l} : setup'[x] = setup[x]
          /\ UsingFile' = UsingFile
        BY <1>1, <1>3, MovesKeep
    <1>5. ASSUME NEW x \in Launches, x # l, x \notin crossed
          PROVE  x \notin UsingFile /\ setup[x].step \notin {"write", "start"}
        <2>1. x \notin UsingFile
            BY <1>1, <1>5 DEF ConfigIsOwn
        <2> QED
            BY <2>1 DEF UsingFile
    <1>6. l \notin crossed => config' = [file |-> "whole", servers |-> setup[l].resolved]
        BY <1>1 DEF ConfigIsOwn
    <1>7. ConfigIsOwn'
        BY <1>1, <1>3, <1>4, <1>5, <1>6 DEF ConfigIsOwn
    <1> QED
        BY <1>4, <1>7

LEMMA ReadsConfigKeeps ==
    ASSUME ServersInv, NEW l \in Launches, ReadsConfig(l)
    PROVE  ServersInv'
    <1> USE DEF ServersInv
    <1> DEFINE to == [setup[l] EXCEPT !.step = "session", !.config = config]
    <1>1. /\ setup[l].step = "start" /\ UNCHANGED <<config, crossed>>
          /\ Moves(l, to) /\ to.step = "session" /\ to.config = config
          /\ to.attaches = setup[l].attaches /\ to.resolved = setup[l].resolved
        BY DEF ReadsConfig, SetupShaped, Moves, Steps
    <1> HIDE DEF to
    <1>2. /\ SetupShaped' /\ AttachedAreKnown' /\ setup'[l] = to
          /\ \A x \in Launches \ {l} : setup'[x] = setup[x]
          /\ UsingFile' = UsingFile \ {l}
        BY <1>1, MovesKeep
    <1>3. ConfigIsOwn'
        BY <1>1, <1>2 DEF ConfigIsOwn
    <1> QED
        BY <1>2, <1>3

\* A full disk or a death ends launches, and leaves the file to the others.
LEMMA FailuresKeep ==
    ASSUME ServersInv, ServersDie \/ \E l \in Launches : ConfigFails(l)
    PROVE  ServersInv'
    <1> USE DEF ServersInv
    <1>1. /\ setup' \in [Launches -> {setup[l] : l \in Launches} \cup {Setup("failed")}]
          /\ \A l \in Launches : setup'[l] = setup[l] \/ setup'[l] = Setup("failed")
          /\ UNCHANGED <<registry, attached, byHand, config, crossed>>
        BY DEF ServersDie, ConfigFails, SetupShaped
    <1>2. /\ Setup("failed") \in [step : Steps, attaches : SUBSET McpServers,
                                  resolved : Resolutions, config : Configs]
          /\ Setup("failed").step = "failed" /\ Setup("failed").attaches = {}
          /\ DOMAIN Setup("failed").resolved = {}
        BY NoneResolved DEF Setup, Steps, Configs
    <1>3. SetupShaped'
        <2>1. \A l \in Launches : setup'[l] \in [step : Steps, attaches : SUBSET McpServers,
                                                 resolved : Resolutions, config : Configs]
            BY <1>1, <1>2 DEF SetupShaped
        <2> QED
            BY <1>1, <2>1 DEF SetupShaped
    <1>4. Known' = Known /\ UsingFile' \subseteq UsingFile
        BY <1>1, <1>2 DEF Known, UsingFile
    <1>5. AttachedAreKnown'
        BY <1>1, <1>2, <1>4 DEF AttachedAreKnown
    <1>6. ASSUME NEW l \in Launches
          PROVE  /\ setup'[l] = setup[l] \/ setup'[l] = Setup("failed")
                 /\ l \in UsingFile' => setup'[l] = setup[l]
        BY <1>1, <1>2 DEF UsingFile
    <1>7. ConfigIsOwn'
        <2> SUFFICES ASSUME NEW l \in Launches
                     PROVE  /\ DOMAIN setup'[l].resolved \subseteq setup'[l].attaches
                            /\ setup'[l].step = "ahead" => setup'[l].resolved = NoServers
                            /\ setup'[l].step \in {"write", "start", "session"}
                                   => DOMAIN setup'[l].resolved = setup'[l].attaches
                            /\ l \notin crossed' =>
                                  /\ l \in UsingFile' => UsingFile' = {l}
                                  /\ setup'[l].step = "write" => config'.file = "cut"
                                  /\ setup'[l].step = "start" =>
                                         config' = [file |-> "whole",
                                                    servers |-> setup'[l].resolved]
                                  /\ setup'[l].step = "session" =>
                                         setup'[l].config
                                             = [file |-> "whole", servers |-> setup'[l].resolved]
            BY DEF ConfigIsOwn
        <2>1. CASE setup'[l] = setup[l]
            BY <1>1, <1>4, <2>1 DEF ConfigIsOwn
        <2>2. CASE setup'[l] = Setup("failed")
            BY <1>2, <1>6, <2>2 DEF UsingFile
        <2> QED
            BY <1>6, <2>1, <2>2
    <1> QED
        BY <1>3, <1>5, <1>7

\* However types and servers are edited and launches of one type overlap: a
\* session that no other launch crossed reaches the servers its launch attached,
\* as resolved for it, and none is unknown unless a record went past the door.
THEOREM SessionsReachTheirServers ==
    ServersInit /\ [][ServersNext]_serversVars => []ReachesItsServers
    <1>1. ServersInit => ServersInv
        <2> SUFFICES ASSUME ServersInit PROVE ServersInv
            OBVIOUS
        <2>1. \A l \in Launches :
                  setup[l] = [step |-> "ahead", attaches |-> {}, resolved |-> NoServers,
                              config |-> [file |-> "none", servers |-> NoServers]]
            BY DEF ServersInit, Setup
        <2>2. SetupShaped
            BY <2>1, NoneResolved DEF ServersInit, SetupShaped, Setup, Steps, Configs
        <2>3. AttachedAreKnown /\ ConfigIsOwn
            BY <2>1, NoneResolved DEF ServersInit, AttachedAreKnown, ConfigIsOwn, UsingFile
        <2> QED
            BY <2>2, <2>3 DEF ServersInv
    <1>2. ServersInv /\ [ServersNext]_serversVars => ServersInv'
        <2>1. ServersInv /\ UNCHANGED serversVars => ServersInv'
            BY DEF serversVars, ServersInv, SetupShaped, AttachedAreKnown, ConfigIsOwn, Known,
                   UsingFile
        <2> QED
            BY <2>1, EditsKeep, TakeKeeps, ResolveKeeps, OpenConfigKeeps, WriteConfigKeeps,
               ReadsConfigKeeps, FailuresKeep DEF ServersNext
    <1>3. ServersInv => ReachesItsServers
        BY DEF ServersInv, AttachedAreKnown, ConfigIsOwn, ReachesItsServers
    <1> QED
        BY <1>1, <1>2, <1>3, PTL

-----------------------------------------------------------------------------
(* Instructions: a file that has not gone astray is the current record's,   *)
(* or is being made by the one who wrote the record.                        *)

EditorsAt == {e \in Editors : edit[e] \in {"open", "write"}}
TickAt == launch.step \in {"open", "write"}

LaunchTyped ==
    /\ edit \in [Editors -> {"log", "open", "write", "over"}]
    /\ alone \in [Generators -> BOOLEAN] /\ astray \in BOOLEAN
    /\ current \in Records \cup {Missing} /\ claudeMd \in Records \cup {Missing, "cut"}
    /\ launch \in [step : {"idle", "open", "write", "start", "session"},
                   record : Records \cup {Missing}, given : Records \cup {Missing, "cut"},
                   crossed : BOOLEAN]

\* A generator that is alone makes the file of the current record.
AloneIsCurrent ==
    /\ \A e \in EditorsAt : alone[e] =>
          /\ e = current /\ EditorsAt = {e} /\ ~TickAt
          /\ edit[e] = "write" => claudeMd = "cut"
    /\ TickAt /\ alone["tick"] =>
          /\ launch.record = current /\ EditorsAt = {}
          /\ launch.step = "write" => claudeMd = "cut"

FileIsCurrent == ~astray /\ EditorsAt = {} /\ ~TickAt => claudeMd \in {Missing, current}

\* A session that nobody crossed is given what its record says.
GivenItsRecord ==
    launch.step # "idle" /\ ~launch.crossed =>
        /\ EditorsAt = {}
        /\ launch.step = "open" => claudeMd = Missing
        /\ launch.step = "write" => claudeMd = "cut"
        /\ launch.step \in {"start", "session"} => claudeMd = launch.record
        /\ launch.step = "session" => launch.given = launch.record

InstructionsInv ==
    LaunchTyped /\ AloneIsCurrent /\ FileIsCurrent /\ GivenItsRecord /\ RunsUnderItsRecord

LEMMA GeneratorsAre ==
    /\ Generating = EditorsAt \cup IF TickAt THEN {"tick"} ELSE {}
    /\ "tick" \notin EditorsAt /\ EditorsAt \subseteq Editors
    BY InstructionsAssumption DEF Generating, EditorsAt, TickAt

\* Who joins in is alone, or nobody is.
LEMMA MeetIs ==
    ASSUME LaunchTyped, NEW g \in Generators, g \notin Generating, alone' = Meet(g)
    PROVE  /\ alone' \in [Generators -> BOOLEAN]
           /\ Generating # {} => ~alone'[g] /\ \A h \in Generating : ~alone'[h]
    <1>1. Generating \subseteq Generators /\ Generating \ {g} = Generating
        BY DEF Generating, Generators
    <1>2. CASE Generating = {}
        BY <1>1, <1>2 DEF Meet, LaunchTyped
    <1>3. CASE Generating # {}
        <2>1. alone' = [h \in Generators |-> IF h \in Generating \cup {g} THEN FALSE ELSE alone[h]]
            BY <1>1, <1>3 DEF Meet
        <2> QED
            BY <1>1, <2>1 DEF LaunchTyped
    <1> QED
        BY <1>2, <1>3

LEMMA AppendKeeps ==
    ASSUME InstructionsInv, NEW e \in Editors, AppendRecord(e)
    PROVE  InstructionsInv'
    <1> USE DEF InstructionsInv
    <1>1. /\ edit[e] = "log" /\ edit' = [edit EXCEPT ![e] = "open"] /\ current' = e
          /\ alone' = Meet(e) /\ launch' = [launch EXCEPT !.crossed = TRUE]
          /\ UNCHANGED <<claudeMd, ran, astray>>
        BY DEF AppendRecord, Cross
    <1>2. e \notin Generating /\ e \in Generators
        <2>1. e \notin EditorsAt /\ e # "tick"
            BY <1>1, InstructionsAssumption DEF EditorsAt
        <2> QED
            BY <2>1, GeneratorsAre DEF Generators
    <1>3. /\ alone' \in [Generators -> BOOLEAN]
          /\ Generating # {} => ~alone'[e] /\ \A h \in Generating : ~alone'[h]
        BY <1>1, <1>2, MeetIs
    <1>4. LaunchTyped'
        BY <1>1, <1>3 DEF LaunchTyped, Records
    <1>5. /\ EditorsAt' = EditorsAt \cup {e} /\ (TickAt' <=> TickAt) /\ launch'.crossed
          /\ edit'[e] = "open" /\ \A x \in EditorsAt : edit'[x] = edit[x]
        BY <1>1 DEF LaunchTyped, EditorsAt, TickAt
    <1>6. AloneIsCurrent'
        BY <1>1, <1>3, <1>5, GeneratorsAre DEF AloneIsCurrent
    <1>7. FileIsCurrent' /\ GivenItsRecord' /\ RunsUnderItsRecord'
        BY <1>1, <1>5 DEF FileIsCurrent, GivenItsRecord, RunsUnderItsRecord
    <1> QED
        BY <1>4, <1>6, <1>7

LEMMA GenerateKeeps ==
    ASSUME InstructionsInv, NEW e \in Editors, GenerateStep(e)
    PROVE  InstructionsInv'
    <1> USE DEF InstructionsInv
    <1>1. /\ launch' = [launch EXCEPT !.crossed = TRUE]
          /\ UNCHANGED <<current, ran, alone>>
        BY DEF GenerateStep, Cross
    <1>2. (TickAt' <=> TickAt) /\ launch'.crossed /\ launch'.record = launch.record
        BY <1>1 DEF TickAt, LaunchTyped
    <1>3. CASE edit[e] = "open" /\ OpenFile /\ edit' = [edit EXCEPT ![e] = "write"]
                   /\ UNCHANGED astray
        <2>1. LaunchTyped'
            BY <1>1, <1>3 DEF LaunchTyped, OpenFile
        <2>2. /\ EditorsAt' = EditorsAt /\ e \in EditorsAt /\ claudeMd' = "cut"
            BY <1>3 DEF LaunchTyped, EditorsAt, OpenFile
        <2>3. AloneIsCurrent'
            BY <1>1, <1>2, <2>2 DEF AloneIsCurrent
        <2> QED
            BY <1>1, <1>2, <2>1, <2>2, <2>3 DEF FileIsCurrent, GivenItsRecord, RunsUnderItsRecord
    <1>4. CASE edit[e] = "write" /\ FillFile(e) /\ edit' = [edit EXCEPT ![e] = "over"]
                   /\ astray' = ~alone[e]
        <2>1. claudeMd' \in {e, "cut"} /\ (claudeMd = "cut" => claudeMd' = e)
            BY <1>4 DEF FillFile
        <2>2. LaunchTyped'
            BY <1>1, <1>4, <2>1 DEF LaunchTyped, Records, Generators
        <2>3. /\ EditorsAt' = EditorsAt \ {e} /\ e \in EditorsAt
              /\ \A x \in EditorsAt' : edit'[x] = edit[x]
            BY <1>4 DEF LaunchTyped, EditorsAt
        <2>4. CASE alone[e]
            <3>1. EditorsAt' = {} /\ ~TickAt' /\ claudeMd' = current
                BY <1>2, <1>4, <2>1, <2>3, <2>4 DEF AloneIsCurrent
            <3> QED
                BY <1>1, <1>2, <2>2, <3>1
                   DEF AloneIsCurrent, FileIsCurrent, GivenItsRecord, RunsUnderItsRecord
        <2>5. CASE ~alone[e]
            <3>1. \A x \in EditorsAt' : ~alone'[x]
                BY <1>1, <2>3, <2>5 DEF AloneIsCurrent
            <3>2. TickAt' => ~alone'["tick"]
                BY <1>1, <1>2, <2>3, <2>5 DEF AloneIsCurrent
            <3> QED
                BY <1>1, <1>2, <1>4, <2>2, <2>5, <3>1, <3>2
                   DEF AloneIsCurrent, FileIsCurrent, GivenItsRecord, RunsUnderItsRecord
        <2> QED
            BY <2>4, <2>5
    <1> QED
        BY <1>3, <1>4 DEF GenerateStep, Generate

LEMMA GenerateFailsKeeps ==
    ASSUME InstructionsInv, NEW e \in Editors, GenerateFails(e)
    PROVE  InstructionsInv'
    <1> USE DEF InstructionsInv
    <1>1. /\ edit[e] \in {"open", "write"} /\ edit' = [edit EXCEPT ![e] = "over"]
          /\ astray' = TRUE /\ UNCHANGED <<current, claudeMd, launch, ran, alone>>
        BY DEF GenerateFails
    <1>2. LaunchTyped'
        BY <1>1 DEF LaunchTyped
    <1>3. /\ e \in EditorsAt /\ EditorsAt' = EditorsAt \ {e} /\ (TickAt' <=> TickAt)
          /\ \A x \in EditorsAt' : edit'[x] = edit[x]
        BY <1>1 DEF LaunchTyped, EditorsAt, TickAt
    <1>4. AloneIsCurrent'
        BY <1>1, <1>3 DEF AloneIsCurrent
    <1> QED
        BY <1>1, <1>2, <1>3, <1>4 DEF FileIsCurrent, GivenItsRecord, RunsUnderItsRecord

LEMMA AppendByHandKeeps ==
    ASSUME InstructionsInv, NEW h \in HandEdits, AppendByHand(h)
    PROVE  InstructionsInv'
    <1> USE DEF InstructionsInv
    <1>1. /\ current' = h /\ alone' = [g \in Generators |-> FALSE]
          /\ astray' = (astray \/ claudeMd # Missing \/ Generating # {})
          /\ UNCHANGED <<claudeMd, edit, launch, ran>>
        BY DEF AppendByHand
    <1>2. EditorsAt' = EditorsAt /\ (TickAt' <=> TickAt)
        BY <1>1 DEF EditorsAt, TickAt
    <1>3. LaunchTyped'
        BY <1>1 DEF LaunchTyped, Records
    <1>4. AloneIsCurrent'
        BY <1>1, <1>2, GeneratorsAre DEF AloneIsCurrent, Generators
    <1> QED
        BY <1>1, <1>2, <1>3, <1>4 DEF FileIsCurrent, GivenItsRecord, RunsUnderItsRecord

LEMMA DiscoverKeeps == ASSUME InstructionsInv, Discover PROVE InstructionsInv'
    <1> USE DEF InstructionsInv
    <1>1. /\ launch.step = "idle" /\ current # Missing
          /\ launch' = [step |-> IF claudeMd = Missing THEN "open" ELSE "start",
                        record |-> current, given |-> Missing,
                        crossed |-> astray \/ Generating # {}]
          /\ alone' = IF claudeMd = Missing THEN Meet("tick") ELSE alone
          /\ UNCHANGED <<current, claudeMd, edit, ran, astray>>
        BY DEF Discover
    <1>2. EditorsAt' = EditorsAt /\ ~TickAt /\ (TickAt' <=> claudeMd = Missing)
        BY <1>1 DEF EditorsAt, TickAt
    <1>3. Generating = EditorsAt /\ "tick" \notin Generating /\ "tick" \in Generators
        BY <1>2, GeneratorsAre DEF Generators
    <1>4. claudeMd = Missing =>
              /\ alone' \in [Generators -> BOOLEAN]
              /\ EditorsAt # {} => ~alone'["tick"] /\ \A h \in EditorsAt : ~alone'[h]
        BY <1>1, <1>3, MeetIs
    <1>5. (astray \/ Generating # {}) \in BOOLEAN
        BY DEF LaunchTyped
    <1>6. LaunchTyped'
        BY <1>1, <1>4, <1>5 DEF LaunchTyped
    <1>7. AloneIsCurrent'
        BY <1>1, <1>2, <1>3, <1>4 DEF AloneIsCurrent
    <1>8. FileIsCurrent'
        BY <1>1, <1>2 DEF FileIsCurrent
    <1>9. GivenItsRecord'
        BY <1>1, <1>2, <1>3 DEF FileIsCurrent, GivenItsRecord
    <1> QED
        BY <1>1, <1>6, <1>7, <1>8, <1>9 DEF RunsUnderItsRecord

LEMMA GenerateMissingKeeps == ASSUME InstructionsInv, GenerateMissing PROVE InstructionsInv'
    <1> USE DEF InstructionsInv
    <1>1. UNCHANGED <<current, edit, ran, alone>> /\ EditorsAt' = EditorsAt /\ TickAt
        BY DEF GenerateMissing, EditorsAt, TickAt
    <1>2. CASE launch.step = "open" /\ OpenFile /\ launch' = [launch EXCEPT !.step = "write"]
                   /\ UNCHANGED astray
        <2>1. LaunchTyped' /\ TickAt' /\ claudeMd' = "cut" /\ launch'.record = launch.record
            BY <1>1, <1>2 DEF LaunchTyped, OpenFile, TickAt
        <2>2. AloneIsCurrent'
            BY <1>1, <2>1 DEF AloneIsCurrent
        <2>3. GivenItsRecord'
            BY <1>1, <1>2, <2>1 DEF GivenItsRecord, LaunchTyped
        <2> QED
            BY <1>1, <2>1, <2>2, <2>3 DEF FileIsCurrent, RunsUnderItsRecord
    <1>3. CASE launch.step = "write" /\ FillFile(launch.record)
                   /\ launch' = [launch EXCEPT !.step = "start"]
                   /\ astray' = (astray \/ ~alone["tick"])
        <2>1. /\ claudeMd' \in {launch.record, "cut"}
              /\ claudeMd = "cut" => claudeMd' = launch.record
            BY <1>3 DEF FillFile
        <2>2. LaunchTyped' /\ ~TickAt' /\ launch'.record = launch.record
            BY <1>1, <1>3, <2>1 DEF LaunchTyped, TickAt
        <2>3. AloneIsCurrent'
            BY <1>1, <2>2 DEF AloneIsCurrent
        <2>4. FileIsCurrent'
            BY <1>1, <1>3, <2>1 DEF FileIsCurrent, AloneIsCurrent
        <2>5. GivenItsRecord'
            BY <1>1, <1>3, <2>1 DEF GivenItsRecord, LaunchTyped
        <2> QED
            BY <1>1, <2>2, <2>3, <2>4, <2>5 DEF RunsUnderItsRecord
    <1> QED
        BY <1>2, <1>3 DEF GenerateMissing

LEMMA SessionKeeps ==
    ASSUME InstructionsInv, StartSession \/ RecordVersion
    PROVE  InstructionsInv'
    <1> USE DEF InstructionsInv
    <1>1. CASE StartSession
        <2>1. /\ launch.step = "start"
              /\ launch' = [launch EXCEPT !.step = "session", !.given = claudeMd]
              /\ UNCHANGED <<current, claudeMd, edit, ran, alone, astray>>
            BY <1>1 DEF StartSession
        <2>2. /\ LaunchTyped' /\ ~TickAt /\ ~TickAt' /\ EditorsAt' = EditorsAt
              /\ launch'.record = launch.record /\ launch'.crossed = launch.crossed
              /\ launch'.step = "session" /\ launch'.given = claudeMd
            BY <2>1 DEF LaunchTyped, TickAt, EditorsAt
        <2> QED
            BY <2>1, <2>2
               DEF AloneIsCurrent, FileIsCurrent, GivenItsRecord, RunsUnderItsRecord
    <1>2. CASE RecordVersion
        <2>1. /\ launch.step = "session" /\ launch' = NoLaunch
              /\ ran' = [record |-> launch.record, given |-> launch.given,
                         version |-> claudeMd, crossed |-> launch.crossed]
              /\ UNCHANGED <<current, claudeMd, edit, alone, astray>>
            BY <1>2 DEF RecordVersion
        <2>2. LaunchTyped' /\ ~TickAt /\ ~TickAt' /\ EditorsAt' = EditorsAt
            BY <2>1 DEF LaunchTyped, TickAt, EditorsAt, NoLaunch
        <2>3. AloneIsCurrent' /\ FileIsCurrent'
            BY <2>1, <2>2 DEF AloneIsCurrent, FileIsCurrent
        <2>4. GivenItsRecord'
            BY <2>1 DEF GivenItsRecord, NoLaunch
        <2>5. RunsUnderItsRecord'
            BY <2>1 DEF GivenItsRecord, RunsUnderItsRecord
        <2> QED
            BY <2>2, <2>3, <2>4, <2>5
    <1> QED
        BY <1>1, <1>2

LEMMA InstructionsDieKeeps == ASSUME InstructionsInv, InstructionsDie PROVE InstructionsInv'
    <1> USE DEF InstructionsInv
    <1>1. /\ edit' = [e \in Editors |-> IF edit[e] = "log" THEN "log" ELSE "over"]
          /\ launch' = NoLaunch /\ astray' = (astray \/ Generating # {})
          /\ UNCHANGED <<current, claudeMd, ran, alone>>
        BY DEF InstructionsDie
    <1>2. LaunchTyped'
        BY <1>1 DEF LaunchTyped, NoLaunch
    <1>3. EditorsAt' = {} /\ ~TickAt'
        BY <1>1 DEF EditorsAt, TickAt, NoLaunch
    <1>4. AloneIsCurrent' /\ GivenItsRecord'
        BY <1>1, <1>3 DEF AloneIsCurrent, GivenItsRecord, NoLaunch
    <1>5. FileIsCurrent'
        BY <1>1, GeneratorsAre DEF FileIsCurrent
    <1> QED
        BY <1>1, <1>2, <1>4, <1>5 DEF RunsUnderItsRecord

\* However many editors, hand edits and launches: a recorded session was given
\* the instructions of the record that claimed its task, and its version names
\* them, unless somebody wrote the type meanwhile or the file had gone astray.
THEOREM SessionsRunUnderTheirRecord ==
    InstructionsInit /\ [][InstructionsNext]_instructionsVars => []RunsUnderItsRecord
    <1>1. InstructionsInit => InstructionsInv
        <2> SUFFICES ASSUME InstructionsInit PROVE InstructionsInv
            OBVIOUS
        <2>1. LaunchTyped /\ EditorsAt = {} /\ ~TickAt
            BY DEF InstructionsInit, LaunchTyped, EditorsAt, TickAt, NoLaunch
        <2> QED
            BY <2>1 DEF InstructionsInit, InstructionsInv, AloneIsCurrent, FileIsCurrent,
                        GivenItsRecord, RunsUnderItsRecord, NoLaunch
    <1>2. InstructionsInv /\ [InstructionsNext]_instructionsVars => InstructionsInv'
        <2>1. InstructionsInv /\ UNCHANGED instructionsVars => InstructionsInv'
            BY DEF instructionsVars, InstructionsInv, LaunchTyped, AloneIsCurrent, FileIsCurrent,
                   GivenItsRecord, RunsUnderItsRecord, EditorsAt, TickAt
        <2> QED
            BY <2>1, AppendKeeps, GenerateKeeps, GenerateFailsKeeps, AppendByHandKeeps,
               DiscoverKeeps, GenerateMissingKeeps, SessionKeeps, InstructionsDieKeeps
               DEF InstructionsNext
    <1> QED
        BY <1>1, <1>2, PTL DEF InstructionsInv

-----------------------------------------------------------------------------
(* Verdict: nothing is said after the exit, and what is said first counts.  *)

\* A set of natural numbers has a first one.
LEMMA FirstIsLeast ==
    ASSUME NEW lines \in SUBSET Nat, lines # {}
    PROVE  FirstOf(lines) \in lines /\ \A j \in lines : FirstOf(lines) <= j
    <1> DEFINE R == {ss \in Nat \X Nat : ss[1] < ss[2]}
    <1>1. IsWellFoundedOn(R, Nat)
        BY NatLessThanWellFounded DEF OpToRel
    <1> HIDE DEF R
    <1>2. PICK i \in lines : \A j \in lines : ~ (<<j, i>> \in R)
        BY <1>1, WFMin
    <1>3. ASSUME NEW j \in lines
          PROVE  i <= j
        <2>1. <<j, i>> \notin R /\ i \in Nat /\ j \in Nat
            BY <1>2
        <2> QED
            BY <2>1 DEF R
    <1> QED
        BY <1>3 DEF FirstOf

ReportLines == FieldLines \cup {Prose}

\* What is found of a field is what its first line says.
LEMMA FoundIsFirst ==
    ASSUME final.text \in Seq(ReportLines), NEW f \in Fields, NEW values, "missing" \notin values
    PROVE  FirstSays(f, values) <=> Found(final.text)[f] \in values
    <1> DEFINE text == final.text
               of == {i \in DOMAIN text : text[i].field = f}
    <1>1. of \in SUBSET Nat /\ \A i \in DOMAIN text : i \in Nat
        OBVIOUS
    <1>2. Found(text)[f] = IF of = {} THEN "missing" ELSE text[FirstOf(of)].value
        BY DEF Found
    <1>3. CASE of = {}
        BY <1>2, <1>3 DEF FirstSays
    <1>4. CASE of # {}
        <2>1. FirstOf(of) \in of /\ \A j \in of : FirstOf(of) <= j
            BY <1>1, <1>4, FirstIsLeast, Zenon
        <2> DEFINE first == FirstOf(of)
        <2>2. first \in DOMAIN text /\ text[first].field = f /\ first \in Nat
            BY <2>1, <1>1
        <2> HIDE DEF first
        <2>3. \A j \in 1..(first - 1) : text[j].field # f
            <3> SUFFICES ASSUME NEW j \in 1..(first - 1), text[j].field = f
                         PROVE  FALSE
                OBVIOUS
            <3>1. j \in DOMAIN text
                BY <2>2
            <3>2. first <= j
                BY <2>1, <3>1 DEF first
            <3> QED
                BY <2>2, <3>2
        <2>4. ASSUME NEW i \in DOMAIN text, text[i].field = f,
                     \A j \in 1..(i - 1) : text[j].field # f
              PROVE  i = first
            <3>1. first <= i
                BY <2>1, <2>4 DEF first
            <3>2. i \in Nat /\ first \in 1..i
                BY <1>1, <2>2, <3>1
            <3>3. ~ (first \in 1..(i - 1))
                BY <2>2, <2>4
            <3> QED
                BY <3>2, <3>3, <2>2
        <2>5. Found(text)[f] = text[first].value
            BY <1>2, <1>4 DEF first
        <2> HIDE DEF text, of
        <2> QED
            BY <2>2, <2>3, <2>4, <2>5 DEF FirstSays, text
    <1> QED
        BY <1>3, <1>4

\* What the fields that decide can say.
LEMMA FoundValues ==
    ASSUME final.text \in Seq(ReportLines)
    PROVE  /\ Found(final.text)["OUTCOME"] \in {"missing", "done", "partial", "failed", "odd", ""}
           /\ Found(final.text)["NEEDS HUMAN"] \in {"missing", "none", "a person", ""}
    <1> DEFINE text == final.text
    <1>1. ASSUME NEW f \in Fields
          PROVE  \/ Found(text)[f] = "missing"
                 \/ \E line \in ReportLines : line.field = f /\ Found(text)[f] = line.value
        <2> DEFINE of == {i \in DOMAIN text : text[i].field = f}
        <2>1. of \in SUBSET Nat
            OBVIOUS
        <2>2. Found(text)[f] = IF of = {} THEN "missing" ELSE text[FirstOf(of)].value
            BY DEF Found
        <2>3. CASE of = {}
            BY <2>2, <2>3
        <2>4. CASE of # {}
            <3>1. FirstOf(of) \in of
                BY <2>1, <2>4, FirstIsLeast, Zenon
            <3> DEFINE first == FirstOf(of)
            <3>2. first \in DOMAIN text /\ text[first].field = f
                BY <3>1
            <3>3. Found(text)[f] = text[first].value
                BY <2>2, <2>4
            <3> HIDE DEF first
            <3>4. text[first] \in ReportLines
                BY <3>2
            <3> QED
                BY <3>2, <3>3, <3>4, Zenon
        <2> QED
            BY <2>3, <2>4
    <1>2. \A line \in ReportLines :
              /\ line.field = "OUTCOME" => line.value \in {"done", "partial", "failed", "odd", ""}
              /\ line.field = "NEEDS HUMAN" => line.value \in {"none", "a person", ""}
        <2> SUFFICES ASSUME NEW line \in ReportLines
                     PROVE  /\ line.field = "OUTCOME" =>
                                    line.value \in {"done", "partial", "failed", "odd", ""}
                            /\ line.field = "NEEDS HUMAN" =>
                                    line.value \in {"none", "a person", ""}
            OBVIOUS
        <2>1. \/ line \in {[field |-> "OUTCOME", value |-> v] :
                              v \in {"done", "partial", "failed", "odd", ""}}
              \/ line \in {[field |-> "NEEDS HUMAN", value |-> v] : v \in {"none", "a person", ""}}
              \/ line = [field |-> "the others", value |-> "text"] \/ line = Prose
            BY Zenon DEF ReportLines, FieldLines
        <2>2. ASSUME NEW v \in {"done", "partial", "failed", "odd", ""},
                     line = [field |-> "OUTCOME", value |-> v]
              PROVE  line.field = "OUTCOME" /\ line.value = v
            BY <2>2
        <2>3. ASSUME NEW v \in {"none", "a person", ""},
                     line = [field |-> "NEEDS HUMAN", value |-> v]
              PROVE  line.field = "NEEDS HUMAN" /\ line.value = v
            BY <2>3
        <2>4. ASSUME line = [field |-> "the others", value |-> "text"] \/ line = Prose
              PROVE  line.field # "OUTCOME" /\ line.field # "NEEDS HUMAN"
            <3>1. CASE line = [field |-> "the others", value |-> "text"]
                BY <3>1
            <3>2. CASE line = Prose
                BY <3>2 DEF Prose
            <3> QED
                BY <2>4, <3>1, <3>2
        <2>5. CASE line \in {[field |-> "OUTCOME", value |-> v] :
                                v \in {"done", "partial", "failed", "odd", ""}}
            <3>1. PICK v \in {"done", "partial", "failed", "odd", ""} :
                      line = [field |-> "OUTCOME", value |-> v]
                BY <2>5, Zenon
            <3>2. line.field = "OUTCOME" /\ line.value = v
                BY <2>2, <3>1, Zenon
            <3> QED
                BY <3>2
        <2>6. CASE line \in {[field |-> "NEEDS HUMAN", value |-> v] :
                                v \in {"none", "a person", ""}}
            <3>1. PICK v \in {"none", "a person", ""} :
                      line = [field |-> "NEEDS HUMAN", value |-> v]
                BY <2>6, Zenon
            <3>2. line.field = "NEEDS HUMAN" /\ line.value = v
                BY <2>3, <3>1, Zenon
            <3> QED
                BY <3>2
        <2> QED
            BY <2>1, <2>4, <2>5, <2>6, Zenon
    <1> HIDE DEF text
    <1>3. "OUTCOME" \in Fields /\ "NEEDS HUMAN" \in Fields
        BY DEF Fields
    <1>4. Found(text)["OUTCOME"] \in {"missing", "done", "partial", "failed", "odd", ""}
        <2>1. \/ Found(text)["OUTCOME"] = "missing"
              \/ \E line \in ReportLines :
                     line.field = "OUTCOME" /\ Found(text)["OUTCOME"] = line.value
            BY <1>1, <1>3, Zenon
        <2> QED
            BY <1>2, <2>1
    <1>5. Found(text)["NEEDS HUMAN"] \in {"missing", "none", "a person", ""}
        <2>1. \/ Found(text)["NEEDS HUMAN"] = "missing"
              \/ \E line \in ReportLines :
                     line.field = "NEEDS HUMAN" /\ Found(text)["NEEDS HUMAN"] = line.value
            BY <1>1, <1>3, Zenon
        <2> QED
            BY <1>2, <2>1
    <1> QED
        BY <1>4, <1>5 DEF text

VerdictInv ==
    /\ saying \in Seq(ReportLines)
    /\ final \in [text : Seq(ReportLines), is_error : BOOLEAN]
    /\ session.state = "over" =>
           /\ exit \in {0, 1}
           /\ session.outcome = Settle(exit) /\ session.class = FailureClass(exit)

\* Nothing is printed after the exit, so the verdict stands on the last result.
LEMMA VerdictStep ==
    ASSUME VerdictInv, [VerdictNext]_verdictVars
    PROVE  VerdictInv'
    <1> USE DEF VerdictInv
    <1>1. CASE Say
        <2>1. PICK line \in ReportLines : saying' = Append(saying, line)
            BY <1>1 DEF Say, ReportLines
        <2>2. saying' \in Seq(ReportLines)
            BY <2>1
        <2> QED
            BY <1>1, <2>2 DEF Say, Print1
    <1>2. CASE Result
        <2>1. final' \in [text : Seq(ReportLines), is_error : BOOLEAN]
            BY <1>2 DEF Result
        <2>2. saying' \in Seq(ReportLines)
            BY <1>2 DEF Result
        <2> QED
            BY <1>2, <2>1, <2>2 DEF Result, Print1
    <1>3. CASE Exit
        <2>1. PICK code \in {0, 1} :
                  /\ exit' = code
                  /\ session' = [state |-> "over", outcome |-> Settle(code),
                                 class |-> FailureClass(code)]
            BY <1>3 DEF Exit
        <2>2. saying' = saying /\ final' = final
            BY <1>3 DEF Exit
        <2>3. Settle(code)' = Settle(code) /\ FailureClass(code)' = FailureClass(code)
            BY <2>2 DEF Settle, FailureClass, Ok, Parse
        <2>4. session'.outcome = Settle(code) /\ session'.class = FailureClass(code)
            BY <2>1
        <2> QED
            BY <2>1, <2>2, <2>3, <2>4
    <1>4. CASE UNCHANGED verdictVars
        BY <1>4 DEF verdictVars, Settle, FailureClass, Ok, Parse
    <1> QED
        BY <1>1, <1>2, <1>3, <1>4 DEF VerdictNext

\* A task is closed, handed over or failed by what the last result of its session
\* said first, and by nothing that was printed before or further down, for any
\* session (parse, report.py; _settle and _run_claimed, pipeline.py).
THEOREM TasksAreClosedByTheReport ==
    VerdictInit /\ [][VerdictNext]_verdictVars => []ClosedOnlyByTheReport
    <1>1. VerdictInit => VerdictInv
        <2> SUFFICES ASSUME VerdictInit
                     PROVE  VerdictInv
            OBVIOUS
        <2>1. saying = <<>> /\ final = [text |-> <<>>, is_error |-> FALSE] /\ session.state = "runs"
            BY DEF VerdictInit, NoFinal
        <2>2. <<>> \in Seq(ReportLines)
            OBVIOUS
        <2> QED
            BY <2>1, <2>2 DEF VerdictInv
    <1>2. VerdictInv => ClosedOnlyByTheReport
        <2> SUFFICES ASSUME VerdictInv, session.state = "over"
                     PROVE  ClosedOnlyByTheReport
            BY DEF ClosedOnlyByTheReport
        <2> DEFINE outcome == Found(final.text)["OUTCOME"]
                   needs == Found(final.text)["NEEDS HUMAN"]
                   report == Parse(final.text)
        <2>1. final.text \in Seq(ReportLines) /\ final.is_error \in BOOLEAN /\ exit \in {0, 1}
            BY DEF VerdictInv
        <2>2. /\ outcome \in {"missing", "done", "partial", "failed", "odd", ""}
              /\ needs \in {"missing", "none", "a person", ""}
            BY <2>1, FoundValues, Zenon
        <2>3. /\ FirstSays("OUTCOME", {"failed", "partial"}) <=> outcome \in {"failed", "partial"}
              /\ FirstSays("OUTCOME", {"failed"}) <=> outcome \in {"failed"}
              /\ FirstSays("NEEDS HUMAN", {"a person"}) <=> needs \in {"a person"}
            <3>1. /\ "OUTCOME" \in Fields /\ "NEEDS HUMAN" \in Fields
                  /\ "missing" \notin {"failed", "partial"}
                  /\ "missing" \notin {"failed"} /\ "missing" \notin {"a person"}
                BY DEF Fields
            <3> QED
                BY <2>1, <3>1, FoundIsFirst, Zenon
        <2>4. /\ report.outcome = (IF outcome \in Outcomes THEN outcome ELSE "none")
              /\ report.needs_human <=> needs \notin {"missing", "", "none"}
              /\ report.structured \in BOOLEAN
            BY DEF Parse
        <2> HIDE DEF outcome, needs, report
        <2>5. /\ report.outcome = "failed" <=> outcome = "failed"
              /\ report.outcome = "partial" <=> outcome = "partial"
              /\ report.needs_human <=> needs = "a person"
            BY <2>2, <2>4 DEF Outcomes
        <2>6. Ok(exit) <=> exit = 0 /\ ~ final.is_error
            BY DEF Ok
        <2>7. session.outcome =
                  IF ~ Ok(exit) \/ final.text = <<>> \/ report.outcome = "failed" THEN "failed"
                  ELSE IF report.outcome = "partial" \/ report.needs_human THEN "needs_human"
                  ELSE IF ~ report.structured THEN "resolved_unstructured"
                  ELSE "resolved"
            BY DEF VerdictInv, Settle, report
        <2>8. session.class =
                  IF ~ Ok(exit) \/ final.text = <<>> THEN "infrastructure"
                  ELSE IF report.outcome = "failed" THEN "agent"
                  ELSE "none"
            BY DEF VerdictInv, FailureClass, report
        <2>9. (session.outcome \in {"resolved", "resolved_unstructured"}) <=>
                  /\ exit = 0 /\ ~final.is_error /\ final.text # <<>>
                  /\ ~FirstSays("OUTCOME", {"failed", "partial"})
                  /\ ~FirstSays("NEEDS HUMAN", {"a person"})
            BY <2>3, <2>5, <2>6, <2>7
        <2>10. session.outcome = "needs_human" => exit = 0 /\ final.text # <<>>
            BY <2>6, <2>7
        <2>11. session.outcome = "failed" <=> session.class # "none"
            BY <2>7, <2>8
        <2>12. session.class = "agent" <=>
                   exit = 0 /\ ~final.is_error /\ FirstSays("OUTCOME", {"failed"})
            <3>1. final.text = <<>> => ~FirstSays("OUTCOME", {"failed"})
                BY DEF FirstSays
            <3> QED
                BY <2>3, <2>5, <2>6, <2>8, <3>1
        <2> QED
            BY <2>9, <2>10, <2>11, <2>12 DEF ClosedOnlyByTheReport
    <1> QED
        BY <1>1, <1>2, VerdictStep, PTL
=============================================================================
