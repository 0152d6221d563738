------------------------------ MODULE Verdict ------------------------------
(***************************************************************************)
(* From what a session printed to what becomes of its task: parse_stream    *)
(* and run_session (pu/runner.py) keep the last result event, parse         *)
(* (pu/report.py) finds the fields of its text, _settle decides, and        *)
(* _run_claimed names the class of the failure by conditions of its own     *)
(* (pu/pipeline.py).  The session prints event by event.                    *)
(***************************************************************************)
EXTENDS Naturals, Sequences

CONSTANT MaxPrinted   \* bound: lines and events a session prints

\* The lines a report is made of: a field with its value, the four fields that
\* nothing depends on, or anything else.
FieldLines == {[field |-> "OUTCOME", value |-> v] : v \in {"done", "partial", "failed", "odd", ""}}
              \cup {[field |-> "NEEDS HUMAN", value |-> v] : v \in {"none", "a person", ""}}
              \cup {[field |-> "the others", value |-> "text"]}
Prose == [field |-> "", value |-> "text"]
Fields == {"OUTCOME", "NEEDS HUMAN", "the others"}
Outcomes == {"done", "partial", "failed", "nothing-to-do"}

VARIABLES
    saying,      \* the text of the result event being put together
    final,       \* the last result event so far; no text if there is none
    printed,
    exit,        \* 0 or 1
    session      \* "runs", or what became of its task and the failure class

verdictVars == <<saying, final, printed, exit, session>>

NoFinal == [text |-> <<>>, is_error |-> FALSE]

VerdictInit ==
    /\ saying = <<>> /\ final = NoFinal /\ printed = 0 /\ exit = 0
    /\ session = [state |-> "runs", outcome |-> "", class |-> ""]

Print1 == session.state = "runs" /\ printed < MaxPrinted /\ printed' = printed + 1

Say ==
    /\ Print1
    /\ \E line \in FieldLines \cup {Prose} : saying' = Append(saying, line)
    /\ UNCHANGED <<final, exit, session>>

\* A result event: the last one is final, a whole report or not.
Result ==
    /\ Print1
    /\ \E e \in BOOLEAN : final' = [text |-> saying, is_error |-> e]
    /\ saying' = <<>>
    /\ UNCHANGED <<exit, session>>

\* Mutation: a field is what was last said of it.
FoundLast(text) ==
    [f \in Fields |-> LET of == SelectSeq(text, LAMBDA l : l.field = f)
                      IN IF of = <<>> THEN "missing" ELSE of[Len(of)].value]
\* The value of each field at its first line: a later one does not overwrite it.
FirstOf(lines) == CHOOSE i \in lines : \A j \in lines : i <= j
Found(text) ==
    [f \in Fields |-> LET of == {i \in DOMAIN text : text[i].field = f}
                      IN IF of = {} THEN "missing" ELSE text[FirstOf(of)].value]

Parse(text) ==
    LET found == Found(text)
        outcome == IF found["OUTCOME"] \in Outcomes THEN found["OUTCOME"] ELSE "none"
    IN [outcome |-> outcome,
        needs_human |-> found["NEEDS HUMAN"] \notin {"missing", "", "none"},
        structured |-> outcome # "none" /\ \A f \in Fields : found[f] # "missing"]

Ok(code) == code = 0 /\ ~final.is_error

Settle(code) ==
    LET report == Parse(final.text)
    IN IF ~Ok(code) \/ final.text = <<>> \/ report.outcome = "failed" THEN "failed"
       ELSE IF report.outcome = "partial" \/ report.needs_human THEN "needs_human"
       ELSE IF ~report.structured THEN "resolved_unstructured"
       ELSE "resolved"

FailureClass(code) ==
    IF ~Ok(code) \/ final.text = <<>> THEN "infrastructure"
    ELSE IF Parse(final.text).outcome = "failed" THEN "agent"
    ELSE "none"

\* The process exits, killed in the middle of an event or by itself.
Exit ==
    /\ session.state = "runs"
    /\ \E code \in {0, 1} :
          /\ exit' = code
          /\ session' = [state |-> "over", outcome |-> Settle(code), class |-> FailureClass(code)]
    /\ UNCHANGED <<saying, final, printed>>

VerdictNext == Say \/ Result \/ Exit
-----------------------------------------------------------------------------
\* The first line that says something of the field, or none.
FirstSays(field, values) ==
    \E i \in DOMAIN final.text :
        /\ final.text[i].field = field /\ final.text[i].value \in values
        /\ \A j \in 1..(i - 1) : final.text[j].field # field

\* A task is closed only by a session that exited well and whose last result
\* said something, reported neither a failure nor a part as its outcome and
\* asked for no person, whatever the report says further down; a person gets
\* the task only with an answer; and the run's record names a failure class
\* exactly when the task was failed, the agent's when the report says so and
\* nothing else went wrong.
ClosedOnlyByTheReport ==
    session.state = "over" =>
        /\ (session.outcome \in {"resolved", "resolved_unstructured"}) <=>
               /\ exit = 0 /\ ~final.is_error /\ final.text # <<>>
               /\ ~FirstSays("OUTCOME", {"failed", "partial"})
               /\ ~FirstSays("NEEDS HUMAN", {"a person"})
        /\ session.outcome = "needs_human" => exit = 0 /\ final.text # <<>>
        /\ session.outcome = "failed" <=> session.class # "none"
        /\ session.class = "agent" <=>
               exit = 0 /\ ~final.is_error /\ FirstSays("OUTCOME", {"failed"})
=============================================================================
