------------------------------- MODULE Roles -------------------------------
(***************************************************************************)
(* The registry of agent roles (pu/roles.py): the gateway holds it, a write *)
(* of a session type asks it strictly, and a launch asks it and makes do    *)
(* with the copy on disk if the gateway does not answer.  A role that is    *)
(* gone switches its type off.  One role is followed; both readers save     *)
(* what they were told, and neither takes a lock.                           *)
(***************************************************************************)
EXTENDS Naturals

CONSTANTS
    Readers,       \* threads that check a write; the deciding tick is one more
    Tick,
    Unasked,
    MaxChecks      \* bound: requests and ticks that read the registry

ASSUME RolesAssumption == Unasked \notin BOOLEAN

VARIABLES
    registered,    \* is the role in the gateway's registry
    copy,          \* agent_roles.json: does it hold the role; Unasked is no copy
    check,         \* what each reader was answered, until it has saved it
    verdict,       \* of the last launch that asked; history: the last answer
                   \* by then, and whether it was uncopied
    answer,        \* history: the last answer anybody was given
    overlapped,    \* history: who was answered while another had yet to save
    uncopied,      \* history: that answer was not saved, or another's saving overlapped it
    checks

rolesVars == <<registered, copy, check, verdict, answer, overlapped, uncopied, checks>>

Asking == Readers \cup {Tick}

RolesInit ==
    /\ registered \in BOOLEAN
    /\ copy = Unasked
    /\ check = [r \in Asking |-> Unasked]
    /\ verdict = [by |-> "nothing", exists |-> TRUE, last |-> Unasked, crossed |-> FALSE]
    /\ answer = Unasked /\ overlapped = {} /\ uncopied = FALSE /\ checks = 0

\* cu adds or removes the role.
RegistryChanges ==
    /\ registered' = ~registered
    /\ UNCHANGED <<copy, check, verdict, answer, overlapped, uncopied, checks>>

Answered == {r \in Asking : check[r] # Unasked}

\* The gateway answers; the copy on disk is behind until this is saved.
Fetch(r) ==
    /\ check[r] = Unasked /\ checks < MaxChecks
    /\ checks' = checks + 1
    /\ check' = [check EXCEPT ![r] = registered]
    /\ answer' = registered
    /\ uncopied' = TRUE
    /\ overlapped' = IF Answered = {} THEN overlapped \ {r} ELSE overlapped \cup Answered \cup {r}
    /\ UNCHANGED <<registered, copy, verdict>>

Told(r) == [by |-> "gateway", exists |-> check[r], last |-> answer, crossed |-> uncopied]

\* Mutation: a launch leaves the copy as it is.
SaveAtWrite(r) ==
    /\ check[r] # Unasked
    /\ IF r = Tick THEN copy' = copy /\ verdict' = Told(r)
       ELSE copy' = check[r] /\ verdict' = verdict
    /\ uncopied' = (r \in overlapped)
    /\ check' = [check EXCEPT ![r] = Unasked]
    /\ UNCHANGED <<registered, answer, overlapped, checks>>
\* _save, and the answer is used: a launch goes by it, a write is refused or
\* goes on.  Two that save at once may leave a mix, which cannot be read.
Save(r) ==
    /\ check[r] # Unasked
    /\ copy' \in {check[r]} \cup (IF r \in overlapped THEN {Unasked} ELSE {})
    /\ verdict' = IF r = Tick THEN Told(r) ELSE verdict
    /\ uncopied' = (r \in overlapped)
    /\ check' = [check EXCEPT ![r] = Unasked]
    /\ UNCHANGED <<registered, answer, overlapped, checks>>

\* The disk is full: the old copy stays, or a part of the new one, which reads
\* as none.  The answer is used all the same.
SaveFails(r) ==
    /\ check[r] # Unasked
    /\ copy' \in {copy, Unasked}
    /\ verdict' = IF r = Tick THEN Told(r) ELSE verdict
    /\ uncopied' = TRUE
    /\ check' = [check EXCEPT ![r] = Unasked]
    /\ UNCHANGED <<registered, answer, overlapped, checks>>

\* at_launch without an answer: the copy, or, without one, the write that named
\* the role.
MakeDo ==
    /\ check[Tick] = Unasked
    /\ verdict' = [by |-> IF copy = Unasked THEN "nothing" ELSE "copy",
                   exists |-> copy # FALSE, last |-> answer, crossed |-> uncopied]
    /\ UNCHANGED <<registered, copy, check, answer, overlapped, uncopied, checks>>

\* The process dies.
RolesDie ==
    /\ Answered # {}
    /\ check' = [r \in Asking |-> Unasked]
    /\ uncopied' = TRUE
    /\ UNCHANGED <<registered, copy, verdict, answer, overlapped, checks>>

RolesNext ==
    \/ RegistryChanges \/ MakeDo \/ RolesDie
    \/ \E r \in Asking : Fetch(r) \/ Save(r) \/ SaveFails(r)
-----------------------------------------------------------------------------
\* A launch that goes by the copy goes by what the gateway last said to
\* anybody, unless that answer could not be saved or two readings crossed: a
\* silent gateway switches a type off on no older word, and lets one run on
\* none; and without a copy nobody had an answer.
SilenceKeepsTheLastWord ==
    \/ verdict.by = "gateway" \/ verdict.crossed
    \/ verdict.by = "copy" /\ verdict.exists = verdict.last
    \/ verdict.by = "nothing" /\ verdict.last = Unasked
=============================================================================
