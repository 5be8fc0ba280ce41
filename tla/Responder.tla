------------------------------ MODULE Responder ------------------------------
(***************************************************************************)
(* Responder requests of an incident (services/incidents/responders.py):   *)
(* asking a target for help, the answers people give, and the job that     *)
(* expires requests nobody answered.  A request is looked for before it is *)
(* created, and an answer is validated on a row read before it is written. *)
(***************************************************************************)
EXTENDS Naturals, FiniteSets

CONSTANTS
    Slots,    \* responder rows that can be created
    Clients,  \* API requests in flight
    MaxCalls  \* bound: API calls made

VARIABLES
    row,     \* row[s]: IncidentResponder row s, all for one target
    due,     \* rows whose expires_at has passed
    client,  \* client[c]: what a request validated and has still to write
    job,     \* rows the expiry job selected
    calls    \* API calls so far

vars == <<row, due, client, job, calls>>

Statuses == {"none", "requested", "accepted", "declined", "expired", "resolved"}
Answers == Statuses \ {"none", "requested"}
OpenStatuses == {"requested", "accepted"}

\* RESPONDER_STATUS_TRANSITIONS; repeating a status is allowed too
MayChange(old, new) ==
    \/ old = new
    \/ old = "requested" /\ new \in {"accepted", "declined", "expired"}
    \/ old = "accepted" /\ new = "resolved"

Free == [kind |-> "free"]

TypeOK ==
    /\ row \in [Slots -> Statuses]
    /\ due \subseteq Slots
    /\ client \in [Clients -> {Free, [kind |-> "create"]}
                      \cup [kind : {"answer"}, slot : Slots, status : Answers]]
    /\ job \subseteq Slots
    /\ calls \in 0..MaxCalls

Call(c, what) ==
    /\ client[c] = Free /\ calls < MaxCalls
    /\ client' = [client EXCEPT ![c] = what]
    /\ calls' = calls + 1
    /\ UNCHANGED <<row, due, job>>

\* _validate_responder_target: no request for the target is open
AskForHelp(c) ==
    /\ \A s \in Slots : row[s] \notin OpenStatuses
    /\ Call(c, [kind |-> "create"])

\* create_incident_responder: insert the row
Create(c) ==
    /\ client[c].kind = "create"
    /\ \E s \in Slots :
         /\ row[s] = "none"
         /\ row' = [row EXCEPT ![s] = "requested"]
    /\ client' = [client EXCEPT ![c] = Free]
    /\ UNCHANGED <<due, job, calls>>

\* set_incident_responder_status: read and validate
Answer(c) ==
    \E s \in Slots, status \in Answers :
        /\ row[s] # "none" /\ MayChange(row[s], status)
        /\ Call(c, [kind |-> "answer", slot |-> s, status |-> status])

\* update_incident_responder_status: an unconditional save
WriteAnswer(c) ==
    /\ client[c].kind = "answer"
    /\ row' = [row EXCEPT ![client[c].slot] = client[c].status]
    /\ client' = [client EXCEPT ![c] = Free]
    /\ UNCHANGED <<due, job, calls>>

TimeOut(s) ==
    /\ row[s] # "none" /\ s \notin due
    /\ due' = due \cup {s}
    /\ UNCHANGED <<row, client, job, calls>>

\* list_expired_requested_responders
Select ==
    /\ job = {}
    /\ job' = {s \in due : row[s] = "requested"}
    /\ UNCHANGED <<row, due, client, calls>>

\* A plausible slip: the job trusts the list it selected.
MayExpireSelected(s) == s \in due

\* The condition of expire_incident_responder's update
MayExpire(s) == row[s] = "requested" /\ s \in due

\* expire_incident_responder
Expire(s) ==
    /\ s \in job
    /\ row' = IF MayExpire(s) THEN [row EXCEPT ![s] = "expired"] ELSE row
    /\ job' = job \ {s}
    /\ UNCHANGED <<due, client, calls>>

Init ==
    /\ row = [s \in Slots |-> "none"]
    /\ due = {}
    /\ client = [c \in Clients |-> Free]
    /\ job = {}
    /\ calls = 0

Next ==
    \/ \E c \in Clients : AskForHelp(c) \/ Create(c) \/ Answer(c) \/ WriteAnswer(c)
    \/ \E s \in Slots : TimeOut(s) \/ Expire(s)
    \/ Select

Spec == Init /\ [][Next]_vars

-----------------------------------------------------------------------------
(* Properties *)

\* The expiry job never takes an answer back: a responder who accepted or
\* declined while the job had the request in hand keeps that answer.  Only a
\* person's call changes a request that was answered.
AnswerStands ==
    [][\A s \in Slots : row[s] \in {"accepted", "declined", "resolved"}
                        /\ row'[s] # row[s] => client' # client]_vars
=============================================================================
