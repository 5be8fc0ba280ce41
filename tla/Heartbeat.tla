------------------------------ MODULE Heartbeat ------------------------------
(***************************************************************************)
(* Heartbeat checks (services/heartbeats/service.py): a producer pings, a  *)
(* scheduler job raises an alert when the deadline passes, the next ping   *)
(* resolves it.  Nothing locks a row: a ping and the job each work on a    *)
(* copy they read earlier and save it whole, and each may die between      *)
(* saving the row, raising or resolving the alert and linking the two.     *)
(*                                                                         *)
(* The checks are in interval mode.  Of next_expected_at, which follows    *)
(* from last_seen_at, a row keeps whether it has passed and then its place *)
(* in the order of the column: due = 0 is still to come, and of two checks *)
(* the one with the smaller due passed first.  late says that the grace    *)
(* period is over as well.                                                 *)
(***************************************************************************)
EXTENDS Naturals, FiniteSets

CONSTANTS
    Checks,
    AutoResolve,  \* the checks whose ping resolves the alert
    Limit,        \* HEARTBEAT_CHECK_BATCH_SIZE
    MaxPings,     \* bound: pings received
    MaxCommands,  \* bound: pauses, deletions and manual resolutions
    MaxFailures   \* bound: how often the job or a ping dies half-way, or intake makes no group

VARIABLES
    row,      \* the Heartbeat rows
    alert,    \* whether the alert of a check's dedup key is open
    ping,     \* per check: the row a ping read, and the step it is at
    job,      \* the copies the overdue job has to work on, and its step on the first
    counts    \* pings, commands, failures and passed deadlines so far

vars == <<row, alert, ping, job, counts>>

\* A deadline passes once for every check, and once more for every ping.
Ranks == 0 .. Cardinality(Checks) + MaxPings

Row == [status : {"new", "ok", "overdue", "paused", "deleted"}, due : Ranks,
        late : BOOLEAN, seen : BOOLEAN, linked : BOOLEAN]
Nothing == [step |-> "none"]

TypeOK ==
    /\ row \in [Checks -> Row]
    /\ alert \in [Checks -> {"none", "open", "resolved"}]
    /\ ping \in [Checks -> [step : {"resolve", "save"}, row : Row] \cup {Nothing}]
    /\ job.step \in {"idle", "check", "raise", "link"}
    /\ job.todo \subseteq [check : Checks, row : Row]
    /\ counts \in [pings : 0..MaxPings, commands : 0..MaxCommands,
                   failures : 0..MaxFailures, passed : Ranks]

\* Whether the job still looks at a check
Watched(c) == row[c].status \notin {"paused", "deleted"}

Idle == [step |-> "idle", todo |-> {}]

Counted(c) == counts' = [counts EXCEPT ![c] = @ + 1]

-----------------------------------------------------------------------------
(* Pings *)

\* get_heartbeat_by_token
Ping(c) ==
    /\ ping[c] = Nothing /\ row[c].status # "deleted" /\ counts.pings < MaxPings
    /\ ping' = [ping EXCEPT ![c] =
         [step |-> IF row[c].status = "overdue" /\ c \in AutoResolve THEN "resolve" ELSE "save",
          row |-> row[c]]]
    /\ Counted("pings")
    /\ UNCHANGED <<row, alert, job>>

\* receive_heartbeat_ping: an overdue check resolves the alert it links to
ResolveByPing(c) ==
    /\ ping[c].step = "resolve"
    /\ alert' = IF ping[c].row.linked /\ alert[c] = "open"
                THEN [alert EXCEPT ![c] = "resolved"] ELSE alert
    /\ ping' = [ping EXCEPT ![c].step = "save"]
    /\ UNCHANGED <<row, job, counts>>

\* receive_heartbeat_ping: the row it saves
Pinged(r) ==
    [status |-> IF r.status = "paused" THEN "paused" ELSE "ok", due |-> 0, late |-> FALSE,
     seen |-> TRUE, linked |-> r.linked /\ r.status # "overdue"]

SavePing(c) ==
    /\ ping[c].step = "save"
    /\ row' = [row EXCEPT ![c] = Pinged(ping[c].row)]
    /\ ping' = [ping EXCEPT ![c] = Nothing]
    /\ UNCHANGED <<alert, job, counts>>

PingDies(c) ==
    /\ ping[c] # Nothing /\ counts.failures < MaxFailures
    /\ ping' = [ping EXCEPT ![c] = Nothing]
    /\ Counted("failures")
    /\ UNCHANGED <<row, alert, job>>

-----------------------------------------------------------------------------
(* The overdue job *)

\* list_due_heartbeat_candidates, ORDER BY next_expected_at LIMIT
Candidates ==
    LET due == {c \in Checks : Watched(c) /\ row[c].due > 0}
    IN  {c \in due : Cardinality({d \in due : row[d].due < row[c].due}) < Limit}

Select ==
    /\ job = Idle /\ Candidates # {}
    /\ job' = [step |-> "check", todo |-> {[check |-> c, row |-> row[c]] : c \in Candidates}]
    /\ UNCHANGED <<row, alert, ping, counts>>

\* The copy at work: they are taken in the order of the query.
Current == CHOOSE t \in job.todo : \A u \in job.todo : t.row.due <= u.row.due

NextCheck == job' = IF job.todo = {Current} THEN Idle ELSE [step |-> "check", todo |-> job.todo \ {Current}]

\* A plausible slip: a check that is already overdue is never looked at again.
StillReportedByStatus(c, r) == r.status = "overdue"

\* mark_heartbeat_overdue: an overdue check whose alert is open is left alone
StillReported(c, r) == r.status = "overdue" /\ r.linked /\ alert[c] = "open"

\* process_overdue_heartbeats: the grace period is not over, next_expected_at is
\* saved as the copy gives it.
Refresh ==
    LET c == Current.check
        r == Current.row
    IN  /\ job.step = "check" /\ ~r.late
        /\ row' = [row EXCEPT ![c].due = r.due, ![c].late = @ /\ row[c].due = r.due]
        /\ NextCheck
        /\ UNCHANGED <<alert, ping, counts>>

\* mark_heartbeat_overdue up to the save of the row
MarkOverdue ==
    LET c == Current.check
        r == Current.row
    IN  /\ job.step = "check" /\ r.late
        /\ \/ StillReported(c, r) /\ NextCheck /\ UNCHANGED row
           \/ /\ ~StillReported(c, r)
              /\ row' = [row EXCEPT ![c] = [r EXCEPT !.status = "overdue"]]
              /\ job' = [job EXCEPT !.step = "raise"]
        /\ UNCHANGED <<alert, ping, counts>>

\* mark_heartbeat_overdue: upsert_alert of a firing payload
Raise ==
    /\ job.step = "raise"
    /\ alert' = [alert EXCEPT ![Current.check] = "open"]
    /\ job' = [job EXCEPT !.step = "link"]
    /\ UNCHANGED <<row, ping, counts>>

\* upsert_alert gives no group: the check stays overdue without an alert of its own.
RaiseNothing ==
    /\ job.step = "raise" /\ counts.failures < MaxFailures
    /\ NextCheck
    /\ Counted("failures")
    /\ UNCHANGED <<row, alert, ping>>

\* mark_heartbeat_overdue: save only current_alert_group
Link ==
    /\ job.step = "link"
    /\ row' = [row EXCEPT ![Current.check].linked = TRUE]
    /\ NextCheck
    /\ UNCHANGED <<alert, ping, counts>>

JobDies ==
    /\ job # Idle /\ counts.failures < MaxFailures
    /\ job' = Idle
    /\ Counted("failures")
    /\ UNCHANGED <<row, alert, ping>>

-----------------------------------------------------------------------------
(* Operators and time *)

\* pause_heartbeat
PauseCheck(c) ==
    /\ Watched(c) /\ counts.commands < MaxCommands
    /\ row' = [row EXCEPT ![c].status = "paused"]
    /\ Counted("commands")
    /\ UNCHANGED <<alert, ping, job>>

\* resume_heartbeat: the deadline is the one last_seen_at gives
ResumeCheck(c) ==
    /\ row[c].status = "paused"
    /\ row' = [row EXCEPT ![c].status = IF row[c].seen THEN "ok" ELSE "new"]
    /\ UNCHANGED <<alert, ping, job, counts>>

\* soft_delete_heartbeat: the alert it links to is resolved with it
DeleteCheck(c) ==
    /\ row[c].status # "deleted" /\ counts.commands < MaxCommands
    /\ row' = [row EXCEPT ![c].status = "deleted", ![c].linked = FALSE]
    /\ alert' = IF row[c].linked /\ alert[c] = "open" THEN [alert EXCEPT ![c] = "resolved"] ELSE alert
    /\ Counted("commands")
    /\ UNCHANGED <<ping, job>>

\* A responder resolves the alert by hand.
ResolveAlert(c) ==
    /\ alert[c] = "open" /\ counts.commands < MaxCommands
    /\ alert' = [alert EXCEPT ![c] = "resolved"]
    /\ Counted("commands")
    /\ UNCHANGED <<row, ping, job>>

\* next_expected_at passes without a ping, then the grace period.
Expire(c) ==
    /\ \/ /\ row[c].due = 0
          /\ row' = [row EXCEPT ![c].due = counts.passed + 1]
          /\ Counted("passed")
       \/ /\ row[c].due > 0 /\ ~row[c].late
          /\ row' = [row EXCEPT ![c].late = TRUE]
          /\ UNCHANGED counts
    /\ UNCHANGED <<alert, ping, job>>

-----------------------------------------------------------------------------

Init ==
    /\ row = [c \in Checks |-> [status |-> "new", due |-> 0, late |-> FALSE, seen |-> FALSE, linked |-> FALSE]]
    /\ alert = [c \in Checks |-> "none"]
    /\ ping = [c \in Checks |-> Nothing]
    /\ job = Idle
    /\ counts = [pings |-> 0, commands |-> 0, failures |-> 0, passed |-> 0]

JobStep == Select \/ Refresh \/ MarkOverdue \/ Raise \/ Link

PingStep(c) == ResolveByPing(c) \/ SavePing(c)

Next ==
    \/ \E c \in Checks :
         \/ Ping(c) \/ PingStep(c) \/ PingDies(c)
         \/ PauseCheck(c) \/ ResumeCheck(c) \/ DeleteCheck(c) \/ ResolveAlert(c) \/ Expire(c)
    \/ JobStep \/ RaiseNothing \/ JobDies

Spec == Init /\ [][Next]_vars

\* Time passes, the scheduler keeps running its job, requests finish.
Fairness ==
    WF_vars(JobStep) /\ \A c \in Checks : WF_vars(Expire(c)) /\ WF_vars(PingStep(c))

FairSpec == Spec /\ Fairness

-----------------------------------------------------------------------------
(* Properties *)

\* No ping and no command will come any more, and the check is watched.
Abandoned(c) ==
    /\ counts.pings = MaxPings /\ counts.commands = MaxCommands
    /\ Watched(c)

\* Reported checks with an older deadline fill the batch of the overdue job: they
\* stay at its head, because mark_heartbeat_overdue leaves their row as it is.
Crowded(c) ==
    Cardinality({d \in Checks : Watched(d) /\ StillReported(d, row[d])
                               /\ row[d].due \in 1 .. row[c].due - 1}) >= Limit

\* A dead producer is reported: whatever interleaving of late pings, job
\* crashes, pauses and manual resolutions came before, a check that nobody
\* pings, pauses or deletes any more has an open alert in the end, unless
\* reported checks crowd it out of the batch of process_overdue_heartbeats.
DeadIsReported ==
    \A c \in Checks : Abandoned(c) ~> (alert[c] = "open" \/ ~Watched(c) \/ Crowded(c))
=============================================================================
