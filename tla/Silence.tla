------------------------------ MODULE Silence ------------------------------
(***************************************************************************)
(* Silences and the alerts they hold: app/services/silences.py,            *)
(* app/modules/db/silences_repo.py, the silence API                        *)
(* (app/views/silences_view.py) and the part of the intake that creates a  *)
(* silenced alert (app/services/alerts/lifecycle.py).                      *)
(*                                                                         *)
(* The alerts belong to one alert group.  Every handler reads rows, works  *)
(* on these copies and saves whole rows in one transaction; the model has  *)
(* a step for the reads and a step for the transaction, so that two        *)
(* handlers may both have read before either one writes.  The API saves    *)
(* the silence in a transaction of its own before it reconciles, and a     *)
(* request may die between the two.  The lifecycle job holds an AppLock,   *)
(* so there is one.                                                        *)
(*                                                                         *)
(* A silence matches all the alerts or none.  A deleted silence is a       *)
(* disabled one.  A released alert fires: only firing alerts are silenced. *)
(* Acknowledgements are AlertGroup's.                                      *)
(***************************************************************************)
EXTENDS Naturals

CONSTANTS
  Silences,
  Alerts,      \* alerts of one group
  Requests,    \* silence API requests under way
  Intake,      \* the request that creates an alert
  Job,         \* the silence lifecycle job
  MaxCalls,    \* bound on the API calls
  MaxDeaths    \* bound on the requests that die

VARIABLES
  silence,   \* Silence rows; phase is where now lies in starts_at .. ends_at
  app,       \* SilenceAlertApplication rows: source while active, else "released"
  alert,     \* status of the alerts
  group,     \* status of the group, its queue entry, and whether it was paged
  proc,      \* per handler: the next step and the rows it has read
  raced,     \* history: two handlers were between their reads and writes
  calls,
  deaths

vars == <<silence, app, alert, group, proc, raced, calls, deaths>>

Procs == Requests \cup {Intake, Job}

SilenceRows ==
  [phase : {"absent", "scheduled", "active", "ended"}, enabled : BOOLEAN, match : BOOLEAN,
   existing : BOOLEAN, reactivate : BOOLEAN, reconciled : BOOLEAN]

NoSilence == [phase |-> "absent", enabled |-> FALSE, match |-> FALSE,
              existing |-> FALSE, reactivate |-> FALSE, reconciled |-> FALSE]

GroupRows == [status : {"none", "firing", "silenced", "resolved"}, queued : BOOLEAN, paged : BOOLEAN]

NoGroup == [status |-> "none", queued |-> FALSE, paged |-> FALSE]

Idle == [pc |-> "idle", todo |-> {}, row |-> NoSilence, apps |-> {}, kept |-> {}, seen |-> {},
         copy |-> NoGroup]

Stages == {"idle", "reconcile", "writeRelease", "saveScheduled", "apply", "writeApply",
           "writeOrphans", "starts", "ends", "create", "enqueue"}

\* What a handler has read: the silences to do, a row, the alerts of its
\* applications, those held by another silence and those that were silenced; and
\* the intake's copy of the group.
Handlers ==
  [pc : Stages, todo : SUBSET Silences, row : SilenceRows,
   apps : SUBSET Alerts, kept : SUBSET Alerts, seen : SUBSET Alerts, copy : GroupRows]

SilenceAssumption ==
  /\ Intake # Job /\ Requests \cap {Intake, Job} = {}
  /\ MaxCalls \in Nat /\ MaxDeaths \in Nat

TypeOK ==
  /\ silence \in [Silences -> SilenceRows]
  /\ app \in [Silences -> [Alerts -> {"none", "new", "existing", "released"}]]
  /\ alert \in [Alerts -> {"none", "firing", "silenced", "resolved"}]
  /\ group \in GroupRows
  /\ proc \in [Procs -> Handlers]
  /\ raced \in BOOLEAN /\ calls \in 0 .. MaxCalls /\ deaths \in 0 .. MaxDeaths

\* A silence that was created, and reconciled, before there was an alert (with
\* the default reactivate_on_end in Init).
Created(phase, existing, reactivate) ==
  [phase |-> phase, enabled |-> TRUE, match |-> TRUE, existing |-> existing,
   reactivate |-> reactivate, reconciled |-> phase = "active" /\ existing]

Init ==
  /\ silence \in [Silences -> {NoSilence} \cup {Created("active", e, TRUE) : e \in BOOLEAN}]
  /\ app = [s \in Silences |-> [a \in Alerts |-> "none"]]
  /\ alert = [a \in Alerts |-> "none"]
  /\ group = NoGroup
  /\ proc = [p \in Procs |-> Idle]
  /\ raced = FALSE /\ calls = 0 /\ deaths = 0

-----------------------------------------------------------------------------
(* Rows *)

\* _silence_is_active, list_active_silences.
Active(row) == row.enabled /\ row.phase = "active"

\* Enabled, and its start is to come.
Scheduled(row) == row.enabled /\ row.phase = "scheduled"

Over(row) == row.phase # "absent" /\ (~row.enabled \/ row.phase = "ended")

Applied(s, a) == app[s][a] \in {"new", "existing"}

\* Variant that only counts silences that are still active.
HeldByActive(s) == {a \in Alerts : \E t \in Silences \ {s} : Applied(t, a) /\ Active(silence[t])}

\* has_other_active_application, once the silence's own is released.
HeldByOthers(s) == {a \in Alerts : \E t \in Silences \ {s} : Applied(t, a)}

Reading(p) == proc[p].pc \in {"writeRelease", "writeApply", "writeOrphans", "create", "enqueue"}

\* A handler reads while another one is about to write.
Overlaps(p) == raced' = (raced \/ \E q \in Procs \ {p} : Reading(q))

\* recalculate_alert_group's status.
Recalculated(status, alerts) ==
  LET present == {alerts[a] : a \in Alerts} \ {"none"}
  IN  CASE present = {} -> status
        [] present = {"resolved"} -> "resolved"
        [] "firing" \in present -> "firing"
        [] OTHER -> "silenced"

\* The group after a handler changed its alerts: _pause_group_after_silencing,
\* _restart_group_after_unsilencing or neither.
Settled(alerts) ==
  LET status == Recalculated(group.status, alerts)
      paused == group.status = "firing" /\ status = "silenced"
      restarted == group.status = "silenced" /\ status = "firing"
  IN  [status |-> status,
       queued |-> restarted \/ (group.queued /\ ~paused),
       paged |-> group.paged /\ ~paused /\ ~restarted]

Return(p) == proc' = [proc EXCEPT ![p] = Idle]

\* silence.save() writes every column of the copy; time is not a column.
Saved(s, row) == [silence EXCEPT ![s] = [row EXCEPT !.phase = silence[s].phase]]

-----------------------------------------------------------------------------
(* The API: create, update, enable and disable save the silence first *)

Save(r, s, row) ==
  /\ proc[r].pc = "idle" /\ calls < MaxCalls
  /\ calls' = calls + 1
  /\ silence' = [silence EXCEPT ![s] = row]
  /\ proc' = [proc EXCEPT ![r] = [Idle EXCEPT !.pc = "reconcile", !.todo = {s}, !.row = row]]
  /\ UNCHANGED <<app, alert, group, raced, deaths>>

\* create_silence.
Create(r, s) ==
  /\ silence[s].phase = "absent"
  /\ \E phase \in {"scheduled", "active"}, existing, reactivate \in BOOLEAN :
       Save(r, s, [Created(phase, existing, reactivate) EXCEPT !.reconciled = FALSE])

\* enable_silence and disable_silence.
SetEnabled(r, s) ==
  /\ silence[s].phase # "absent"
  /\ Save(r, s, [silence[s] EXCEPT !.enabled = ~@, !.reconciled = FALSE])

\* update_silence: the matchers or the options.
Update(r, s) ==
  /\ silence[s].phase # "absent"
  /\ \/ Save(r, s, [silence[s] EXCEPT !.match = ~@, !.reconciled = FALSE])
     \/ Save(r, s, [silence[s] EXCEPT !.reactivate = ~@, !.reconciled = FALSE])
     \/ Save(r, s, [silence[s] EXCEPT !.existing = ~@, !.reconciled = FALSE])

TheSilence(p) == CHOOSE s \in proc[p].todo : TRUE

\* An application an active silence does not keep.
Invalid(s, a) ==
  LET row == silence[s]
  IN  Applied(s, a) /\ ~(row.match /\ (app[s][a] = "new" \/ row.existing))

\* reconcile_silence: which applications to release, and their alerts; a silence
\* that is over is released with respect_reactivate_on_end.
Reconcile(r) ==
  LET s == TheSilence(r)
      row == proc[r].row
      apps == {a \in Alerts : IF Active(row) THEN Invalid(s, a) ELSE Applied(s, a)}
      next == IF Active(row) /\ apps = {} THEN "apply" ELSE "writeRelease"
  IN  /\ proc[r].pc = "reconcile"
      /\ proc' = [proc EXCEPT ![r].pc = next, ![r].apps = apps,
           ![r].seen = {a \in Alerts : alert[a] = "silenced"},
           ![r].kept = HeldByOthers(s)]
      /\ Overlaps(r)
      /\ UNCHANGED <<silence, app, alert, group, calls, deaths>>

Retained(row) == Over(row) /\ ~row.reactivate

\* release_silence_applications and _release_application_alert: an alert is
\* reactivated when no other application holds it.
WriteRelease(p) ==
  LET s == TheSilence(p)
      r == proc[p]
      freed == {a \in r.apps : a \in r.seen /\ a \notin r.kept}
      alerts == [a \in Alerts |-> IF a \in freed THEN "firing" ELSE alert[a]]
      rest == IF p = Job THEN [r EXCEPT !.pc = "ends", !.todo = @ \ {s}, !.apps = {}, !.kept = {},
                                        !.seen = {}, !.row = NoSilence]
              ELSE IF Active(r.row) THEN [r EXCEPT !.pc = "apply", !.apps = {}, !.kept = {}, !.seen = {}]
              ELSE IF Scheduled(r.row)
              THEN [r EXCEPT !.pc = "saveScheduled", !.apps = {}, !.kept = {}, !.seen = {}]
              ELSE Idle
  IN  /\ r.pc = "writeRelease"
      /\ \/ /\ Retained(r.row)
            /\ UNCHANGED <<app, alert, group>>
         \/ /\ ~Retained(r.row)
            /\ app' = [app EXCEPT ![s] = [a \in Alerts |-> IF a \in r.apps THEN "released" ELSE @[a]]]
            /\ alert' = alerts
            /\ group' = Settled(alerts)
      /\ silence' = Saved(s, [r.row EXCEPT !.reconciled = TRUE])
      /\ proc' = [proc EXCEPT ![p] = rest]
      /\ UNCHANGED <<raced, calls, deaths>>

\* reconcile_silence's second save of a silence that has not started: the job has
\* to find it when it does.
SaveScheduled(r) ==
  /\ proc[r].pc = "saveScheduled"
  /\ silence' = Saved(TheSilence(r), [proc[r].row EXCEPT !.reconciled = FALSE])
  /\ Return(r)
  /\ UNCHANGED <<app, alert, group, raced, calls, deaths>>

\* apply_silence_to_existing_alerts: the select.
Select(p, row) ==
  LET open == group.status \in {"firing", "silenced"}
  IN  proc' = [proc EXCEPT ![p] = [proc[p] EXCEPT !.pc = "writeApply", !.row = row,
         !.apps = IF open THEN {a \in Alerts : alert[a] \in {"firing", "silenced"}} ELSE {},
         !.seen = {a \in Alerts : alert[a] = "silenced"}]]

Apply(r) ==
  /\ proc[r].pc = "apply"
  /\ \/ proc[r].row.existing /\ Select(r, proc[r].row) /\ Overlaps(r)
     \/ ~proc[r].row.existing /\ Return(r) /\ UNCHANGED raced
  /\ UNCHANGED <<silence, app, alert, group, calls, deaths>>

\* Its transaction: an alert that has the application already is left alone.
WriteApply(p) ==
  LET s == TheSilence(p)
      r == proc[p]
      new == {a \in r.apps : r.row.match /\ ~Applied(s, a)}
      alerts == [a \in Alerts |-> IF a \in new \ r.seen THEN "silenced" ELSE alert[a]]
  IN  /\ r.pc = "writeApply"
      /\ app' = [app EXCEPT ![s] = [a \in Alerts |-> IF a \in new THEN "existing" ELSE @[a]]]
      /\ alert' = alerts
      /\ group' = Settled(alerts)
      /\ silence' = Saved(s, [r.row EXCEPT !.reconciled = TRUE])
      /\ proc' = [proc EXCEPT ![p] =
           IF p = Job THEN [Idle EXCEPT !.pc = "starts", !.todo = r.todo \ {s}] ELSE Idle]
      /\ UNCHANGED <<raced, calls, deaths>>

-----------------------------------------------------------------------------
(* process_silence_lifecycle *)

\* Silenced alerts that no application holds.
Orphans ==
  {a \in Alerts : alert[a] = "silenced" /\ group.status # "resolved" /\ \A s \in Silences : ~Applied(s, a)}

Matching == {s \in Silences : Active(silence[s]) /\ silence[s].match}

\* list_due_retroactive_silences.
DueStarts == {s \in Silences : Active(silence[s]) /\ silence[s].existing /\ ~silence[s].reconciled}

\* Variant that leaves a disabled silence to the request that disabled it.
DueEndsByTime == {s \in Silences : /\ silence[s].phase = "ended" /\ silence[s].reactivate
                                   /\ \E a \in Alerts : Applied(s, a)}

\* list_silences_with_due_releases.
DueEnds == {s \in Silences : /\ Over(silence[s]) /\ silence[s].reactivate
                             /\ \E a \in Alerts : Applied(s, a)}

\* What the job does after the orphans: the silences that have started, then
\* those that are over, then nothing.
FromEnds == IF DueEnds = {} THEN Idle ELSE [Idle EXCEPT !.pc = "ends", !.todo = DueEnds]
FromStarts == IF DueStarts = {} THEN FromEnds ELSE [Idle EXCEPT !.pc = "starts", !.todo = DueStarts]

\* reconcile_orphan_silenced_alerts: the select.  A job with nothing to do is
\* not a step.
JobStart ==
  /\ proc[Job].pc = "idle"
  /\ \/ /\ Orphans # {}
        /\ proc' = [proc EXCEPT ![Job].pc = "writeOrphans", ![Job].apps = Orphans]
        /\ Overlaps(Job)
     \/ /\ Orphans = {} /\ FromStarts # Idle
        /\ proc' = [proc EXCEPT ![Job] = FromStarts]
        /\ UNCHANGED raced
  /\ UNCHANGED <<silence, app, alert, group, calls, deaths>>

\* Its transaction: an orphan gets the applications of the silences that match,
\* or fires; then the silences that have started are listed.
WriteOrphans ==
  LET alerts == [a \in Alerts |-> IF a \in proc[Job].apps /\ Matching = {} THEN "firing" ELSE alert[a]]
  IN  /\ proc[Job].pc = "writeOrphans"
      /\ app' = [s \in Silences |-> [a \in Alerts |->
           IF a \in proc[Job].apps /\ s \in Matching THEN "new" ELSE app[s][a]]]
      /\ alert' = alerts
      /\ group' = Settled(alerts)
      /\ proc' = [proc EXCEPT ![Job] = [Idle EXCEPT !.pc = "starts", !.todo = DueStarts]]
      /\ UNCHANGED <<silence, raced, calls, deaths>>

\* The next silence that has started, or the list of those that are over.
Starts ==
  LET j == proc[Job]
  IN  /\ j.pc = "starts"
      /\ \/ j.todo # {} /\ Select(Job, silence[TheSilence(Job)]) /\ Overlaps(Job)
         \/ /\ j.todo = {}
            /\ proc' = [proc EXCEPT ![Job] = FromEnds]
            /\ UNCHANGED raced
      /\ UNCHANGED <<silence, app, alert, group, calls, deaths>>

\* The applications of the next silence that is over, or the end of the job.
Ends ==
  LET j == proc[Job]
      s == TheSilence(Job)
  IN  /\ j.pc = "ends"
      /\ \/ /\ j.todo # {}
            /\ proc' = [proc EXCEPT ![Job] = [j EXCEPT !.pc = "writeRelease", !.row = silence[s],
                 !.apps = {a \in Alerts : Applied(s, a)},
                 !.seen = {a \in Alerts : alert[a] = "silenced"},
                 !.kept = HeldByOthers(s)]]
            /\ Overlaps(Job)
         \/ j.todo = {} /\ Return(Job) /\ UNCHANGED raced
      /\ UNCHANGED <<silence, app, alert, group, calls, deaths>>

-----------------------------------------------------------------------------
(* The alerts *)

\* find_active_silences for a new alert.
Arrive ==
  /\ proc[Intake].pc = "idle" /\ \E a \in Alerts : alert[a] = "none"
  /\ proc' = [proc EXCEPT ![Intake] = [Idle EXCEPT !.pc = "create", !.todo = Matching]]
  /\ Overlaps(Intake)
  /\ UNCHANGED <<silence, app, alert, group, calls, deaths>>

\* The transaction with the new alert and record_new_alert_silences; a silenced
\* alert in a firing group changes nothing of its queue entry.
CreateAlert(a) ==
  LET found == proc[Intake].todo
      status == IF found = {} THEN "firing" ELSE "silenced"
      alerts == [alert EXCEPT ![a] = status]
      new == Recalculated(group.status, alerts)
      row == [status |-> new, queued |-> group.queued, paged |-> group.paged /\ new # "silenced"]
  IN  /\ proc[Intake].pc = "create" /\ alert[a] = "none"
      /\ alert' = alerts
      /\ app' = [s \in Silences |-> IF s \in found THEN [app[s] EXCEPT ![a] = "new"] ELSE app[s]]
      /\ group' = row
      /\ proc' = [proc EXCEPT ![Intake] = IF status = "silenced" /\ new = "firing" THEN Idle
                                          ELSE [Idle EXCEPT !.pc = "enqueue", !.copy = row]]
      /\ UNCHANGED <<silence, raced, calls, deaths>>

\* schedule_group_notification, or clear_alert_group_notification for a group that
\* does not fire: either saves the whole copy; a copy that is queued is not saved.
Enqueue ==
  LET copy == proc[Intake].copy
      firing == copy.status = "firing"
  IN  /\ proc[Intake].pc = "enqueue"
      /\ group' = IF firing /\ copy.queued THEN group ELSE [copy EXCEPT !.queued = firing]
      /\ Return(Intake)
      /\ UNCHANGED <<silence, app, alert, raced, calls, deaths>>

\* A resolved payload, in a request of its own.
Resolve(a) ==
  LET alerts == [alert EXCEPT ![a] = "resolved"]
  IN  /\ alert[a] \in {"firing", "silenced"}
      /\ alert' = alerts
      /\ group' = [group EXCEPT !.status = Recalculated(@, alerts)]
      /\ raced' = (raced \/ \E q \in Procs : Reading(q))
      /\ UNCHANGED <<silence, app, proc, calls, deaths>>

\* The notification queue pages a firing group and clears an entry of any other.
Page ==
  /\ group.queued
  /\ group' = [group EXCEPT !.queued = FALSE, !.paged = @ \/ group.status = "firing"]
  /\ UNCHANGED <<silence, app, alert, proc, raced, calls, deaths>>

Begin(s) ==
  /\ silence[s].phase = "scheduled"
  /\ silence' = [silence EXCEPT ![s].phase = "active"]
  /\ UNCHANGED <<app, alert, group, proc, raced, calls, deaths>>

Finish(s) ==
  /\ silence[s].phase = "active"
  /\ silence' = [silence EXCEPT ![s].phase = "ended"]
  /\ UNCHANGED <<app, alert, group, proc, raced, calls, deaths>>

\* A request dies before its next transaction; the job, which only takes up what
\* it finds in the tables, would start again.
Die(r) ==
  /\ proc[r].pc # "idle" /\ deaths < MaxDeaths
  /\ deaths' = deaths + 1
  /\ Return(r)
  /\ UNCHANGED <<silence, app, alert, group, raced, calls>>

RequestStep(r) ==
  Reconcile(r) \/ WriteRelease(r) \/ SaveScheduled(r) \/ Apply(r) \/ WriteApply(r)

IntakeStep == Enqueue \/ \E a \in Alerts : CreateAlert(a)

JobStep ==
  \/ JobStart \/ WriteOrphans \/ Starts \/ Ends
  \/ WriteRelease(Job) \/ WriteApply(Job)

Next ==
  \/ \E r \in Requests, s \in Silences : Create(r, s) \/ SetEnabled(r, s) \/ Update(r, s)
  \/ \E r \in Requests : RequestStep(r)
  \/ JobStep
  \/ Arrive \/ IntakeStep
  \/ \E a \in Alerts : Resolve(a)
  \/ Page
  \/ \E s \in Silences : Begin(s) \/ Finish(s)
  \/ \E r \in Requests : Die(r)

Spec == Init /\ [][Next]_vars

\* Requests run on, the scheduler keeps starting its jobs and time passes.
FairSpec ==
  /\ Spec
  /\ \A r \in Requests : WF_vars(RequestStep(r))
  /\ WF_vars(JobStep)
  /\ WF_vars(IntakeStep)

-----------------------------------------------------------------------------
(* Properties *)

\* A silence holds an alert: it has applied and is not over, or it is one that
\* does not reactivate its alerts.
Holds(s, a) == Applied(s, a) /\ (~Over(silence[s]) \/ ~silence[s].reactivate)

Unheld(a) == alert[a] = "silenced" /\ \A s \in Silences : ~Holds(s, a)

\* "When the final matching Silence ends or is disabled" its alerts become active
\* again, also when a request died or two releases each saw the other's
\* application.
SilencedReleased == \A a \in Alerts : Unheld(a) ~> ~Unheld(a)

\* Handlers that do not overlap leave an alert silenced while "another matching
\* Silence application still holds it", and nothing else silenced it.
HeldStaysSilenced ==
  ~raced => \A a \in Alerts : alert[a] = "firing" => \A s \in Silences : ~Applied(s, a)

\* The intake is about to queue the group.
Enqueuing == proc[Intake].pc = "enqueue" /\ ~proc[Intake].copy.queued

\* Handlers that do not overlap page every firing group once it is not silenced.
FiringIsPaged == ~raced /\ group.status = "firing" => group.queued \/ group.paged \/ Enqueuing

\* What silences.py guarantees while its handlers do not overlap.
SilenceInv == TypeOK /\ HeldStaysSilenced /\ FiringIsPaged

=============================================================================
