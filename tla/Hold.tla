-------------------------------- MODULE Hold --------------------------------
(***************************************************************************)
(* What holds an alert group back, and what sets it going again: shelves   *)
(* (alerts/shelving.py), maintenance windows (services/maintenance.py,     *)
(* alerts/maintenance_state.py) and the escalation timer they stop and     *)
(* restart (alerts/escalation.py, alerts/reminders.py).                    *)
(*                                                                         *)
(* One alert group with an escalation policy.  A window command commits    *)
(* the window first and reconciles its effect on the group afterwards, so  *)
(* a request can die in between; the scheduler's lifecycle job reconciles  *)
(* every window again.  The reminder job's checks and its save of the row   *)
(* are one step here: what a stale row does is in AlertGroup.              *)
(***************************************************************************)
EXTENDS Integers, Sequences, SequencesExt

CONSTANTS
    Windows,     \* maintenance windows whose scope contains the group
    Rules,       \* enabled rules of the group's escalation policy
    Repeats,     \* its repeat_count
    NoWindow,    \* "no window": a request that has nothing to reconcile
    MayDie,      \* commands whose request may die before it reconciles
    MaxCommands, \* bound: window commands and recurrences
    MaxShelves   \* bound: shelves ever created

ASSUME HoldAssumption ==
    /\ Rules \in Nat \ {0} /\ Repeats \in Nat
    /\ NoWindow \notin Windows
    /\ MayDie \subseteq {"save", "delete"}
    /\ MaxCommands \in Nat /\ MaxShelves \in Nat

VARIABLES
    group,     \* the AlertGroup row
    window,    \* MaintenanceWindow rows
    applied,   \* MaintenanceWindowAlertApplication row of each window
    held,      \* windows whose application is active, latest applied first
    latest,    \* window with the latest applied_at of all applications
    shelf,     \* the active AlertGroupShelve row: number and state
    request,   \* a window command that has committed but not yet reconciled
    expiry,    \* shelf the expiry job selected, 0 when it selected none
    commands   \* commands and recurrences so far

vars == <<group, window, applied, held, latest, shelf, request, expiry, commands>>

Statuses == {"firing", "acknowledged", "maintenance", "resolved"}
Suppress == "suppress_notifications"
PauseOnly == "pause_escalation_only"
Incident == "create_maintenance_incident"
NoIncident == "suppress_incident"
Behaviours == {Suppress, PauseOnly, Incident, NoIncident}
PausedBehaviours == Behaviours \ {NoIncident}

\* The columns of a group these services read; timer is next_escalation_at.
Row == [status : Statuses, pending : BOOLEAN, suppressed : BOOLEAN,
        timer : {"none", "running", "due"}, rule : 1..Rules, cycle : 0..Repeats]
WindowRow == [phase : {"active", "idle"}, enabled : BOOLEAN, deleted : BOOLEAN,
              behaviour : Behaviours, reactivate : BOOLEAN]
Application == [behaviour : PausedBehaviours \cup {"none"}, retained : BOOLEAN,
                prev : {"none", "firing", "acknowledged"}]
NoRequest == [window |-> NoWindow, kind |-> "none"]

TypeOK ==
    /\ group \in Row
    /\ window \in [Windows -> WindowRow]
    /\ applied \in [Windows -> Application]
    /\ held \in Seq(Windows) /\ IsInjective(held)
    /\ latest \in Windows \cup {NoWindow}
    /\ shelf \in [no : 0..MaxShelves, state : {"none", "active", "due"}]
    /\ request \in {NoRequest} \cup [window : Windows, kind : {"save", "delete"}]
    /\ expiry \in 0..MaxShelves
    /\ commands \in 0..MaxCommands

-----------------------------------------------------------------------------
(* Which effects are in force *)

\* is_window_active_now
Active(w) == ~window[w].deleted /\ window[w].enabled /\ window[w].phase = "active"

\* is_alert_group_shelved: a shelf that is due no longer counts
Shelved == shelf.state = "active"

\* _application_effect_is_active
Effective(w) ==
    /\ w \in ToSet(held)
    /\ ~window[w].deleted
    /\ applied[w].retained \/ Active(w) \/ ~window[w].reactivate

\* The window a group row names: _set_representative_maintenance
RepresentativeIn(bs) ==
    held # <<>> /\ window[Head(held)].behaviour \in bs /\ Active(Head(held))

\* is_notification_lifecycle_suppressed
Suppressed ==
    \/ \E w \in Windows : Effective(w) /\ applied[w].behaviour = Suppress
    \/ RepresentativeIn({Suppress})

\* is_escalation_lifecycle_paused: the group keeps the behaviour it was given
Paused ==
    \/ \E w \in Windows : Effective(w) /\ applied[w].behaviour \in PausedBehaviours
    \/ held # <<>> /\ Active(Head(held))

\* get_next_rule_for_alert: the next rule and cycle, <<>> when there is none
NextRule(g) ==
    IF g.rule < Rules THEN <<g.rule + 1, g.cycle>>
    ELSE IF g.cycle < Repeats THEN <<1, g.cycle + 1>> ELSE <<>>

-----------------------------------------------------------------------------
(* Updates of a group row *)

Unqueued(g) == [g EXCEPT !.pending = FALSE]

\* pause_notification_lifecycle
Pause(g) == [g EXCEPT !.suppressed = TRUE, !.pending = FALSE, !.timer = "none"]

\* get_next_escalation_at, or no timer while something pauses escalation
Restarted(g, paused) ==
    [g EXCEPT !.timer = IF g.status = "firing" /\ ~paused THEN "running" ELSE "none"]

\* resume_notification_lifecycle, given what is in force
Resume(g, suppressed, paused) ==
    IF g.suppressed /\ ~suppressed
    THEN [Restarted(g, paused) EXCEPT !.suppressed = FALSE] ELSE g

\* schedule_group_notification
Schedule(g, suppressed, paused) ==
    IF Shelved THEN [Unqueued(g) EXCEPT !.timer = "none"]
    ELSE IF suppressed THEN Pause(g)
    ELSE [Resume(g, suppressed, paused) EXCEPT !.pending = (g.status = "firing")]

\* A plausible slip: leaving maintenance does not restore the status.
StatusUnderKept(g, incident, fallback) ==
    IF incident /\ g.status # "resolved" THEN "maintenance" ELSE g.status

\* The status a group has under the effects: maintenance, or what it was before
StatusUnder(g, incident, fallback) ==
    IF incident /\ g.status # "resolved" THEN "maintenance"
    ELSE IF g.status = "maintenance" THEN fallback ELSE g.status

\* A plausible slip: only the application being released is looked at.
RecomputedAlone(g, behaviours, fallback, notify) ==
    [(Restarted(IF g.status = "maintenance"
                THEN [g EXCEPT !.status = fallback] ELSE g, FALSE))
        EXCEPT !.suppressed = FALSE]

\* _recompute_group_effects for the applications that are active afterwards
Recomputed(g, behaviours, fallback, notify) ==
    LET suppress == Suppress \in behaviours
        incident == Incident \in behaviours
        pause == behaviours \cap PausedBehaviours # {}
        moved == [g EXCEPT !.status = StatusUnder(g, incident, fallback)]
        flow == IF suppress THEN Pause(moved) ELSE Resume(moved, FALSE, pause)
        timed == IF pause \/ flow.status = "firing" THEN Restarted(flow, pause)
                 ELSE flow
        queued == IF incident THEN [Unqueued(timed) EXCEPT !.timer = "none"]
                  ELSE timed
    IN  IF notify /\ queued.status = "firing" /\ ~suppress /\ ~incident
        THEN Schedule(queued, FALSE, pause) ELSE queued

-----------------------------------------------------------------------------
(* Reconciling one window with the group *)

\* The status a new application remembers: _original_status_for_group takes that
\* of the last application, active or not, as each of them has one.
Original(g) ==
    IF g.status # "maintenance" THEN g.status
    ELSE IF latest = NoWindow THEN "firing" ELSE applied[latest].prev

\* _apply_window_to_group
Apply(w) ==
    LET before == applied[w]
        prev == IF before.prev = "none" THEN Original(group) ELSE before.prev
        now == [behaviour |-> window[w].behaviour, retained |-> FALSE, prev |-> prev]
        kept == {applied[x].behaviour : x \in ToSet(held) \ {w}}
        notify == /\ before.behaviour \in {Suppress, Incident}
                  /\ window[w].behaviour \notin {Suppress, Incident}
    IN  /\ applied' = [applied EXCEPT ![w] = now]
        /\ held' = IF w \in ToSet(held) THEN held ELSE <<w>> \o held
        /\ latest' = IF w \in ToSet(held) THEN latest ELSE w
        /\ group' = Recomputed(group, kept \cup {now.behaviour}, prev, notify)

\* _release_application
Release(w) ==
    /\ held' = RemoveAt(held, CHOOSE i \in DOMAIN held : held[i] = w)
    /\ applied' = [applied EXCEPT ![w].retained = FALSE]
    /\ group' = Recomputed(group, {applied[x].behaviour : x \in ToSet(held) \ {w}},
                           applied[w].prev,
                           applied[w].behaviour \in {Suppress, Incident})
    /\ UNCHANGED latest

\* _retain_application
Retain(w) ==
    /\ applied' = [applied EXCEPT ![w].retained = TRUE]
    /\ UNCHANGED <<group, held, latest>>

\* Whether the window has its effect on the group now
Applies(w) ==
    Active(w) /\ window[w].behaviour # NoIncident /\ group.status # "resolved"

\* Whether an application that no longer applies is released or kept
ReleaseNow(w, force) ==
    force \/ group.status = "resolved" \/ Active(w) \/ window[w].reactivate

\* reconcile_maintenance_window
Reconcile(w, force) ==
    \/ Applies(w) /\ Apply(w)
    \/ ~Applies(w) /\ w \in ToSet(held) /\ ReleaseNow(w, force) /\ Release(w)
    \/ ~Applies(w) /\ w \in ToSet(held) /\ ~ReleaseNow(w, force) /\ Retain(w)
    \/ ~Applies(w) /\ w \notin ToSet(held) /\ UNCHANGED <<group, applied, held, latest>>

-----------------------------------------------------------------------------
(* Window commands, the clock, and the lifecycle job *)

Bounded == commands < MaxCommands /\ commands' = commands + 1

\* update_maintenance_window, cancel_maintenance_window and
\* delete_maintenance_window up to the commit of the window
Command(w, new, kind) ==
    /\ request = NoRequest /\ ~window[w].deleted /\ Bounded
    /\ new # window[w]
    /\ window' = [window EXCEPT ![w] = new]
    /\ request' = [window |-> w, kind |-> kind]
    /\ UNCHANGED <<group, applied, held, latest, shelf, expiry>>

Update(w) ==
    \/ \E b \in Behaviours :
          Command(w, [window[w] EXCEPT !.behaviour = b], "save")
    \/ \E r \in BOOLEAN :
          Command(w, [window[w] EXCEPT !.reactivate = r], "save")

Cancel(w) == Command(w, [window[w] EXCEPT !.enabled = FALSE], "save")

Delete(w) ==
    Command(w, [window[w] EXCEPT !.enabled = FALSE, !.deleted = TRUE], "delete")

\* _reconcile_after_command
ReconcileAfterCommand ==
    /\ request # NoRequest
    /\ Reconcile(request.window, request.kind = "delete")
    /\ request' = NoRequest
    /\ UNCHANGED <<window, shelf, expiry, commands>>

\* The reconciliation raises, or the process ends before it.
RequestDies ==
    /\ request # NoRequest /\ request.kind \in MayDie
    /\ request' = NoRequest
    /\ UNCHANGED <<group, window, applied, held, latest, shelf, expiry, commands>>

\* An occurrence ends, and a recurring window begins the next one.
Ends(w) ==
    /\ Active(w)
    /\ window' = [window EXCEPT ![w].phase = "idle"]
    /\ UNCHANGED <<group, applied, held, latest, shelf, request, expiry, commands>>

Recurs(w) ==
    /\ window[w].phase = "idle" /\ ~window[w].deleted /\ Bounded
    /\ window' = [window EXCEPT ![w].phase = "active"]
    /\ UNCHANGED <<group, applied, held, latest, shelf, request, expiry>>

\* process_maintenance_lifecycle for one window
Lifecycle(w) ==
    /\ Reconcile(w, FALSE)
    /\ UNCHANGED <<window, shelf, request, expiry, commands>>

-----------------------------------------------------------------------------
(* Shelves *)

\* shelve_alert_group: replaces an active shelf, stops the queue and the timer
Shelve ==
    /\ group.status # "resolved" /\ shelf.no < MaxShelves
    /\ shelf' = [no |-> shelf.no + 1, state |-> "active"]
    /\ group' = [Unqueued(group) EXCEPT !.timer = "none"]
    /\ UNCHANGED <<window, applied, held, latest, request, expiry, commands>>

ShelfDue ==
    /\ shelf.state = "active"
    /\ shelf' = [shelf EXCEPT !.state = "due"]
    /\ UNCHANGED <<group, window, applied, held, latest, request, expiry, commands>>

\* A plausible slip: the timer waits for the next notification.
RestartQueueOnly(g) == [g EXCEPT !.pending = (g.status = "firing" /\ ~Suppressed)]

\* _restart_after_unshelve: the shelf is no longer in force
RestartAfterUnshelve(g) ==
    IF g.status # "firing" THEN g
    ELSE LET timed == Restarted(g, Paused)
         IN  IF Suppressed THEN Pause(timed)
             ELSE [Resume(timed, FALSE, Paused) EXCEPT !.pending = TRUE]

\* unshelve_alert_group ends the active shelf, due or not
EndShelf ==
    /\ shelf' = [shelf EXCEPT !.state = "none"]
    /\ group' = RestartAfterUnshelve(group)

Unshelve ==
    /\ shelf.state # "none"
    /\ EndShelf
    /\ UNCHANGED <<window, applied, held, latest, request, expiry, commands>>

\* process_due_shelves: list_due_shelves
SelectDueShelf ==
    /\ expiry = 0 /\ shelf.state = "due"
    /\ expiry' = shelf.no
    /\ UNCHANGED <<group, window, applied, held, latest, shelf, request, commands>>

\* A plausible slip: whatever shelf is active is ended.
IsExpectedAny == shelf.state # "none"

\* expected_shelf_id: whether the shelf found is the one selected
IsExpected == shelf.state # "none" /\ shelf.no = expiry

\* process_due_shelves: unshelve_alert_group with expected_shelf_id
ExpireShelf ==
    /\ expiry # 0
    /\ expiry' = 0
    /\ IF IsExpected THEN EndShelf ELSE UNCHANGED <<shelf, group>>
    /\ UNCHANGED <<window, applied, held, latest, request, commands>>

-----------------------------------------------------------------------------
(* Responders *)

\* acknowledge_alert
Acknowledge ==
    /\ group.status \in {"firing", "maintenance"}
    /\ group' = [Unqueued(group) EXCEPT !.status = "acknowledged"]
    /\ UNCHANGED <<window, applied, held, latest, shelf, request, expiry, commands>>

\* resolve_alert: clear_shelve_on_resolve does not resume
Resolve ==
    /\ group.status # "resolved"
    /\ group' = [Unqueued(group) EXCEPT !.status = "resolved"]
    /\ shelf' = [shelf EXCEPT !.state = "none"]
    /\ UNCHANGED <<window, applied, held, latest, request, expiry, commands>>

-----------------------------------------------------------------------------
(* The notification queue and the reminder job *)

\* process_due_alert_group_notifications for a queued firing group
SendPage ==
    /\ group.pending
    /\ group' = IF Shelved THEN Unqueued(group)
                ELSE IF Suppressed THEN Pause(group)
                ELSE Unqueued(Resume(group, FALSE, Paused))
    /\ UNCHANGED <<window, applied, held, latest, shelf, request, expiry, commands>>

TimerDue ==
    /\ group.timer = "running"
    /\ group' = [group EXCEPT !.timer = "due"]
    /\ UNCHANGED <<window, applied, held, latest, shelf, request, expiry, commands>>

\* maybe_escalate_alert_by_policy
Escalated(g) ==
    IF g.timer # "due" THEN g
    ELSE IF NextRule(g) = <<>> THEN [g EXCEPT !.timer = "none"]
    ELSE [g EXCEPT !.rule = NextRule(g)[1], !.cycle = NextRule(g)[2],
                   !.timer = "running"]

\* send_unacked_reminders: the checks on the reloaded row, and its saves
Reminded(g) ==
    IF Shelved THEN [Unqueued(g) EXCEPT !.timer = "none"]
    ELSE IF Suppressed THEN Pause(g)
    ELSE IF g.suppressed THEN Schedule(Resume(g, FALSE, Paused), FALSE, Paused)
    ELSE IF Paused THEN g ELSE Escalated(g)

Remind ==
    /\ group.status = "firing"
    /\ group' = Reminded(group)
    /\ UNCHANGED <<window, applied, held, latest, shelf, request, expiry, commands>>

-----------------------------------------------------------------------------

Init ==
    /\ group = [status |-> "firing", pending |-> TRUE, suppressed |-> FALSE,
                timer |-> "running", rule |-> 1, cycle |-> 0]
    /\ \E there \in SUBSET Windows, r \in BOOLEAN,
          b \in {f \in [Windows -> PausedBehaviours] : IsInjective(f)} :
         window = [w \in Windows |->
                     [phase |-> "active", enabled |-> w \in there,
                      deleted |-> w \notin there,
                      behaviour |-> b[w], reactivate |-> r]]
    /\ applied = [w \in Windows |->
                    [behaviour |-> "none", retained |-> FALSE, prev |-> "none"]]
    /\ held = <<>>
    /\ latest = NoWindow
    /\ shelf \in [no : 0..MaxShelves, state : {"none"}]
    /\ request = NoRequest
    /\ expiry = 0
    /\ commands = 0

Next ==
    \/ \E w \in Windows : Update(w) \/ Cancel(w) \/ Delete(w) \/ Ends(w) \/ Recurs(w)
                            \/ Lifecycle(w)
    \/ ReconcileAfterCommand \/ RequestDies
    \/ Shelve \/ ShelfDue \/ Unshelve \/ SelectDueShelf \/ ExpireShelf
    \/ Acknowledge \/ Resolve
    \/ SendPage \/ TimerDue \/ Remind

Spec == Init /\ [][Next]_vars

\* The scheduler runs each of its jobs again and again, a shelf has an end,
\* and a request either reconciles or dies.
Fairness ==
    /\ \A w \in Windows : WF_vars(Lifecycle(w))
    /\ WF_vars(ReconcileAfterCommand)
    /\ WF_vars(ShelfDue) /\ WF_vars(SelectDueShelf) /\ WF_vars(ExpireShelf)
    /\ WF_vars(SendPage) /\ WF_vars(Remind)

FairSpec == Spec /\ Fairness

-----------------------------------------------------------------------------
(* Properties *)

\* An application in force has a status to go back to and an effect, as has the
\* last one, and a group is in maintenance only while some application still holds
\* it there.
MaintenanceHeld ==
    /\ latest # NoWindow => applied[latest].prev # "none"
    /\ \A w \in ToSet(held) : applied[w].prev # "none" /\ applied[w].behaviour # "none"
    /\ group.status = "maintenance" =>
         \E w \in ToSet(held) : applied[w].behaviour = Incident

\* The shelf the expiry job has in hand is over, or is no longer the group's.
ExpiryAgrees ==
    /\ expiry <= shelf.no
    /\ expiry # 0 /\ expiry = shelf.no => ~Shelved

\* A recorded window effect has a status to go back to, a group is in maintenance
\* only while some application still holds it there, and the shelf the expiry job
\* has in hand is not one that runs.
HoldInv == TypeOK /\ MaintenanceHeld /\ ExpiryAgrees

\* The expiry job never ends a shelf that is still running: an operator who
\* shelves again while the job has the old shelf in hand keeps the new one.
ShelfKept == [][ExpireShelf => (Shelved => Shelved')]_vars

\* Whatever starts the escalation timer - a release, an unshelve, a resume, an
\* escalation - does so only when no other window still pauses the group.
TimerRespectsHolds ==
    [][group.timer # "running" /\ group.timer' = "running" => ~Paused']_vars

\* The group is free: no shelf, and no window has or keeps an effect.
Free ==
    /\ shelf.state = "none"
    /\ \A w \in Windows : ~Active(w) /\ (w \in ToSet(held) => window[w].deleted
                                                   \/ window[w].reactivate)

\* Escalation comes back: a firing group with rules left whose last hold is
\* gone gets its timer again, unless it is held once more or stops firing.
EscalationResumes ==
    (group.status = "firing" /\ NextRule(group) # <<>> /\ Free)
        ~> (group.timer # "none" \/ group.status # "firing" \/ ~Free
            \/ NextRule(group) = <<>>)

\* docs/concepts/maintenance-windows.md: "Deleting the window ... always
\* releases effects that no longer belong to the window."
DeletedReleases ==
    \A w \in Windows : window[w].deleted ~> w \notin ToSet(held)
=============================================================================
