----------------------------- MODULE AlertGroup -----------------------------
(***************************************************************************)
(* The alert group lifecycle: firing and resolved payloads that reach      *)
(* _upsert_alert of app/services/alerts/lifecycle.py, acknowledge_alert    *)
(* and resolve_alert of actions.py, the notification queue worker          *)
(* (process_due_alert_group_notifications of notification_queue.py), the   *)
(* reminder worker (send_unacked_reminders of reminders.py) and the rows   *)
(* they share through app/modules/db/alerts_repo.py.                       *)
(*                                                                         *)
(* All payloads have the same grouping identity (source, group key, team,  *)
(* route, service); a key is the dedup_key of one concrete alert.          *)
(*                                                                         *)
(* The point of the module is that a handler works on a COPY of a group it *)
(* has read, and that Model.save() without only= writes every column of    *)
(* that copy back.  A handler is split wherever it reads or writes a row   *)
(* outside a transaction; a transaction, and a handler that holds the row  *)
(* lock of its group (SELECT ... FOR UPDATE), is one step.                 *)
(*                                                                         *)
(* Due times are opaque stamps: two of them are only compared for          *)
(* equality, and a queued notification may become due at any time.         *)
(* RECOVERY_NOTIFICATION_DELAY_SECONDS is 0, its default.                  *)
(***************************************************************************)
EXTENDS Naturals, FiniteSets

CONSTANTS
  Keys,         \* dedup keys
  Intakes,      \* web workers that handle payloads
  Queue,        \* the notification queue worker
  Reminder,     \* the reminder worker
  Payloads,     \* payload statuses that arrive, of {"firing", "resolved"}
  Operations,   \* operator actions, of {"acknowledge", "resolve"}
  Reopen,       \* the orchestration rule sets a reopen window
  MaySilence,   \* a silence may match a new alert
  Failures,     \* how a delivery may fail, of {"no target", "raise"}
  MaxInFlight,  \* handlers that may overlap; 1 runs each one alone
  AloneActs,    \* operators act only while no handler is under way
  MaxEvents     \* bound on the payloads

ASSUME AlertAssumption ==
  /\ Queue # Reminder /\ {Queue, Reminder} \cap Intakes = {}
  /\ IsFiniteSet(Intakes) /\ Keys # {}
  /\ Payloads \subseteq {"firing", "resolved"}
  /\ Operations \subseteq {"acknowledge", "resolve"}
  /\ Failures \subseteq {"no target", "raise"}
  /\ {Reopen, MaySilence, AloneActs} \subseteq BOOLEAN
  /\ MaxInFlight \in Nat \ {0}
  /\ MaxEvents \in Nat

VARIABLES
  alert,    \* Alert rows: dedup key, status, group id (0 while unused)
  group,    \* AlertGroup rows: status, notification due stamp, ever notified
  proc,     \* per handler: its next statement and what it has read
  todo,     \* the due stamps the queue worker selected, per group
  events,   \* payloads that have arrived and deliveries that have raised
  acked     \* history: acknowledged, and nothing new has happened since

vars == <<alert, group, proc, todo, events, acked>>

\* A payload creates at most one alert and one group.
Alerts == 1 .. MaxEvents
Groups == 1 .. MaxEvents

Procs == Intakes \cup {Queue, Reminder}

\* Stamps: enough for every row, copy and selection to hold a different one.
Dues == 1 .. (2 * MaxEvents + 2 * Cardinality(Intakes) + 5)

AlertStatuses == {"none", "firing", "silenced", "resolved"}
GroupStatuses == {"none", "firing", "acknowledged", "silenced", "resolved"}

Stages == {"idle", "group", "updateAlert", "saveGroup", "saveAlert", "count",
           "recalculate", "enqueue", "notice", "add", "enqueueNew",
           "send", "deliver", "mark", "clear"}

GroupRow == [status : GroupStatuses, due : Dues \cup {0}, notified : BOOLEAN]

NoAlert == [key |-> CHOOSE k \in Keys : TRUE, status |-> "none", group |-> 0]
NoGroup == [status |-> "none", due |-> 0, notified |-> FALSE]

IdleProc ==
  [pc |-> "idle", key |-> CHOOSE k \in Keys : TRUE, event |-> "firing",
   alert |-> 0, status |-> "none", group |-> 0, copy |-> NoGroup,
   sending |-> NoGroup]

AlertRow == [key : Keys, status : AlertStatuses, group : Groups \cup {0}]

Handler == [pc : Stages, key : Keys, event : {"firing", "resolved", "silenced"},
            alert : Alerts \cup {0}, status : AlertStatuses,
            group : Groups \cup {0}, copy : GroupRow, sending : GroupRow]

\* What the handlers and the rows hold.
TypeOK ==
  /\ alert \in [Alerts -> AlertRow]
  /\ group \in [Groups -> GroupRow]
  /\ proc \in [Procs -> Handler]
  /\ todo \in [Groups -> Dues \cup {0}]
  /\ events \in 0 .. MaxEvents
  /\ acked \in [Groups -> BOOLEAN]

Init ==
  /\ alert = [a \in Alerts |-> NoAlert]
  /\ group = [g \in Groups |-> NoGroup]
  /\ proc = [p \in Procs |-> IdleProc]
  /\ todo = [g \in Groups |-> 0]
  /\ events = 0
  /\ acked = [g \in Groups |-> FALSE]

-----------------------------------------------------------------------------
(* Rows and copies *)

Busy(p) == proc[p].pc # "idle" \/ (p = Queue /\ \E g \in Groups : todo[g] # 0)

\* A handler may begin: fewer than MaxInFlight handlers are under way.
MayStart == Cardinality({p \in Procs : Busy(p)}) < MaxInFlight

Quiet == \A p \in Procs : ~Busy(p)

MayAct == IF AloneActs THEN Quiet ELSE MayStart

\* Variant of find_existing_alert's filter that also finds resolved alerts.
SeenAlert(a) == alert[a].status # "none"

OpenAlert(a) == alert[a].status \notin {"none", "resolved"}

\* Variant of find_open_alert_group's filter that overlooks acknowledged groups.
FiringGroup(g) == group[g].status \in {"firing", "silenced"}

OpenGroup(g) == group[g].status \notin {"none", "resolved"}

Children(g) == {a \in Alerts : alert[a].status # "none" /\ alert[a].group = g}
ChildStatuses(g) == {alert[a].status : a \in Children(g)}

\* .order_by(id.desc()).first() over a set of rows; 0 when there is none.
Newest(ids) == IF ids = {} THEN 0 ELSE CHOOSE x \in ids : \A y \in ids : y <= x

IsNextAlert(a) == alert[a].status = "none" /\ \A b \in 1 .. a - 1 : alert[b].status # "none"
IsNextGroup(g) == group[g].status = "none" /\ \A h \in 1 .. g - 1 : group[h].status # "none"

DuesInUse ==
  {group[g].due : g \in Groups} \cup {todo[g] : g \in Groups}
    \cup {proc[p].copy.due : p \in Procs} \cup {proc[p].sending.due : p \in Procs}

IsFreshDue(d) == d \notin DuesInUse /\ \A e \in 1 .. d - 1 : e \in DuesInUse

\* A variant of recalculate_alert_group in which an acknowledgement outlives the
\* last child.
RecalculatedAckFirst(status, children) ==
  IF status = "acknowledged" \/ children = {} THEN status
  ELSE IF children = {"resolved"} THEN "resolved"
  ELSE IF "firing" \in children THEN "firing" ELSE "silenced"

\* The status recalculate_alert_group gives a group from its own status and
\* the statuses of its children.
Recalculated(status, children) ==
  IF children = {} THEN status
  ELSE IF children = {"resolved"} THEN "resolved"
  ELSE IF "firing" \in children THEN (IF status = "acknowledged" THEN status ELSE "firing")
  ELSE IF "silenced" \in children THEN "silenced"
  ELSE IF "acknowledged" \in children THEN "acknowledged" ELSE status

\* The status update_alert_from_payload gives an alert.
PayloadStatus(previous, event) ==
  IF previous \in {"acknowledged", "silenced"} /\ event = "firing" THEN previous ELSE event

Goto(p, pc) == proc' = [proc EXCEPT ![p].pc = pc]
Return(p) == proc' = [proc EXCEPT ![p] = IdleProc]

\* group.save(): every column of the copy.
SaveRow(g, row) == group' = [group EXCEPT ![g] = row]

\* clear_alert_group_notification on a copy.
Cleared(row) == [row EXCEPT !.due = 0]

\* Variant that leaves the entry in the queue.
SentStillDue(row) == [row EXCEPT !.notified = TRUE]

\* mark_alert_group_notification_sent on a copy.
Sent(row) == [row EXCEPT !.due = 0, !.notified = TRUE]

\* schedule_alert_group_notification: a queued notification keeps its due time.
Schedule(g, row) ==
  \/ row.due # 0 /\ UNCHANGED group
  \/ row.due = 0 /\ \E d \in Dues : IsFreshDue(d) /\ SaveRow(g, [row EXCEPT !.due = d])

-----------------------------------------------------------------------------
(* A payload: _upsert_alert *)

\* find_existing_alert.
Arrive(i, k, e) ==
  /\ proc[i].pc = "idle" /\ MayStart
  /\ events < MaxEvents
  /\ events' = events + 1
  /\ LET a == Newest({b \in Alerts : OpenAlert(b) /\ alert[b].key = k})
     IN  proc' = [proc EXCEPT ![i] =
           [IdleProc EXCEPT !.pc = "group", !.key = k, !.event = e, !.alert = a,
                            !.status = IF a = 0 THEN "none" ELSE alert[a].status]]
  /\ UNCHANGED <<alert, group, todo, acked>>

\* The group of the alert, or find_open_alert_group; an orphan resolved is ignored.
FindGroup(i) ==
  LET p == proc[i]
      g == IF p.alert # 0 THEN alert[p.alert].group ELSE Newest({h \in Groups : OpenGroup(h)})
      found == [p EXCEPT !.group = g, !.copy = IF g = 0 THEN NoGroup ELSE group[g]]
  IN  /\ p.pc = "group"
      /\ \/ p.alert # 0 /\ proc' = [proc EXCEPT ![i] = [found EXCEPT !.pc = "updateAlert"]]
         \/ p.alert = 0 /\ p.event = "resolved" /\ Return(i)
         \/ /\ p.alert = 0 /\ p.event = "firing"
            /\ \E s \in {"firing"} \cup (IF MaySilence THEN {"silenced"} ELSE {}) :
                 proc' = [proc EXCEPT ![i] = [found EXCEPT !.pc = "add", !.event = s]]
      /\ UNCHANGED <<alert, group, todo, events, acked>>

\* update_alert_from_payload: the alert row gets the status computed from the copy.
UpdateAlert(i) ==
  LET p == proc[i]
      s == PayloadStatus(p.status, p.event)
  IN  /\ p.pc = "updateAlert"
      /\ alert' = [alert EXCEPT ![p.alert].status = s]
      /\ proc' = [proc EXCEPT ![i] = [p EXCEPT !.pc = "saveGroup", !.status = s]]
      /\ UNCHANGED <<group, todo, events, acked>>

\* group.save() of the copy read by FindGroup.
SaveGroup(i) ==
  LET p == proc[i]
  IN  /\ p.pc = "saveGroup"
      /\ SaveRow(p.group, p.copy)
      /\ Goto(i, "saveAlert")
      /\ UNCHANGED <<alert, todo, events, acked>>

\* existing_alert.save().
SaveAlert(i) ==
  LET p == proc[i]
  IN  /\ p.pc = "saveAlert"
      /\ alert' = [alert EXCEPT ![p.alert].status = p.status]
      /\ Goto(i, "count")
      /\ UNCHANGED <<group, todo, events, acked>>

\* recalculate_alert_group: the SELECT of the children.
Count(p) ==
  LET r == proc[p]
      new == [r.copy EXCEPT !.status = Recalculated(@, ChildStatuses(r.group))]
  IN  /\ r.pc = "count"
      /\ proc' = [proc EXCEPT ![p] = [r EXCEPT !.pc = "recalculate", !.copy = new]]
      /\ UNCHANGED <<alert, group, todo, events, acked>>

\* recalculate_alert_group: group.save().
Recalculate(p) ==
  LET next == IF p \in Intakes THEN "enqueue"
              ELSE IF proc[p].copy.status = "firing" THEN "send" ELSE "clear"
  IN  /\ proc[p].pc = "recalculate"
      /\ SaveRow(proc[p].group, proc[p].copy)
      /\ Goto(p, next)
      /\ UNCHANGED <<alert, todo, events, acked>>

\* The notification branches at the end of _handle_existing_alert.
Enqueue(i) ==
  LET p == proc[i]
      resolved == p.event = "resolved" /\ p.copy.status = "resolved"
  IN  /\ p.pc = "enqueue"
      /\ \/ resolved /\ p.copy.notified
            /\ SaveRow(p.group, Cleared(p.copy))
            /\ proc' = [proc EXCEPT ![i] = [p EXCEPT !.pc = "notice", !.copy = Cleared(@)]]
         \/ resolved /\ ~p.copy.notified /\ SaveRow(p.group, Cleared(p.copy)) /\ Return(i)
         \/ p.copy.status = "firing" /\ Schedule(p.group, p.copy) /\ Return(i)
         \/ ~resolved /\ p.copy.status # "firing" /\ UNCHANGED group /\ Return(i)
      /\ UNCHANGED <<alert, todo, events, acked>>

\* notify_alert(group, "resolved"): after the delivery, last_notification_at is
\* recorded with a save of the whole copy.
Notice(i) ==
  LET p == proc[i]
  IN  /\ p.pc = "notice"
      /\ \/ SaveRow(p.group, p.copy)
         \/ Failures # {} /\ UNCHANGED group
      /\ Return(i)
      /\ UNCHANGED <<alert, todo, events, acked>>

-----------------------------------------------------------------------------
(* A payload that creates an alert: one transaction *)

\* The new child is inserted in group g, whose row was read as row, and the
\* group is recalculated; an acknowledged group fires again unless the
\* acknowledgement is preserved.
InsertChild(i, g, row) ==
  LET p == proc[i]
      again == row.status = "acknowledged" /\ p.event = "firing"
  IN  \E a \in Alerts, keep \in BOOLEAN :
        LET base == IF again /\ ~keep THEN "firing" ELSE row.status
            new == [row EXCEPT !.status = Recalculated(base, ChildStatuses(g) \cup {p.event})]
        IN  /\ keep => again
            /\ IsNextAlert(a)
            /\ alert' = [alert EXCEPT ![a] = [key |-> p.key, status |-> p.event, group |-> g]]
            /\ SaveRow(g, new)
            /\ proc' = [proc EXCEPT ![i] = [p EXCEPT !.pc = "enqueueNew", !.group = g, !.copy = new]]
            /\ acked' = [acked EXCEPT ![g] = @ /\ (keep \/ p.event # "firing")]

\* _create_group.
InsertGroup(i) ==
  \E g \in Groups : IsNextGroup(g) /\ InsertChild(i, g, [NoGroup EXCEPT !.status = proc[i].event])

\* Without a reopen policy the transaction uses the group found before it.
AddChild(i) ==
  /\ proc[i].pc = "add" /\ ~Reopen
  /\ \/ proc[i].group # 0 /\ InsertChild(i, proc[i].group, proc[i].copy)
     \/ proc[i].group = 0 /\ InsertGroup(i)
  /\ UNCHANGED <<todo, events>>

\* restart_resolved_group.
Restarted == [NoGroup EXCEPT !.status = "firing"]

\* Variant that trusts the lookups made before the lock.
AddChildStale(i) ==
  /\ proc[i].pc = "add" /\ Reopen
  /\ \/ proc[i].group # 0 /\ InsertChild(i, proc[i].group, proc[i].copy)
     \/ proc[i].group = 0 /\ InsertGroup(i)
  /\ UNCHANGED <<todo, events>>

\* With one, lock_grouping_identity is held: the alert and the open group are
\* read again, and a group resolved inside the window is restarted.
AddChildLocked(i) ==
  LET raced == {b \in Alerts : OpenAlert(b) /\ alert[b].key = proc[i].key}
      open == Newest({g \in Groups : OpenGroup(g)})
  IN  /\ proc[i].pc = "add" /\ Reopen
      /\ \/ raced # {} /\ Return(i) /\ UNCHANGED <<alert, group, acked>>
         \/ raced = {} /\ open # 0 /\ InsertChild(i, open, group[open])
         \/ raced = {} /\ open = 0
            /\ \E g \in Groups : group[g].status = "resolved" /\ InsertChild(i, g, Restarted)
         \/ raced = {} /\ open = 0 /\ InsertGroup(i)
      /\ UNCHANGED <<todo, events>>

\* Variant that queues a notification for a new group only.
EnqueueCreated(i) ==
  LET p == proc[i]
  IN  /\ p.pc = "enqueueNew"
      /\ \/ /\ p.copy.status = "firing" /\ Cardinality(Children(p.group)) = 1
            /\ Schedule(p.group, p.copy)
         \/ p.copy.status # "firing" /\ SaveRow(p.group, Cleared(p.copy))
         \/ Cardinality(Children(p.group)) # 1 /\ p.copy.status = "firing" /\ UNCHANGED group
      /\ Return(i)
      /\ UNCHANGED <<alert, todo, events, acked>>

\* The notification branches at the end of _upsert_alert.
EnqueueNew(i) ==
  LET p == proc[i]
  IN  /\ p.pc = "enqueueNew"
      /\ \/ p.event = "firing" /\ p.copy.status = "firing" /\ Schedule(p.group, p.copy)
         \/ p.copy.status # "firing" /\ SaveRow(p.group, Cleared(p.copy))
         \/ p.event # "firing" /\ p.copy.status = "firing" /\ UNCHANGED group
      /\ Return(i)
      /\ UNCHANGED <<alert, todo, events, acked>>

-----------------------------------------------------------------------------
(* Operators: one transaction that locks the group row *)

Acknowledge(g) ==
  /\ "acknowledge" \in Operations /\ MayAct
  /\ OpenGroup(g)
  /\ SaveRow(g, [Cleared(group[g]) EXCEPT !.status = "acknowledged"])
  /\ acked' = [acked EXCEPT ![g] = TRUE]
  /\ UNCHANGED <<alert, proc, todo, events>>

Resolve(g) ==
  /\ "resolve" \in Operations /\ MayAct
  /\ OpenGroup(g)
  /\ alert' = [a \in Alerts |-> IF a \in Children(g) THEN [alert[a] EXCEPT !.status = "resolved"]
                                                     ELSE alert[a]]
  /\ SaveRow(g, [Cleared(group[g]) EXCEPT !.status = "resolved"])
  /\ acked' = [acked EXCEPT ![g] = FALSE]
  /\ UNCHANGED <<proc, todo, events>>

-----------------------------------------------------------------------------
(* The notification queue worker *)

\* list_due_alert_group_notifications.
SelectDue ==
  /\ ~Busy(Queue) /\ MayStart
  /\ \E g \in Groups : group[g].due # 0
  /\ todo' = [g \in Groups |-> group[g].due]
  /\ UNCHANGED <<alert, group, proc, events, acked>>

\* The worker is done with a selected group.
NextGroup == proc' = [proc EXCEPT ![Queue] = IdleProc]

\* get_alert_group and the comparison with the selected row.
Reload(g) ==
  LET row == group[g]
      current == row.status = "firing" /\ row.due = todo[g]
      read(pc) == proc' = [proc EXCEPT ![Queue] =
                    [IdleProc EXCEPT !.pc = pc, !.group = g, !.copy = row]]
  IN  /\ proc[Queue].pc = "idle" /\ todo[g] # 0
      /\ todo' = [todo EXCEPT ![g] = 0]
      /\ \/ current /\ read("count")
         \/ row.due # 0 /\ row.status # "firing" /\ read("clear")
         \/ ~current /\ ~(row.due = todo[g] /\ row.status # "firing") /\ NextGroup
      /\ UNCHANGED <<alert, group, events, acked>>

\* notify_alert re-reads the row: a group that no longer fires is not paged.
Send(w) ==
  LET row == group[proc[w].group]
  IN  /\ proc[w].pc = "send"
      /\ \/ row.status = "firing"
            /\ proc' = [proc EXCEPT ![w] = [@ EXCEPT !.pc = "deliver", !.sending = row]]
         \/ row.status # "firing" /\ w = Queue /\ Goto(w, "clear")
         \/ row.status # "firing" /\ w = Reminder /\ Return(w)
      /\ UNCHANGED <<alert, group, todo, events, acked>>

\* The channels are called; if one took the message, last_notification_at is
\* recorded with a save of the whole row that notify_alert read.
Deliver(w) ==
  LET p == proc[w]
  IN  /\ p.pc = "deliver"
      /\ \/ /\ SaveRow(p.group, [p.sending EXCEPT !.notified = TRUE])
            /\ proc' = [proc EXCEPT ![w] = [p EXCEPT !.pc = "mark", !.sending = NoGroup]]
         \/ /\ "no target" \in Failures /\ w = Queue /\ UNCHANGED group
            /\ proc' = [proc EXCEPT ![w] = [p EXCEPT !.pc = "clear", !.sending = NoGroup]]
         \/ /\ "no target" \in Failures /\ w = Reminder /\ UNCHANGED group /\ Return(w)
      /\ UNCHANGED <<alert, todo, events, acked>>

\* A delivery that raises: the group stays in the queue for the next run.
DeliverRaises(w) ==
  /\ proc[w].pc = "deliver" /\ "raise" \in Failures /\ events < MaxEvents
  /\ events' = events + 1
  /\ Return(w)
  /\ UNCHANGED <<alert, group, todo, acked>>

\* mark_alert_group_notification_sent, increment_group_reminder: the worker's copy.
Mark(w) ==
  LET p == proc[w]
  IN  /\ p.pc = "mark"
      /\ SaveRow(p.group, IF w = Queue THEN Sent(p.copy) ELSE [p.copy EXCEPT !.notified = TRUE])
      /\ Return(w)
      /\ UNCHANGED <<alert, todo, events, acked>>

\* clear_alert_group_notification on the worker's copy.
Clear ==
  LET p == proc[Queue]
  IN  /\ p.pc = "clear"
      /\ SaveRow(p.group, Cleared(p.copy))
      /\ NextGroup
      /\ UNCHANGED <<alert, todo, events, acked>>

-----------------------------------------------------------------------------
(* The reminder worker *)

\* The reload of a selected firing group and the conditions for a reminder.
Remind(g) ==
  /\ proc[Reminder].pc = "idle" /\ MayStart
  /\ group[g].status = "firing" /\ group[g].due = 0 /\ group[g].notified
  /\ proc' = [proc EXCEPT ![Reminder] =
       [IdleProc EXCEPT !.pc = "send", !.group = g, !.copy = group[g]]]
  /\ UNCHANGED <<alert, group, todo, events, acked>>

-----------------------------------------------------------------------------

IntakeStep(i) ==
  \/ FindGroup(i) \/ UpdateAlert(i) \/ SaveGroup(i) \/ SaveAlert(i)
  \/ Count(i) \/ Recalculate(i) \/ Enqueue(i) \/ Notice(i)
  \/ AddChild(i) \/ AddChildLocked(i) \/ EnqueueNew(i)

QueueStep ==
  \/ SelectDue
  \/ \E g \in Groups : Reload(g)
  \/ Count(Queue) \/ Recalculate(Queue) \/ Send(Queue) \/ Deliver(Queue)
  \/ DeliverRaises(Queue) \/ Mark(Queue) \/ Clear

\* A reminder that has been started
ReminderRuns == Send(Reminder) \/ Deliver(Reminder) \/ DeliverRaises(Reminder) \/ Mark(Reminder)

ReminderStep == ReminderRuns \/ \E g \in Groups : Remind(g)

Next ==
  \/ \E i \in Intakes, k \in Keys, e \in Payloads : Arrive(i, k, e)
  \/ \E i \in Intakes : IntakeStep(i)
  \/ \E g \in Groups : Acknowledge(g) \/ Resolve(g)
  \/ QueueStep
  \/ ReminderStep

Spec == Init /\ [][Next]_vars

\* A request runs to its end and the scheduler keeps starting its jobs.  The
\* jobs share MaxInFlight with the requests, hence the strong fairness.
FairSpec ==
  /\ Spec
  /\ \A i \in Intakes : WF_vars(IntakeStep(i))
  /\ SF_vars(QueueStep)
  /\ WF_vars(ReminderRuns)

-----------------------------------------------------------------------------
(* Properties *)

\* A group's status follows from its children: it is resolved exactly when all of
\* them are, it fires only if one fires, and it is silenced only if none fires
\* and one is silenced.
Agrees(g) ==
  LET s == ChildStatuses(g)
  IN  /\ group[g].status = "none" <=> s = {}
      /\ group[g].status = "resolved" <=> s = {"resolved"}
      /\ group[g].status = "firing" => "firing" \in s
      /\ group[g].status = "silenced" => "silenced" \in s /\ "firing" \notin s

\* A handler has changed an alert, or may have, and not yet recalculated its group.
Updating(p, g) ==
  proc[p].pc \in {"saveGroup", "saveAlert", "count", "recalculate"} /\ proc[p].group = g

\* Statuses agree but in the group a handler is updating, and so between handlers;
\* an acknowledged group does not fire until a new alert does.
StatusAgrees ==
  \A g \in Groups :
    /\ Agrees(g) \/ \E p \in Procs : Updating(p, g)
    /\ acked[g] => group[g].status # "firing"

\* find_existing_alert and find_open_alert_group: a dedup key has one open
\* alert and the grouping identity one open group.
NoDuplicates ==
  /\ \A a, b \in Alerts : OpenAlert(a) /\ OpenAlert(b) /\ alert[a].key = alert[b].key => a = b
  /\ \A g, h \in Groups : OpenGroup(g) /\ OpenGroup(h) => g = h

\* What a handler that runs alone knows: its copies have the status of the rows,
\* and what it looked for is still what it found.
HandlerAgrees(p) ==
  LET r == proc[p]
  IN  /\ r.pc \in {"idle", "group", "add"} \/ r.group # 0
      /\ r.pc \in {"group", "updateAlert"} =>
           /\ r.event \in {"firing", "resolved"}
           /\ r.alert # 0 => OpenAlert(r.alert)
      /\ r.pc \in {"group", "add"} /\ r.alert = 0 =>
           \A a \in Alerts : OpenAlert(a) => alert[a].key # r.key
      /\ r.pc \in {"updateAlert", "saveGroup", "saveAlert"} =>
           r.alert # 0 /\ r.group = alert[r.alert].group
      /\ r.pc \in {"group", "updateAlert", "saveGroup", "saveAlert"} /\ r.alert # 0 =>
           r.status = alert[r.alert].status /\ r.status # "none"
      /\ r.pc = "add" =>
           /\ r.alert = 0 /\ r.event \in {"firing", "silenced"}
           /\ \A g \in Groups : OpenGroup(g) <=> g = r.group
      /\ r.pc \in {"updateAlert", "saveGroup", "saveAlert", "count", "recalculate"} =>
           /\ OpenGroup(r.group) /\ ChildStatuses(r.group) # {}
           /\ group[r.group].status = "silenced" => "firing" \notin ChildStatuses(r.group)
      /\ r.pc \notin {"idle", "group", "recalculate"} /\ r.group # 0 =>
           r.copy.status = group[r.group].status
      /\ r.pc = "recalculate" =>
           r.copy.status = Recalculated(group[r.group].status, ChildStatuses(r.group))
      /\ r.pc = "deliver" => r.sending.status = group[r.group].status

\* Handlers run one at a time, and an alert is in a group.
Sequential ==
  /\ \A p, q \in Procs : Busy(p) /\ Busy(q) => p = q
  /\ \A p \in Procs : HandlerAgrees(p)
  /\ \A a \in Alerts : alert[a].status # "none" => alert[a].group # 0

\* Every handler of lifecycle.py, run alone, leaves well-typed rows whose
\* statuses agree, and no second open alert or group.
AlertInv == TypeOK /\ StatusAgrees /\ NoDuplicates /\ Sequential

\* What overlapping handlers leave alone, if alerts are resolved by operators only
\* and between handlers: an open alert and its open group need each other, and a
\* handler's copies, whatever they have missed, are of an open alert and group.
HandlerOpen(p) ==
  LET r == proc[p]
  IN  /\ r.event # "resolved" /\ (r.pc \in {"group", "updateAlert"} => r.event = "firing")
      /\ r.pc \in {"updateAlert", "saveGroup", "saveAlert"} => r.alert # 0
      /\ r.alert # 0 => r.pc # "idle" /\ OpenAlert(r.alert) /\ r.status \notin {"none", "resolved"}
      /\ r.pc \notin {"idle", "group", "add"} =>
           r.group # 0 /\ OpenGroup(r.group) /\ r.copy.status \notin {"none", "resolved"}
      /\ r.pc = "deliver" => r.sending.status \notin {"none", "resolved"}

OpenTogether ==
  /\ \A a \in Alerts : OpenAlert(a) => alert[a].group # 0 /\ OpenGroup(alert[a].group)
  /\ \A g \in Groups : OpenGroup(g) => \E a \in Alerts : OpenAlert(a) /\ alert[a].group = g
  /\ \A g \in Groups : group[g].due # 0 => OpenGroup(g)

OverlapInv == TypeOK /\ NoDuplicates /\ OpenTogether /\ \A p \in Procs : HandlerOpen(p)

\* What notification_queue.py says of its reload of the group: a stale firing copy
\* of the queue worker does not overwrite an acknowledgement.
WorkerKeepsAck ==
  [][\A g \in Groups : group[g].status = "acknowledged" /\ group'[g].status = "firing" =>
       proc'[Queue] = proc[Queue]]_vars

\* A resolved alert is a final occurrence: it never becomes open again.
ResolvedFinal ==
  [][\A a \in Alerts : alert[a].status = "resolved" => alert'[a].status = "resolved"]_vars

\* A group that fires and was never notified is paged, unless it stops firing.
FirstPage ==
  \A g \in Groups :
    group[g].status = "firing" /\ ~group[g].notified
      ~> group[g].notified \/ group[g].status # "firing"

\* Whatever the handlers overlap, a queued notification leaves the queue.
QueueDrains == \A g \in Groups : group[g].due # 0 ~> group[g].due = 0

=============================================================================
