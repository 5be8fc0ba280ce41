------------------------------ MODULE Recovery ------------------------------
(***************************************************************************)
(* Delayed recovery delivery (RECOVERY_NOTIFICATION_DELAY_SECONDS > 0):    *)
(* schedule_recovery_notification and _process_due_recovery of             *)
(* app/services/alerts/notification_queue.py, its caller at the end of     *)
(* _handle_existing_alert (lifecycle.py), and the cancellation in          *)
(* restart_resolved_group (reopen.py).                                     *)
(*                                                                         *)
(* One alert group.  A resolution is numbered by its resolved_at.  The     *)
(* request that resolves the group first saves it, then queues the         *)
(* recovery with a conditional UPDATE; it may die in between.  The queue   *)
(* workers select due groups and process each in a transaction that holds  *)
(* the grouping and the row lock during the sends: the transaction is one  *)
(* step, or it is rolled back after some messages have left (Abort).       *)
(* Only the firing branch of the worker works on a row it read before, and *)
(* saves all of it (AlertGroup.tla has that branch in full).               *)
(***************************************************************************)
EXTENDS Naturals, FiniteSets, FiniteSetsExt

CONSTANTS
  Targets,      \* channels, the user rules, stakeholder emails and pushes
  Workers,      \* runs of process_due_alert_group_notifications
  Delay,        \* RECOVERY_NOTIFICATION_DELAY_SECONDS
  RetryBase,    \* RECOVERY_RETRY_BASE_SECONDS
  RetryMax,     \* RECOVERY_RETRY_MAX_SECONDS
  MaxAttempts,  \* RECOVERY_MAX_ATTEMPTS
  MaxCycles,    \* bound on the resolutions
  MaxAborts     \* bound on the transactions that are rolled back

ASSUME RecoveryAssumption ==
  /\ Delay \in Nat \ {0} /\ RetryBase \in Nat \ {0} /\ RetryMax \in Nat \ {0}
  /\ MaxAttempts \in Nat \ {0}
  /\ MaxCycles \in Nat /\ MaxAborts \in Nat
  /\ \A n \in 0 .. MaxAttempts : 2^n \in Nat   \* arithmetic the provers do not have

VARIABLES
  now,       \* the clock; it only advances while a deadline lies ahead
  cycles,    \* resolutions so far
  group,     \* status, resolved_at (0 for NULL), notification_reason, notification_due_at
  ledger,    \* RecoveryNotificationDelivery, per resolution and target
  resolver,  \* the resolved_at the request is about to queue, or 0
  worker,    \* per worker: its clock, the due time it selected, a row it reloaded
  queued,    \* history: when the recovery of a resolution was queued, plus Delay
  sends,     \* history: messages that left, per resolution and target
  aborts     \* rollbacks left

vars == <<now, cycles, group, ledger, resolver, worker, queued, sends, aborts>>

Cycles == 1 .. MaxCycles

Reasons == {"none", "firing", "recovery"}
Final == {"sent", "skipped", "failed", "cancelled"}

GroupRow == [status : {"firing", "resolved"}, cycle : Cycles \cup {0}, reason : Reasons, due : Nat]

NoRow == [status |-> "absent", attempts |-> 0, next |-> 0]

Firing(reason) == [status |-> "firing", cycle |-> 0, reason |-> reason, due |-> 0]

Idle == [pc |-> "idle", at |-> 0, due |-> 0, copy |-> Firing("none")]

LedgerRow == [status : {"absent", "pending"} \cup Final, attempts : 0 .. MaxAttempts, next : Nat]

WorkerState == [pc : {"idle", "due", "save"}, at : Nat, due : Nat, copy : GroupRow]

TypeOK ==
  /\ now \in Nat /\ cycles \in 0 .. MaxCycles /\ aborts \in 0 .. MaxAborts
  /\ group \in GroupRow
  /\ ledger \in [Cycles -> [Targets -> LedgerRow]]
  /\ resolver \in Cycles \cup {0}
  /\ worker \in [Workers -> WorkerState]
  /\ queued \in [Cycles -> Nat]
  /\ sends \in [Cycles -> [Targets -> Nat]]

Init ==
  /\ now = 0 /\ cycles = 0 /\ aborts = MaxAborts
  /\ group \in {Firing("none"), Firing("firing")}
  /\ ledger = [c \in Cycles |-> [t \in Targets |-> NoRow]]
  /\ resolver = 0
  /\ worker = [w \in Workers |-> Idle]
  /\ queued = [c \in Cycles |-> 0]
  /\ sends = [c \in Cycles |-> [t \in Targets |-> 0]]

-----------------------------------------------------------------------------
(* Requests *)

\* clear_alert_group_notification.
Cleared(row) == [row EXCEPT !.reason = "none", !.due = 0]

\* The last child resolves: recalculate_alert_group sets resolved_at and saves.
Resolve ==
  /\ group.status = "firing" /\ resolver = 0 /\ cycles < MaxCycles
  /\ cycles' = cycles + 1
  /\ group' = [group EXCEPT !.status = "resolved", !.cycle = cycles + 1]
  /\ resolver' = cycles + 1
  /\ UNCHANGED <<now, ledger, worker, queued, sends, aborts>>

\* The WHERE of schedule_recovery_notification.
Queueable(c) ==
  group.status = "resolved" /\ group.cycle = c /\ group.reason # "recovery"

ScheduleRecovery ==
  /\ resolver # 0
  /\ group' = IF Queueable(resolver)
              THEN [group EXCEPT !.reason = "recovery", !.due = now + Delay] ELSE group
  /\ queued' = IF Queueable(resolver) THEN [queued EXCEPT ![resolver] = now + Delay] ELSE queued
  /\ resolver' = 0
  /\ UNCHANGED <<now, cycles, ledger, worker, sends, aborts>>

\* The request dies after the save.
ResolverDies ==
  /\ resolver # 0
  /\ resolver' = 0
  /\ UNCHANGED <<now, cycles, group, ledger, worker, queued, sends, aborts>>

\* resolve_alert: an operator resolves and is told at once.
ResolveByHand ==
  /\ group.status = "firing" /\ cycles < MaxCycles
  /\ cycles' = cycles + 1
  /\ group' = [Cleared(group) EXCEPT !.status = "resolved", !.cycle = cycles + 1]
  /\ UNCHANGED <<now, ledger, resolver, worker, queued, sends, aborts>>

\* Variant of the reopen that forgets the ledger.
CancelledNothing(rows) == rows

\* The UPDATE of the pending rows of the old resolution.
CancelledRows(rows) ==
  [t \in Targets |-> IF rows[t].status = "pending" THEN [rows[t] EXCEPT !.status = "cancelled"]
                                                   ELSE rows[t]]

\* restart_resolved_group, then the new child may queue a firing notification.
Reopen ==
  /\ group.status = "resolved"
  /\ \E reason \in {"none", "firing"} : group' = Firing(reason)
  /\ ledger' = IF group.reason = "recovery"
               THEN [ledger EXCEPT ![group.cycle] = CancelledRows(@)] ELSE ledger
  /\ UNCHANGED <<now, cycles, resolver, worker, queued, sends, aborts>>

-----------------------------------------------------------------------------
(* The queue worker *)

\* list_due_alert_group_notifications; the job's clock is read once.
SelectDue(w) ==
  /\ worker[w].pc = "idle"
  /\ group.reason # "none" /\ group.due <= now
  /\ worker' = [worker EXCEPT ![w] =
       IF group.reason = "recovery"
       THEN [pc |-> "due", at |-> now, due |-> group.due, copy |-> Firing("recovery")]
       ELSE [pc |-> "due", at |-> 0, due |-> 0, copy |-> Firing("firing")]]
  /\ UNCHANGED <<now, cycles, group, ledger, resolver, queued, sends, aborts>>

Leave(w) == worker' = [worker EXCEPT ![w] = Idle]

\* A selected firing notification: the row is reloaded, and left alone if it no
\* longer carries that entry.
ReloadFiring(w) ==
  /\ worker[w].pc = "due" /\ worker[w].copy.reason = "firing"
  /\ \/ group.reason = "firing" /\ worker' = [worker EXCEPT ![w].pc = "save", ![w].copy = group]
     \/ group.reason # "firing" /\ Leave(w)
  /\ UNCHANGED <<now, cycles, group, ledger, resolver, queued, sends, aborts>>

\* mark_alert_group_notification_sent or clear_alert_group_notification saves
\* every column of the row the worker read before the delivery.
SaveFiring(w) ==
  /\ worker[w].pc = "save"
  /\ group' = Cleared(worker[w].copy)
  /\ Leave(w)
  /\ UNCHANGED <<now, cycles, ledger, resolver, queued, sends, aborts>>

\* Variants: the selected row is trusted, or the due time excluded.
StillDueSelected(w) == group.status = "resolved"

StillDueLater(w) ==
  /\ group.status = "resolved" /\ group.reason = "recovery"
  /\ group.due < worker[w].at /\ group.due = worker[w].due

\* The conditions tested under the locks of _process_due_recovery.
StillDue(w) ==
  /\ group.status = "resolved" /\ group.reason = "recovery"
  /\ group.due <= worker[w].at /\ group.due = worker[w].due

\* Variant that takes new recipients in at every attempt.
SnapshotAlways(rows, audience, at) ==
  [t \in Targets |-> IF t \in audience /\ rows[t].status = "absent"
                     THEN [status |-> "pending", attempts |-> 0, next |-> at] ELSE rows[t]]

\* _snapshot_recovery_targets: the audience the recovery has at that moment, and
\* only if the resolution has no row yet.
Snapshot(rows, audience, at) ==
  IF \E t \in Targets : rows[t].status # "absent" THEN rows
  ELSE [t \in Targets |-> IF t \in audience THEN [status |-> "pending", attempts |-> 0, next |-> at]
                                            ELSE NoRow]

\* Seconds to the next attempt after n failed ones.
Backoff(n) == LET d == RetryBase * 2^(n - 1) IN IF d > RetryMax THEN RetryMax ELSE d

\* _try_recovery_target.
Tried(row, outcome, at) ==
  LET n == row.attempts + 1
  IN  IF outcome # "raise" THEN [status |-> outcome, attempts |-> n, next |-> row.next]
      ELSE IF n >= MaxAttempts THEN [status |-> "failed", attempts |-> n, next |-> row.next]
      ELSE [status |-> row.status, attempts |-> n, next |-> at + Backoff(n)]

\* Variant of the loop's condition that tries every row again.
DueRowsAll(rows, at) == {t \in Targets : rows[t].status \notin {"absent", "failed"}}

\* The rows the loop tries.
DueRows(rows, at) == {t \in Targets : rows[t].status = "pending" /\ rows[t].next <= at}

\* The rows that keep the recovery in the queue.
Unfinished(rows) == {t \in Targets : rows[t].status = "pending"}

\* The transaction commits: the rest of the queue entry follows from the rows.
\* A target may raise, or be skipped because it is no longer a recipient.
ProcessRecovery(w, audience) ==
  LET c == group.cycle
      at == worker[w].at
      rows == Snapshot(ledger[c], audience, at)
      due == DueRows(rows, at)
  IN  /\ worker[w].pc = "due" /\ worker[w].copy.reason = "recovery" /\ StillDue(w)
      /\ \E o \in [due -> {"sent", "skipped", "raise"}] :
           LET new == [t \in Targets |-> IF t \in due THEN Tried(rows[t], o[t], at) ELSE rows[t]]
               left == Unfinished(new)
           IN  /\ ledger' = [ledger EXCEPT ![c] = new]
               /\ sends' = [sends EXCEPT ![c] =
                    [t \in Targets |-> IF t \in due /\ o[t] = "sent" THEN @[t] + 1 ELSE @[t]]]
               /\ group' = IF left = {} THEN Cleared(group)
                           ELSE [group EXCEPT !.due = Min({new[t].next : t \in left})]
      /\ Leave(w)
      /\ UNCHANGED <<now, cycles, resolver, queued, aborts>>

\* A selected group that is no longer due.
SkipRecovery(w) ==
  /\ worker[w].pc = "due" /\ worker[w].copy.reason = "recovery" /\ ~StillDue(w)
  /\ Leave(w)
  /\ UNCHANGED <<now, cycles, group, ledger, resolver, queued, sends, aborts>>

\* The transaction is lost after some targets took the message.
Abort(w, audience) ==
  LET c == group.cycle
      due == DueRows(Snapshot(ledger[c], audience, worker[w].at), worker[w].at)
  IN  /\ worker[w].pc = "due" /\ worker[w].copy.reason = "recovery" /\ StillDue(w)
      /\ aborts > 0 /\ aborts' = aborts - 1
      /\ \E S \in SUBSET due :
           sends' = [sends EXCEPT ![c] = [t \in Targets |-> IF t \in S THEN @[t] + 1 ELSE @[t]]]
      /\ Leave(w)
      /\ UNCHANGED <<now, cycles, group, ledger, resolver, queued>>

\* Time passes while a deadline lies ahead.
Tick ==
  /\ group.reason = "recovery" /\ group.due > now
  /\ now' = now + 1
  /\ UNCHANGED <<cycles, group, ledger, resolver, worker, queued, sends, aborts>>

-----------------------------------------------------------------------------

WorkerStep(w) ==
  \/ SelectDue(w) \/ ReloadFiring(w) \/ SaveFiring(w) \/ SkipRecovery(w)
  \/ \E audience \in SUBSET Targets : ProcessRecovery(w, audience)

Next ==
  \/ Resolve \/ ScheduleRecovery \/ ResolverDies \/ ResolveByHand \/ Reopen \/ Tick
  \/ \E w \in Workers : WorkerStep(w)
  \/ \E w \in Workers, audience \in SUBSET Targets : Abort(w, audience)

Spec == Init /\ [][Next]_vars

\* The scheduler keeps running the job and the clock runs.  Nothing is assumed
\* of requests, operators and rollbacks.
FairSpec == Spec /\ WF_vars(Tick) /\ \A w \in Workers : WF_vars(WorkerStep(w))

-----------------------------------------------------------------------------
(* Properties *)

\* A queued recovery belongs to a resolved group, and no target is tried more
\* than MaxAttempts times.
QueueAgrees ==
  /\ group.reason = "recovery" => group.status = "resolved"
  /\ \A c \in Cycles, t \in Targets :
       ledger[c][t].status = "pending" => ledger[c][t].attempts < MaxAttempts

\* A resolved row, the group's or one a worker read, carries the resolved_at of
\* a resolution that happened.
CycleAgrees ==
  /\ group.status = "resolved" => group.cycle \in 1 .. cycles
  /\ \A w \in Workers : worker[w].copy.status = "resolved" => worker[w].copy.cycle \in 1 .. cycles

\* A resolution is queued by its own request, at most once; it has ledger rows
\* only from then on, and neither its queue entry nor a pending row is due
\* before the delay has passed.
DelayKept ==
  /\ resolver # 0 => resolver <= cycles /\ queued[resolver] = 0
  /\ \A c \in Cycles : c > cycles => queued[c] = 0
  /\ group.reason = "recovery" => queued[group.cycle] \in 1 .. group.due
  /\ \A c \in Cycles, t \in Targets :
       /\ ledger[c][t].status # "absent" => queued[c] > 0
       /\ ledger[c][t].status = "pending" => queued[c] <= ledger[c][t].next
  /\ \A w \in Workers : worker[w].at <= now

\* Only a rolled back transaction repeats a message ("A committed successful
\* target is never retried"): a target gets at most as many as there were
\* rollbacks, and one more once its row says sent.
AtLeastOnceOnly ==
  \A c \in Cycles, t \in Targets :
    sends[c][t] <= (IF ledger[c][t].status = "sent" THEN 1 ELSE 0) + (MaxAborts - aborts)

\* The recovery ledger of notification_queue.py agrees with the group row, with
\* the delay and with the messages that left.
RecoveryInv == TypeOK /\ QueueAgrees /\ CycleAgrees /\ DelayKept /\ AtLeastOnceOnly

\* The recovery of a resolution leaves only if that resolution's recovery was
\* queued, its delay has passed, and the group has not been reopened since,
\* whatever a worker had selected before (the locks of _process_due_recovery).
NoStaleRecovery ==
  [][\A c \in Cycles : sends'[c] # sends[c] =>
       group.status = "resolved" /\ group.cycle = c /\ queued[c] \in 1 .. now]_vars

\* A queued recovery leaves the queue only when every recipient has its final
\* status or the group is reopened and the pending recipients are cancelled;
\* the one exception is a worker that saves the firing row it had read before.
RecoveryKept ==
  [][group.reason = "recovery" /\ group'.reason # "recovery" =>
       \/ \A t \in Targets : ledger'[group.cycle][t].status # "pending"
       \/ \E w \in Workers : worker[w].pc = "save" /\ worker'[w].pc = "idle"]_vars

\* A queued recovery is completed or withdrawn, however its targets fail.
RecoverySettles == group.reason = "recovery" ~> group.reason # "recovery"

\* Delayed recovery delivery implements what it promises.
Promise == INSTANCE RecoveryPromise WITH
  Resolutions <- Cycles, NoResolution <- 0,
  open <- IF group.reason = "recovery" THEN group.cycle ELSE 0,
  roster <- [c \in Cycles |-> {t \in Targets : ledger[c][t].status # "absent"}],
  reached <- [c \in Cycles |-> {t \in Targets : ledger[c][t].status = "sent"}]

\* Recipients are frozen at the first due time, told at most once, and only
\* while the recovery is open (_snapshot_recovery_targets, _try_recovery_target).
KeepsPromise == Promise!Spec

=============================================================================
