---------------------------- MODULE DeliveryProofs ----------------------------
(***************************************************************************)
(* The two queues of MCDelivery.                                           *)
(*                                                                         *)
(* For every set of targets and workers, every delay, backoff and limit:   *)
(* the recovery ledger agrees with the group row and the messages that     *)
(* left, no recovery leaves early or for a reopened group, none is lost    *)
(* but by the save of a stale firing row, and delayed recovery delivery    *)
(* implements RecoveryPromise.                                             *)
(*                                                                         *)
(* For every number of deliveries, requests, runs of the job, faults and   *)
(* expired leases: how often rules.py sends a delivery, and that a         *)
(* resolved message belongs to the resolution the group is in.             *)
(***************************************************************************)
EXTENDS MCDelivery, TLAPS, WellFoundedInduction

-----------------------------------------------------------------------------
(* The recovery ledger *)

\* min(row.next_attempt_at for row in pending): a set of times has a least one.
LEMMA LeastTime ==
  ASSUME NEW S \in SUBSET Nat, S # {}
  PROVE  Min(S) \in S /\ \A y \in S : Min(S) <= y
<1>1. PICK x \in S : \A y \in S : <<y, x>> \notin OpToRel(<, Nat)
  BY WFMin, NatLessThanWellFounded, Zenon
<1>2. ASSUME NEW y \in S, y < x PROVE <<y, x>> \in OpToRel(<, Nat)
  BY <1>2, Zenon DEF OpToRel
<1>3. \A y \in S : ~ (y < x)
  BY <1>1, <1>2, Zenon
<1>4. \A y \in S : x <= y
  BY <1>3, SMT
<1> QED BY <1>4 DEF Min

\* A delivery no target has, a firing group and an idle worker are well typed.
LEMMA Blanks ==
  /\ NoRow \in LedgerRow /\ Idle \in WorkerState
  /\ \A reason \in Reasons : Firing(reason) \in GroupRow
BY RecoveryAssumption
   DEF NoRow, LedgerRow, Final, Idle, WorkerState, Firing, GroupRow, Reasons

\* clear_alert_group_notification leaves the status and resolved_at alone.
LEMMA ClearedRow ==
  ASSUME NEW row \in GroupRow
  PROVE  /\ Cleared(row) \in GroupRow /\ Cleared(row).reason = "none"
         /\ Cleared(row).status = row.status /\ Cleared(row).cycle = row.cycle
BY DEF Cleared, GroupRow, Reasons

\* _snapshot_recovery_targets only inserts pending rows that are due at once, and
\* nothing at all when the resolution has a row.
LEMMA SnapshotRows ==
  ASSUME NEW rows \in [Targets -> LedgerRow], NEW audience, NEW at \in Nat
  PROVE  LET new == Snapshot(rows, audience, at)
         IN  /\ new \in [Targets -> LedgerRow]
             /\ (\E t \in Targets : rows[t].status # "absent") => new = rows
             /\ \A t \in Targets :
                  \/ new[t] = rows[t]
                  \/ /\ rows[t].status = "absent"
                     /\ new[t] \in {NoRow, [status |-> "pending", attempts |-> 0, next |-> at]}
<1>1. [status |-> "pending", attempts |-> 0, next |-> at] \in LedgerRow
  BY RecoveryAssumption DEF LedgerRow
<1>2. CASE \E t \in Targets : rows[t].status # "absent"
  BY <1>2 DEF Snapshot
<1>3. CASE \A t \in Targets : rows[t].status = "absent"
  BY <1>1, <1>3, Blanks DEF Snapshot
<1> QED BY <1>2, <1>3

\* The retry delay is a time (retry_seconds).
LEMMA BackoffType == ASSUME NEW n \in 1 .. MaxAttempts PROVE Backoff(n) \in Nat
<1>1. n - 1 \in 0 .. MaxAttempts
  BY RecoveryAssumption
<1>2. 2^(n - 1) \in Nat
  BY <1>1, RecoveryAssumption
<1>3. \A m \in Nat : RetryBase * m \in Nat
  BY RecoveryAssumption
<1>4. RetryBase * 2^(n - 1) \in Nat
  BY <1>2, <1>3
<1> QED BY <1>4, RecoveryAssumption DEF Backoff

\* _try_recovery_target: a tried row is sent exactly if the target took the
\* message, and pending only with attempts left and a later time.
LEMMA TriedRow ==
  ASSUME NEW row \in LedgerRow, row.attempts < MaxAttempts, row.status = "pending",
         NEW outcome \in {"sent", "skipped", "raise"}, NEW at \in Nat
  PROVE  /\ Tried(row, outcome, at) \in LedgerRow
         /\ Tried(row, outcome, at).status # "absent"
         /\ Tried(row, outcome, at).status = "sent" <=> outcome = "sent"
         /\ Tried(row, outcome, at).status = "pending" =>
              Tried(row, outcome, at).attempts < MaxAttempts /\ Tried(row, outcome, at).next >= at
<1> DEFINE n == row.attempts + 1
<1>1. n \in 1 .. MaxAttempts /\ n \in 0 .. MaxAttempts
  BY RecoveryAssumption DEF LedgerRow
<1>2. Backoff(n) \in Nat
  BY <1>1, BackoffType
<1>3. at + Backoff(n) \in Nat /\ at + Backoff(n) >= at
  BY <1>2
<1>4. row.next \in Nat
  BY DEF LedgerRow
<1> HIDE DEF n
<1>5. Tried(row, outcome, at) =
        IF outcome # "raise" THEN [status |-> outcome, attempts |-> n, next |-> row.next]
        ELSE IF n >= MaxAttempts THEN [status |-> "failed", attempts |-> n, next |-> row.next]
        ELSE [status |-> "pending", attempts |-> n, next |-> at + Backoff(n)]
  BY Zenon DEF Tried, n
<1> QED BY <1>1, <1>3, <1>4, <1>5, RecoveryAssumption DEF LedgerRow, Final

\* Nothing is queued and nothing has left in the initial state.
LEMMA InitRecovery == Init => RecoveryInv
<1> SUFFICES ASSUME Init PROVE RecoveryInv
  OBVIOUS
<1>1. TypeOK
  BY Blanks, RecoveryAssumption DEF Init, TypeOK, Reasons
<1>2. QueueAgrees /\ CycleAgrees
  BY DEF Init, QueueAgrees, CycleAgrees, NoRow, Idle, Firing
<1>3. DelayKept /\ AtLeastOnceOnly
  BY RecoveryAssumption DEF Init, DelayKept, AtLeastOnceOnly, NoRow, Idle, Firing
<1> QED BY <1>1, <1>2, <1>3 DEF RecoveryInv

\* The requests that resolve, queue and reopen keep the invariant.
LEMMA RequestStep ==
  ASSUME RecoveryInv, Resolve \/ ScheduleRecovery \/ ResolverDies \/ ResolveByHand \/ Reopen \/ Tick
  PROVE  RecoveryInv'
<1>0. TypeOK /\ QueueAgrees /\ CycleAgrees /\ DelayKept /\ AtLeastOnceOnly
  BY DEF RecoveryInv
<1>1. CASE Resolve
  <2>0. cycles + 1 \in Cycles /\ cycles \in Nat
    BY <1>0, <1>1, RecoveryAssumption DEF Resolve, TypeOK, Cycles
  <2>1. /\ cycles + 1 \in Cycles /\ cycles \in Nat
        /\ group' \in GroupRow /\ group'.status = "resolved" /\ group'.cycle = cycles + 1
        /\ group'.reason # "recovery"
    BY <1>0, <1>1, <2>0 DEF Resolve, TypeOK, GroupRow, QueueAgrees
  <2>2. TypeOK'
    BY <1>0, <1>1, <2>1 DEF Resolve, TypeOK, Cycles
  <2>3. QueueAgrees' /\ CycleAgrees'
    BY <1>0, <1>1, <2>1, <2>2 DEF Resolve, TypeOK, QueueAgrees, CycleAgrees, Cycles
  <2>4. DelayKept' /\ AtLeastOnceOnly'
    BY <1>0, <1>1, <2>1 DEF Resolve, TypeOK, DelayKept, AtLeastOnceOnly, Cycles
  <2> QED BY <2>2, <2>3, <2>4 DEF RecoveryInv
<1>2. CASE ScheduleRecovery
  <2>1. CASE Queueable(resolver)
    <3>1. /\ resolver \in Cycles /\ resolver <= cycles /\ group.cycle = resolver
          /\ now + Delay \in Nat /\ now + Delay >= 1
      BY <1>0, <1>2, <2>1, RecoveryAssumption
         DEF ScheduleRecovery, TypeOK, Cycles, DelayKept, Queueable
    <3>2. /\ group' \in GroupRow /\ group'.status = "resolved" /\ group'.cycle = resolver
          /\ group'.due = now + Delay
      BY <1>0, <1>2, <2>1, <3>1 DEF ScheduleRecovery, TypeOK, GroupRow, Queueable, Reasons
    <3>3. queued' = [queued EXCEPT ![resolver] = now + Delay]
      BY <1>2, <2>1 DEF ScheduleRecovery
    <3>4. \A t \in Targets : ledger[resolver][t].status = "absent"
      BY <1>0, <1>2, <3>1 DEF ScheduleRecovery, DelayKept, TypeOK
    <3>5. TypeOK'
      BY <1>0, <1>2, <3>1, <3>2, <3>3 DEF ScheduleRecovery, TypeOK
    <3>6. QueueAgrees' /\ CycleAgrees' /\ AtLeastOnceOnly'
      BY <1>0, <1>2, <3>1, <3>2 DEF ScheduleRecovery, TypeOK, QueueAgrees, CycleAgrees,
                                    AtLeastOnceOnly, Cycles
    <3>7. DelayKept'
      <4>1. \A c \in Cycles : c > cycles => queued'[c] = 0
        BY <1>0, <3>1, <3>3 DEF TypeOK, DelayKept, Cycles
      <4>2. \A c \in Cycles, t \in Targets :
              /\ ledger[c][t].status # "absent" => queued'[c] > 0
              /\ ledger[c][t].status = "pending" => queued'[c] <= ledger[c][t].next
        BY <1>0, <3>1, <3>3, <3>4 DEF TypeOK, DelayKept
      <4>3. queued'[group'.cycle] \in 1 .. group'.due
        BY <1>0, <3>1, <3>2, <3>3 DEF TypeOK
      <4> QED BY <1>0, <1>2, <4>1, <4>2, <4>3 DEF ScheduleRecovery, DelayKept
    <3> QED BY <3>5, <3>6, <3>7 DEF RecoveryInv
  <2>2. CASE ~Queueable(resolver)
    BY <1>0, <1>2, <2>2 DEF ScheduleRecovery, RecoveryInv, TypeOK, QueueAgrees, CycleAgrees,
                            DelayKept, AtLeastOnceOnly
  <2> QED BY <2>1, <2>2
<1>3. CASE ResolverDies
  BY <1>0, <1>3 DEF ResolverDies, RecoveryInv, TypeOK, QueueAgrees, CycleAgrees,
                    DelayKept, AtLeastOnceOnly
<1>4. CASE ResolveByHand
  <2>1. /\ cycles + 1 \in Cycles /\ cycles \in Nat
        /\ group' \in GroupRow /\ group'.status = "resolved" /\ group'.cycle = cycles + 1
        /\ group'.reason = "none"
    <3>1. cycles + 1 \in Cycles /\ cycles \in Nat
      BY <1>0, <1>4, RecoveryAssumption DEF ResolveByHand, TypeOK, Cycles
    <3>2. Cleared(group) \in GroupRow /\ Cleared(group).reason = "none"
      BY <1>0, ClearedRow DEF TypeOK
    <3> QED BY <1>4, <3>1, <3>2 DEF ResolveByHand, GroupRow
  <2>2. TypeOK'
    BY <1>0, <1>4, <2>1 DEF ResolveByHand, TypeOK, Cycles
  <2>3. QueueAgrees' /\ CycleAgrees'
    BY <1>0, <1>4, <2>1, <2>2 DEF ResolveByHand, TypeOK, QueueAgrees, CycleAgrees, Cycles
  <2>4. DelayKept' /\ AtLeastOnceOnly'
    BY <1>0, <1>4, <2>1 DEF ResolveByHand, TypeOK, DelayKept, AtLeastOnceOnly, Cycles
  <2> QED BY <2>2, <2>3, <2>4 DEF RecoveryInv
<1>5. CASE Reopen
  <2>1. group' \in GroupRow /\ group'.status = "firing" /\ group'.reason # "recovery"
    BY <1>5, Blanks DEF Reopen, Firing, Reasons
  <2>2. group.cycle \in Cycles
    BY <1>0, <1>5, RecoveryAssumption DEF Reopen, CycleAgrees, TypeOK, Cycles
  <2>3. ASSUME NEW c \in Cycles, NEW t \in Targets
        PROVE  /\ ledger'[c][t] \in LedgerRow
               /\ \/ ledger'[c][t] = ledger[c][t]
                  \/ ledger[c][t].status = "pending" /\ ledger'[c][t].status = "cancelled"
    <3>0. ledger[c][t] \in LedgerRow
      BY <1>0 DEF TypeOK
    <3>1. ledger[c][t] \in LedgerRow /\ [ledger[c][t] EXCEPT !.status = "cancelled"] \in LedgerRow
      BY <3>0 DEF LedgerRow, Final
    <3>2. [ledger[c][t] EXCEPT !.status = "cancelled"].status = "cancelled"
      BY <3>1 DEF LedgerRow
    <3>3. \/ ledger'[c][t] = ledger[c][t]
          \/ /\ ledger[c][t].status = "pending"
             /\ ledger'[c][t] = [ledger[c][t] EXCEPT !.status = "cancelled"]
      BY <1>0, <1>5, <2>2 DEF Reopen, CancelledRows, TypeOK
    <3> QED BY <3>1, <3>2, <3>3
  <2>4. TypeOK'
    <3>1. ledger' \in [Cycles -> [Targets -> LedgerRow]]
      <4>1. \A c \in Cycles : DOMAIN ledger'[c] = Targets /\ ledger'[c] = [t \in Targets |-> ledger'[c][t]]
        BY <1>0, <1>5, <2>2 DEF Reopen, CancelledRows, TypeOK
      <4>2. ledger' = [c \in Cycles |-> ledger'[c]]
        BY <1>0, <1>5, <2>2 DEF Reopen, TypeOK
      <4> QED BY <2>3, <4>1, <4>2
    <3> QED BY <1>0, <1>5, <2>1, <3>1 DEF Reopen, TypeOK
  <2>5. QueueAgrees' /\ CycleAgrees'
    BY <1>0, <1>5, <2>1, <2>3 DEF Reopen, QueueAgrees, CycleAgrees
  <2>6. DelayKept'
    BY <1>0, <1>5, <2>1, <2>3 DEF Reopen, DelayKept
  <2>7. AtLeastOnceOnly'
    BY <1>0, <1>5, <2>3 DEF Reopen, AtLeastOnceOnly
  <2> QED BY <2>4, <2>5, <2>6, <2>7 DEF RecoveryInv
<1>6. CASE Tick
  BY <1>0, <1>6 DEF Tick, RecoveryInv, TypeOK, QueueAgrees, CycleAgrees, DelayKept,
                    AtLeastOnceOnly, WorkerState
<1> QED BY <1>1, <1>2, <1>3, <1>4, <1>5, <1>6

\* What the locks of _process_due_recovery secure: the resolution is real, its
\* recovery was queued and its delay is over by the worker's clock.
LEMMA StillDueFacts ==
  ASSUME RecoveryInv, NEW w \in Workers, StillDue(w)
  PROVE  /\ group.cycle \in Cycles /\ group.cycle \in 1 .. cycles
         /\ group.status = "resolved" /\ group.reason = "recovery"
         /\ worker[w].at \in Nat /\ worker[w].at <= now
         /\ queued[group.cycle] \in 1 .. worker[w].at /\ queued[group.cycle] \in 1 .. now
<1>1. TypeOK /\ QueueAgrees /\ CycleAgrees /\ DelayKept
  BY DEF RecoveryInv
<1>2. group.cycle \in Cycles /\ group.cycle \in 1 .. cycles
  BY <1>1, RecoveryAssumption DEF StillDue, CycleAgrees, TypeOK, Cycles
<1>3. worker[w].at \in Nat /\ group.due \in Nat /\ now \in Nat /\ queued[group.cycle] \in Nat
  BY <1>1, <1>2 DEF TypeOK, WorkerState, GroupRow
<1> QED BY <1>1, <1>2, <1>3 DEF StillDue, DelayKept

\* The committed transaction of _process_due_recovery: notified are the targets that
\* took the message, new the rows of the resolution after it.
LEMMA Processed ==
  ASSUME RecoveryInv, NEW w \in Workers, NEW audience \in SUBSET Targets,
         ProcessRecovery(w, audience)
  PROVE  \E notified \in SUBSET Targets, new \in [Targets -> LedgerRow] :
           /\ ledger' = [ledger EXCEPT ![group.cycle] = new]
           /\ sends' = [sends EXCEPT ![group.cycle] = [t \in Targets |->
                           IF t \in notified THEN sends[group.cycle][t] + 1 ELSE sends[group.cycle][t]]]
           /\ \A t \in notified : ledger[group.cycle][t].status # "sent" /\ new[t].status = "sent"
           /\ \A t \in Targets \ notified : new[t].status = "sent" <=> ledger[group.cycle][t].status = "sent"
           /\ \A t \in Targets : ledger[group.cycle][t].status # "absent" => new[t].status # "absent"
           /\ (\E t \in Targets : ledger[group.cycle][t].status # "absent") =>
                \A t \in Targets : new[t].status # "absent" => ledger[group.cycle][t].status # "absent"
           /\ \A t \in Targets : new[t].status = "pending" =>
                new[t].attempts < MaxAttempts /\ queued[group.cycle] <= new[t].next
           /\ group' = IF Unfinished(new) = {} THEN Cleared(group)
                       ELSE [group EXCEPT !.due = Min({new[t].next : t \in Unfinished(new)})]
<1> DEFINE c == group.cycle
           at == worker[w].at
           rows == Snapshot(ledger[c], audience, at)
           due == DueRows(rows, at)
<1>1. TypeOK /\ QueueAgrees /\ DelayKept
  BY DEF RecoveryInv
<1>2. StillDue(w)
  BY DEF ProcessRecovery
<1>3. c \in Cycles /\ at \in Nat /\ queued[c] \in 1 .. at
  BY <1>2, StillDueFacts
<1>4. ledger[c] \in [Targets -> LedgerRow]
  BY <1>1, <1>3 DEF TypeOK
<1>5. /\ rows \in [Targets -> LedgerRow]
      /\ (\E t \in Targets : ledger[c][t].status # "absent") => rows = ledger[c]
      /\ \A t \in Targets :
           \/ rows[t] = ledger[c][t]
           \/ /\ ledger[c][t].status = "absent"
              /\ rows[t] \in {NoRow, [status |-> "pending", attempts |-> 0, next |-> at]}
  BY <1>3, <1>4, SnapshotRows
<1>6. PICK o \in [due -> {"sent", "skipped", "raise"}] :
        LET new == [t \in Targets |-> IF t \in due THEN Tried(rows[t], o[t], at) ELSE rows[t]]
            left == Unfinished(new)
        IN  /\ ledger' = [ledger EXCEPT ![c] = new]
            /\ sends' = [sends EXCEPT ![c] =
                 [t \in Targets |-> IF t \in due /\ o[t] = "sent" THEN sends[c][t] + 1 ELSE sends[c][t]]]
            /\ group' = IF left = {} THEN Cleared(group)
                        ELSE [group EXCEPT !.due = Min({new[t].next : t \in left})]
  BY <1>1, <1>3 DEF ProcessRecovery, TypeOK
<1> DEFINE new == [t \in Targets |-> IF t \in due THEN Tried(rows[t], o[t], at) ELSE rows[t]]
           notified == {t \in due : o[t] = "sent"}
<1>7. \A t \in Targets : rows[t].status = "pending" =>
        rows[t].attempts < MaxAttempts /\ queued[c] <= rows[t].next
  <2> SUFFICES ASSUME NEW t \in Targets, rows[t].status = "pending"
               PROVE  rows[t].attempts < MaxAttempts /\ queued[c] <= rows[t].next
    OBVIOUS
  <2>1. CASE rows[t] = ledger[c][t]
    BY <1>1, <1>3, <2>1 DEF QueueAgrees, DelayKept
  <2>2. CASE rows[t] = [status |-> "pending", attempts |-> 0, next |-> at]
    BY <1>3, <2>2, RecoveryAssumption
  <2>3. rows[t] # NoRow
    BY DEF NoRow
  <2> HIDE DEF rows
  <2> QED BY <1>5, <2>1, <2>2, <2>3
<1>8. due \in SUBSET Targets /\ \A t \in due : rows[t].status = "pending"
  BY DEF DueRows
<1>9. \A t \in due : o[t] \in {"sent", "skipped", "raise"}
  OBVIOUS
<1>10. ASSUME NEW t \in due
       PROVE  /\ Tried(rows[t], o[t], at) \in LedgerRow
              /\ Tried(rows[t], o[t], at).status # "absent"
              /\ Tried(rows[t], o[t], at).status = "sent" <=> o[t] = "sent"
              /\ Tried(rows[t], o[t], at).status = "pending" =>
                   /\ Tried(rows[t], o[t], at).attempts < MaxAttempts
                   /\ Tried(rows[t], o[t], at).next >= at
  <2> HIDE DEF rows, due, at
  <2> QED BY <1>3, <1>5, <1>7, <1>8, <1>9, TriedRow
<1> HIDE DEF rows, due, c, at
<1>11. notified \in SUBSET Targets /\ new \in [Targets -> LedgerRow]
  BY <1>5, <1>8, <1>10
<1>12. \A t \in due : new[t] = Tried(rows[t], o[t], at)
  BY <1>8
<1>13. \A t \in Targets \ due : new[t] = rows[t]
  OBVIOUS
<1>14. /\ ledger' = [ledger EXCEPT ![c] = new]
       /\ sends' = [sends EXCEPT ![c] =
            [t \in Targets |-> IF t \in notified THEN sends[c][t] + 1 ELSE sends[c][t]]]
       /\ group' = IF Unfinished(new) = {} THEN Cleared(group)
                   ELSE [group EXCEPT !.due = Min({new[t].next : t \in Unfinished(new)})]
  BY <1>6, Zenon
<1> HIDE DEF new
<1>15. \A t \in Targets : rows[t].status = "pending" => ledger[c][t].status \in {"pending", "absent"}
  BY <1>5 DEF NoRow
<1>16. \A t \in notified : ledger[c][t].status # "sent" /\ new[t].status = "sent"
  BY <1>8, <1>10, <1>12, <1>15
<1>17. ASSUME NEW t \in Targets \ notified
       PROVE  new[t].status = "sent" <=> ledger[c][t].status = "sent"
  <2>1. CASE t \in due
    BY <1>8, <1>10, <1>12, <1>15, <2>1
  <2>2. CASE t \notin due
    <3>1. rows[t].status = "sent" <=> ledger[c][t].status = "sent"
      BY <1>5 DEF NoRow
    <3> QED BY <1>13, <2>2, <3>1
  <2> QED BY <2>1, <2>2
<1>18. ASSUME NEW t \in Targets, ledger[c][t].status # "absent" PROVE new[t].status # "absent"
  BY <1>5, <1>10, <1>12, <1>13, <1>18
<1>19. ASSUME \E t \in Targets : ledger[c][t].status # "absent",
              NEW t \in Targets, new[t].status # "absent"
       PROVE  ledger[c][t].status # "absent"
  BY <1>5, <1>8, <1>13, <1>19
<1>20. ASSUME NEW t \in Targets, new[t].status = "pending"
       PROVE  new[t].attempts < MaxAttempts /\ queued[c] <= new[t].next
  <2>1. CASE t \in due
    <3>1. new[t].next \in Nat
      BY <1>11 DEF LedgerRow
    <3> QED BY <1>3, <1>10, <1>12, <1>20, <2>1, <3>1
  <2>2. CASE t \notin due
    BY <1>7, <1>13, <1>20, <2>2
  <2> QED BY <2>1, <2>2
<1> HIDE DEF notified
<1> QED BY <1>11, <1>14, <1>16, <1>17, <1>18, <1>19, <1>20, Zenon DEF c

\* The worker's steps keep the invariant.
LEMMA WorkerSteps ==
  ASSUME RecoveryInv, NEW w \in Workers,
         \/ WorkerStep(w)
         \/ \E audience \in SUBSET Targets : Abort(w, audience)
  PROVE  RecoveryInv'
<1>0. TypeOK /\ QueueAgrees /\ CycleAgrees /\ DelayKept /\ AtLeastOnceOnly
  BY DEF RecoveryInv
<1>1. /\ Idle.copy.status = "firing" /\ Idle.at = 0 /\ now \in Nat /\ group \in GroupRow
      /\ worker[w] \in WorkerState /\ worker[w].copy \in GroupRow
  BY <1>0 DEF TypeOK, Idle, Firing, WorkerState
<1>2. ASSUME Leave(w)
      PROVE  /\ worker' \in [Workers -> WorkerState]
             /\ \A v \in Workers : worker'[v] = worker[v] \/ worker'[v] = Idle
  BY <1>0, <1>2, Blanks DEF Leave, TypeOK
<1>3. CASE SelectDue(w)
  <2>1. PICK new \in WorkerState :
          worker' = [worker EXCEPT ![w] = new] /\ new.copy.status = "firing" /\ new.at <= now
    <3> DEFINE recovery == [pc |-> "due", at |-> now, due |-> group.due, copy |-> Firing("recovery")]
               firing == [pc |-> "due", at |-> 0, due |-> 0, copy |-> Firing("firing")]
    <3>1. recovery \in WorkerState /\ firing \in WorkerState
      BY <1>1, Blanks DEF WorkerState, GroupRow, Reasons
    <3>2. worker' = [worker EXCEPT ![w] = recovery] \/ worker' = [worker EXCEPT ![w] = firing]
      BY <1>3 DEF SelectDue
    <3>3. /\ recovery.copy.status = "firing" /\ firing.copy.status = "firing"
          /\ recovery.at <= now /\ firing.at <= now
      BY <1>1 DEF Firing
    <3> HIDE DEF recovery, firing
    <3> QED BY <3>1, <3>2, <3>3
  <2>2. TypeOK'
    BY <1>0, <1>3, <2>1 DEF SelectDue, TypeOK
  <2>3. QueueAgrees' /\ CycleAgrees'
    BY <1>0, <1>3, <2>1 DEF SelectDue, TypeOK, QueueAgrees, CycleAgrees
  <2>4. DelayKept' /\ AtLeastOnceOnly'
    BY <1>0, <1>3, <2>1 DEF SelectDue, TypeOK, DelayKept, AtLeastOnceOnly
  <2> QED BY <2>2, <2>3, <2>4 DEF RecoveryInv
<1>4. CASE ReloadFiring(w)
  <2>1. CASE group.reason = "firing" /\ worker' = [worker EXCEPT ![w].pc = "save", ![w].copy = group]
    <3>1. PICK new \in WorkerState :
            worker' = [worker EXCEPT ![w] = new] /\ new.copy = group /\ new.at = worker[w].at
      <4> DEFINE save == [worker[w] EXCEPT !.pc = "save", !.copy = group]
      <4>1. save \in WorkerState /\ save.copy = group /\ save.at = worker[w].at
        BY <1>1 DEF WorkerState
      <4>2. worker' = [worker EXCEPT ![w] = save]
        BY <1>0, <2>1 DEF TypeOK
      <4> HIDE DEF save
      <4> QED BY <4>1, <4>2
    <3>2. TypeOK'
      BY <1>0, <1>4, <3>1 DEF ReloadFiring, TypeOK
    <3>3. QueueAgrees' /\ CycleAgrees'
      BY <1>0, <1>4, <3>1 DEF ReloadFiring, TypeOK, QueueAgrees, CycleAgrees
    <3>4. DelayKept' /\ AtLeastOnceOnly'
      BY <1>0, <1>4, <3>1 DEF ReloadFiring, TypeOK, DelayKept, AtLeastOnceOnly
    <3> QED BY <3>2, <3>3, <3>4 DEF RecoveryInv
  <2>2. CASE Leave(w)
    <3>1. TypeOK'
      BY <1>0, <1>2, <1>4, <2>2 DEF ReloadFiring, TypeOK
    <3>2. QueueAgrees' /\ CycleAgrees'
      BY <1>0, <1>1, <1>2, <1>4, <2>2 DEF ReloadFiring, QueueAgrees, CycleAgrees
    <3>3. DelayKept' /\ AtLeastOnceOnly'
      BY <1>0, <1>1, <1>2, <1>4, <2>2 DEF ReloadFiring, DelayKept, AtLeastOnceOnly
    <3> QED BY <3>1, <3>2, <3>3 DEF RecoveryInv
  <2> QED BY <1>4, <2>1, <2>2 DEF ReloadFiring
<1>5. CASE SaveFiring(w)
  <2>1. /\ group' \in GroupRow /\ group'.reason = "none"
        /\ group'.status = worker[w].copy.status /\ group'.cycle = worker[w].copy.cycle
    BY <1>1, <1>5, ClearedRow DEF SaveFiring
  <2>2. Leave(w)
    BY <1>5 DEF SaveFiring
  <2>3. TypeOK'
    BY <1>0, <1>2, <1>5, <2>1, <2>2 DEF SaveFiring, TypeOK
  <2>4. QueueAgrees' /\ CycleAgrees'
    BY <1>0, <1>1, <1>2, <1>5, <2>1, <2>2 DEF SaveFiring, QueueAgrees, CycleAgrees
  <2>5. DelayKept' /\ AtLeastOnceOnly'
    BY <1>0, <1>1, <1>2, <1>5, <2>1, <2>2 DEF SaveFiring, DelayKept, AtLeastOnceOnly
  <2> QED BY <2>3, <2>4, <2>5 DEF RecoveryInv
<1>6. CASE SkipRecovery(w)
  <2>1. TypeOK'
    BY <1>0, <1>1, <1>2, <1>6 DEF SkipRecovery, TypeOK
  <2>2. QueueAgrees' /\ CycleAgrees'
    BY <1>0, <1>1, <1>2, <1>6 DEF SkipRecovery, QueueAgrees, CycleAgrees
  <2>3. DelayKept' /\ AtLeastOnceOnly'
    BY <1>0, <1>1, <1>2, <1>6 DEF SkipRecovery, DelayKept, AtLeastOnceOnly
  <2> QED BY <2>1, <2>2, <2>3 DEF RecoveryInv
<1>7. ASSUME NEW audience \in SUBSET Targets, ProcessRecovery(w, audience) PROVE RecoveryInv'
  <2>1. /\ group.cycle \in Cycles /\ group.cycle \in 1 .. cycles /\ group.status = "resolved"
        /\ group.reason = "recovery" /\ queued[group.cycle] \in 1 .. now
    BY <1>7, StillDueFacts DEF ProcessRecovery
  <2>2. PICK notified \in SUBSET Targets, new \in [Targets -> LedgerRow] :
           /\ ledger' = [ledger EXCEPT ![group.cycle] = new]
           /\ sends' = [sends EXCEPT ![group.cycle] = [t \in Targets |->
                           IF t \in notified THEN sends[group.cycle][t] + 1 ELSE sends[group.cycle][t]]]
           /\ \A t \in notified : ledger[group.cycle][t].status # "sent" /\ new[t].status = "sent"
           /\ \A t \in Targets \ notified : new[t].status = "sent" <=> ledger[group.cycle][t].status = "sent"
           /\ \A t \in Targets : new[t].status = "pending" =>
                new[t].attempts < MaxAttempts /\ queued[group.cycle] <= new[t].next
           /\ group' = IF Unfinished(new) = {} THEN Cleared(group)
                       ELSE [group EXCEPT !.due = Min({new[t].next : t \in Unfinished(new)})]
    BY <1>7, Processed
  <2>3. Leave(w) /\ UNCHANGED <<now, cycles, resolver, queued, aborts>>
    BY <1>7 DEF ProcessRecovery
  <2>4. /\ group' \in GroupRow /\ group'.status = "resolved" /\ group'.cycle = group.cycle
        /\ group'.reason = "recovery" => queued[group.cycle] \in 1 .. group'.due
    <3>1. CASE Unfinished(new) = {}
      BY <1>1, <2>1, <2>2, <3>1, ClearedRow
    <3>2. CASE Unfinished(new) # {}
      <4> DEFINE times == {new[t].next : t \in Unfinished(new)}
      <4>1. times \in SUBSET Nat /\ times # {}
        <5>1. \A t \in Unfinished(new) : new[t] \in LedgerRow
          BY DEF Unfinished
        <5> QED BY <3>2, <5>1 DEF LedgerRow
      <4>2. \A d \in times : queued[group.cycle] <= d
        BY <2>2 DEF Unfinished
      <4>3. group' = [group EXCEPT !.due = Min(times)]
        BY <2>2, <3>2, Zenon
      <4> HIDE DEF times
      <4>4. Min(times) \in Nat /\ queued[group.cycle] <= Min(times)
        BY <4>1, <4>2, LeastTime
      <4> QED BY <1>1, <2>1, <4>3, <4>4 DEF GroupRow
    <3> QED BY <3>1, <3>2
  <2>5. ledger' \in [Cycles -> [Targets -> LedgerRow]]
    BY <1>0, <2>1, <2>2 DEF TypeOK
  <2>6. sends' \in [Cycles -> [Targets -> Nat]]
    BY <1>0, <2>1, <2>2 DEF TypeOK
  <2>7. TypeOK'
    BY <1>0, <1>2, <2>3, <2>4, <2>5, <2>6 DEF TypeOK
  <2>8. /\ \A c \in Cycles \ {group.cycle} : ledger'[c] = ledger[c] /\ sends'[c] = sends[c]
        /\ ledger'[group.cycle] = new
        /\ \A t \in Targets : sends'[group.cycle][t] =
             IF t \in notified THEN sends[group.cycle][t] + 1 ELSE sends[group.cycle][t]
    BY <1>0, <2>1, <2>2 DEF TypeOK
  <2>9. QueueAgrees' /\ CycleAgrees'
    BY <1>0, <1>1, <1>2, <2>1, <2>2, <2>3, <2>4, <2>8 DEF QueueAgrees, CycleAgrees
  <2>10. DelayKept'
    <3>1. ASSUME NEW c \in Cycles, NEW t \in Targets
          PROVE  /\ ledger'[c][t].status # "absent" => queued[c] > 0
                 /\ ledger'[c][t].status = "pending" => queued[c] <= ledger'[c][t].next
      BY <1>0, <2>1, <2>2, <2>8 DEF DelayKept
    <3> QED BY <1>0, <1>1, <1>2, <2>3, <2>4, <3>1 DEF DelayKept
  <2>11. AtLeastOnceOnly'
    <3>1. ASSUME NEW c \in Cycles, NEW t \in Targets
          PROVE  sends'[c][t] <= (IF ledger'[c][t].status = "sent" THEN 1 ELSE 0) + (MaxAborts - aborts)
      <4>1. sends[c][t] \in Nat /\ aborts \in 0 .. MaxAborts /\ MaxAborts \in Nat
        BY <1>0, RecoveryAssumption DEF TypeOK
      <4>2. sends[c][t] <= (IF ledger[c][t].status = "sent" THEN 1 ELSE 0) + (MaxAborts - aborts)
        BY <1>0 DEF AtLeastOnceOnly
      <4>3. CASE c # group.cycle
        BY <2>8, <4>2, <4>3
      <4>4. CASE c = group.cycle /\ t \in notified
        BY <2>2, <2>8, <4>1, <4>2, <4>4
      <4>5. CASE c = group.cycle /\ t \notin notified
        BY <2>2, <2>8, <4>2, <4>5
      <4> QED BY <4>3, <4>4, <4>5
    <3> QED BY <2>3, <3>1 DEF AtLeastOnceOnly
  <2> QED BY <2>7, <2>9, <2>10, <2>11 DEF RecoveryInv
<1>8. ASSUME NEW audience \in SUBSET Targets, Abort(w, audience) PROVE RecoveryInv'
  <2>1. group.cycle \in Cycles
    BY <1>8, StillDueFacts DEF Abort
  <2>2. PICK S : sends' = [sends EXCEPT ![group.cycle] =
                   [t \in Targets |-> IF t \in S THEN @[t] + 1 ELSE @[t]]]
    BY <1>8 DEF Abort
  <2>3. Leave(w) /\ UNCHANGED <<now, cycles, group, ledger, resolver, queued>>
        /\ aborts > 0 /\ aborts' = aborts - 1
    BY <1>8 DEF Abort
  <2>4. TypeOK'
    <3>1. sends' \in [Cycles -> [Targets -> Nat]]
      BY <1>0, <2>1, <2>2 DEF TypeOK
    <3>2. aborts' \in 0 .. MaxAborts
      BY <1>0, <2>3, RecoveryAssumption DEF TypeOK
    <3> QED BY <1>0, <1>2, <2>3, <3>1, <3>2 DEF TypeOK
  <2>5. QueueAgrees' /\ CycleAgrees'
    BY <1>0, <1>1, <1>2, <2>3 DEF QueueAgrees, CycleAgrees
  <2>6. DelayKept'
    BY <1>0, <1>1, <1>2, <2>3 DEF DelayKept
  <2>7. AtLeastOnceOnly'
    <3>1. \A c \in Cycles, t \in Targets : sends'[c][t] <= sends[c][t] + 1 /\ sends[c][t] \in Nat
      BY <1>0, <2>1, <2>2 DEF TypeOK
    <3>2. aborts \in 0 .. MaxAborts /\ MaxAborts \in Nat /\ sends' \in [Cycles -> [Targets -> Nat]]
      BY <1>0, <2>4, RecoveryAssumption DEF TypeOK
    <3> QED BY <1>0, <2>3, <3>1, <3>2 DEF AtLeastOnceOnly
  <2> QED BY <2>4, <2>5, <2>6, <2>7 DEF RecoveryInv
<1> QED BY <1>3, <1>4, <1>5, <1>6, <1>7, <1>8 DEF WorkerStep

\* Every step keeps the invariant.
LEMMA RecoveryStep == RecoveryInv /\ [Next]_vars => RecoveryInv'
<1> SUFFICES ASSUME RecoveryInv, [Next]_vars PROVE RecoveryInv'
  OBVIOUS
<1>1. CASE Resolve \/ ScheduleRecovery \/ ResolverDies \/ ResolveByHand \/ Reopen \/ Tick
  BY <1>1, RequestStep
<1>2. ASSUME NEW w \in Workers, WorkerStep(w) PROVE RecoveryInv'
  BY <1>2, WorkerSteps
<1>3. ASSUME NEW w \in Workers, NEW audience \in SUBSET Targets, Abort(w, audience)
      PROVE  RecoveryInv'
  BY <1>3, WorkerSteps
<1>4. CASE UNCHANGED vars
  BY <1>4 DEF vars, RecoveryInv, TypeOK, QueueAgrees, CycleAgrees, DelayKept, AtLeastOnceOnly
<1> QED BY <1>1, <1>2, <1>3, <1>4 DEF Next

\* The recovery ledger agrees with the group row, with the delay and with the
\* messages that left, whatever requests, workers and rollbacks interleave
\* (schedule_recovery_notification, _process_due_recovery, restart_resolved_group).
THEOREM RecoveryInvariant == Spec => []RecoveryInv
BY InitRecovery, RecoveryStep, PTL DEF Spec

\* A recovery leaves only for a resolution that was queued, whose delay is over
\* and that stands: a worker's earlier selection is never trusted.
LEMMA NoStaleStep ==
  ASSUME RecoveryInv, [Next]_vars, NEW c \in Cycles, sends'[c] # sends[c]
  PROVE  group.status = "resolved" /\ group.cycle = c /\ queued[c] \in 1 .. now
<1>1. sends' # sends
  OBVIOUS
<1>2. PICK w \in Workers : /\ StillDue(w)
                           /\ \E f : sends' = [sends EXCEPT ![group.cycle] = f]
  <2>1. CASE \E w \in Workers, audience \in SUBSET Targets : ProcessRecovery(w, audience)
    <3>1. PICK w \in Workers, audience \in SUBSET Targets : ProcessRecovery(w, audience)
      BY <2>1
    <3>2. StillDue(w)
      BY <3>1 DEF ProcessRecovery
    <3>3. \E f : sends' = [sends EXCEPT ![group.cycle] = f]
      BY <3>1, Processed
    <3> QED BY <3>2, <3>3
  <2>2. CASE \E w \in Workers, audience \in SUBSET Targets : Abort(w, audience)
    <3>1. PICK w \in Workers, audience \in SUBSET Targets : Abort(w, audience)
      BY <2>2
    <3>2. StillDue(w)
      BY <3>1 DEF Abort
    <3>3. \E f : sends' = [sends EXCEPT ![group.cycle] = f]
      <4>1. PICK S : sends' = [sends EXCEPT ![group.cycle] =
                       [t \in Targets |-> IF t \in S THEN @[t] + 1 ELSE @[t]]]
        BY <3>1 DEF Abort
      <4> QED BY <4>1
    <3> QED BY <3>2, <3>3
  <2> QED BY <1>1, <2>1, <2>2
    DEF Next, vars, WorkerStep, Resolve, ScheduleRecovery, ResolverDies, ResolveByHand, Reopen,
        Tick, SelectDue, ReloadFiring, SaveFiring, SkipRecovery
<1>3. sends \in [Cycles -> [Targets -> Nat]]
  BY DEF RecoveryInv, TypeOK
<1>4. c = group.cycle
  BY <1>2, <1>3
<1> QED BY <1>2, <1>4, StillDueFacts

\* NoStaleRecovery for every instance.
THEOREM NoStaleRecoveryHolds == Spec => NoStaleRecovery
<1>1. RecoveryInv /\ [Next]_vars =>
        [\A c \in Cycles : sends'[c] # sends[c] =>
           group.status = "resolved" /\ group.cycle = c /\ queued[c] \in 1 .. now]_vars
  BY NoStaleStep
<1> QED BY <1>1, RecoveryInvariant, PTL DEF Spec, NoStaleRecovery

\* A queued recovery leaves the queue only when it is complete, is withdrawn with
\* its pending recipients cancelled, or is overwritten by the save of a row that
\* was read as a firing one.
LEMMA RecoveryKeptStep ==
  ASSUME RecoveryInv, [Next]_vars, group.reason = "recovery", group'.reason # "recovery"
  PROVE  \/ \A t \in Targets : ledger'[group.cycle][t].status # "pending"
         \/ \E w \in Workers : worker[w].pc = "save" /\ worker'[w].pc = "idle"
<1>1. TypeOK /\ group.status = "resolved" /\ group.cycle \in Cycles
  BY RecoveryAssumption DEF RecoveryInv, QueueAgrees, CycleAgrees, TypeOK, Cycles
<1>2. CASE ScheduleRecovery
  BY <1>2 DEF ScheduleRecovery, Queueable
<1>3. CASE Reopen
  <2>1. ASSUME NEW t \in Targets PROVE ledger'[group.cycle][t].status # "pending"
    <3>1. ledger[group.cycle][t] \in LedgerRow
      BY <1>1 DEF TypeOK
    <3>2. [ledger[group.cycle][t] EXCEPT !.status = "cancelled"].status = "cancelled"
      BY <3>1 DEF LedgerRow
    <3>3. \/ ledger'[group.cycle][t] = [ledger[group.cycle][t] EXCEPT !.status = "cancelled"]
          \/ /\ ledger'[group.cycle][t] = ledger[group.cycle][t]
             /\ ledger[group.cycle][t].status # "pending"
      BY <1>1, <1>3 DEF Reopen, CancelledRows, TypeOK
    <3> QED BY <3>2, <3>3
  <2> QED BY <2>1
<1>4. ASSUME NEW w \in Workers, SaveFiring(w)
      PROVE  \E v \in Workers : worker[v].pc = "save" /\ worker'[v].pc = "idle"
  BY <1>1, <1>4 DEF SaveFiring, Leave, Idle, TypeOK
<1>5. ASSUME NEW w \in Workers, NEW audience \in SUBSET Targets, ProcessRecovery(w, audience)
      PROVE  \A t \in Targets : ledger'[group.cycle][t].status # "pending"
  <2>1. PICK new \in [Targets -> LedgerRow] :
           /\ ledger' = [ledger EXCEPT ![group.cycle] = new]
           /\ group' = IF Unfinished(new) = {} THEN Cleared(group)
                       ELSE [group EXCEPT !.due = Min({new[t].next : t \in Unfinished(new)})]
    BY <1>5, Processed
  <2>2. CASE Unfinished(new) # {}
    <3>1. PICK m : group' = [group EXCEPT !.due = m]
      BY <2>1, <2>2
    <3> QED BY <1>1, <3>1 DEF TypeOK, GroupRow
  <2>3. CASE Unfinished(new) = {}
    BY <1>1, <2>1, <2>3 DEF Unfinished, TypeOK
  <2> QED BY <2>2, <2>3
<1>6. CASE Resolve \/ ResolveByHand
  BY <1>1, <1>6 DEF Resolve, ResolveByHand
<1>7. CASE UNCHANGED group
  BY <1>7
<1> QED BY <1>2, <1>3, <1>4, <1>5, <1>6, <1>7
  DEF Next, vars, WorkerStep, ResolverDies, Tick, SelectDue, ReloadFiring, SkipRecovery, Abort

\* RecoveryKept for every instance.
THEOREM RecoveryKeptHolds == Spec => RecoveryKept
<1>1. RecoveryInv /\ [Next]_vars =>
        [group.reason = "recovery" /\ group'.reason # "recovery" =>
           \/ \A t \in Targets : ledger'[group.cycle][t].status # "pending"
           \/ \E w \in Workers : worker[w].pc = "save" /\ worker'[w].pc = "idle"]_vars
  BY RecoveryKeptStep
<1> QED BY <1>1, RecoveryInvariant, PTL DEF Spec, RecoveryKept

-----------------------------------------------------------------------------
(* Refinement: the ledger implements RecoveryPromise.  The recovery that is   *)
(* open is that of the queued resolution, the roster are the rows, those told *)
(* are the rows that say sent.                                                *)

Opened == IF group.reason = "recovery" THEN group.cycle ELSE 0

Roster == [c \in Cycles |-> {t \in Targets : ledger[c][t].status # "absent"}]

Reached == [c \in Cycles |-> {t \in Targets : ledger[c][t].status = "sent"}]

\* The state Recovery starts in is one the promise starts in.
LEMMA PromiseInit == Init => Promise!Init
BY DEF Init, Promise!Init, Firing, NoRow

\* A committed transaction of _process_due_recovery tells recipients of a frozen
\* roster who had not been notified.
LEMMA ProcessTells ==
  ASSUME RecoveryInv, NEW w \in Workers, NEW audience \in SUBSET Targets,
         ProcessRecovery(w, audience)
  PROVE  Promise!Next
<1>1. TypeOK /\ group.cycle \in Cycles /\ group.reason = "recovery"
  BY StillDueFacts DEF ProcessRecovery, RecoveryInv
<1>2. PICK notified \in SUBSET Targets, new \in [Targets -> LedgerRow] :
         /\ ledger' = [ledger EXCEPT ![group.cycle] = new]
         /\ \A t \in notified : ledger[group.cycle][t].status # "sent" /\ new[t].status = "sent"
         /\ \A t \in Targets \ notified : new[t].status = "sent" <=> ledger[group.cycle][t].status = "sent"
         /\ \A t \in Targets : ledger[group.cycle][t].status # "absent" => new[t].status # "absent"
         /\ (\E t \in Targets : ledger[group.cycle][t].status # "absent") =>
              \A t \in Targets : new[t].status # "absent" => ledger[group.cycle][t].status # "absent"
         /\ group' = IF Unfinished(new) = {} THEN Cleared(group)
                     ELSE [group EXCEPT !.due = Min({new[t].next : t \in Unfinished(new)})]
  BY Processed
<1> DEFINE R == {t \in Targets : new[t].status # "absent"}
<1>3. Opened = group.cycle /\ Opened' \in {group.cycle, 0}
  <2>1. group'.cycle = group.cycle
    <3>1. CASE Unfinished(new) = {}
      BY <1>1, <1>2, <3>1, ClearedRow DEF TypeOK
    <3>2. CASE Unfinished(new) # {}
      <4>1. PICK m : group' = [group EXCEPT !.due = m]
        BY <1>2, <3>2
      <4> QED BY <1>1, <4>1 DEF TypeOK, GroupRow
    <3> QED BY <3>1, <3>2
  <2> QED BY <1>1, <2>1 DEF Opened
<1>4. Roster' = [Roster EXCEPT ![group.cycle] = R]
  BY <1>1, <1>2 DEF Roster, TypeOK
<1>5. Roster[group.cycle] # {} => R = Roster[group.cycle]
  BY <1>1, <1>2 DEF Roster
<1>6. notified \subseteq R \ Reached[group.cycle]
  BY <1>1, <1>2 DEF Reached
<1>7. Reached' = [Reached EXCEPT ![group.cycle] = @ \cup notified]
  <2>1. \A t \in Targets : new[t].status = "sent" <=> ledger[group.cycle][t].status = "sent" \/ t \in notified
    BY <1>2
  <2>2. {t \in Targets : new[t].status = "sent"} = Reached[group.cycle] \cup notified
    BY <1>1, <2>1 DEF Reached
  <2>3. ASSUME NEW c \in Cycles
        PROVE  Reached'[c] = IF c = group.cycle THEN Reached[group.cycle] \cup notified ELSE Reached[c]
    BY <1>1, <1>2, <2>2 DEF Reached, TypeOK
  <2>4. Reached' = [c \in Cycles |-> Reached'[c]] /\ DOMAIN Reached = Cycles
    BY DEF Reached
  <2> QED BY <1>1, <2>3, <2>4
<1>8. R \in SUBSET Targets
  OBVIOUS
<1> HIDE DEF R
<1>9. Promise!Tell(group.cycle, R, notified)
  BY <1>3, <1>4, <1>5, <1>6, <1>7 DEF Promise!Tell, Opened, Roster, Reached
<1> QED BY <1>1, <1>8, <1>9 DEF Promise!Next

\* Every step is a step of the promise or leaves what it speaks of alone.
LEMMA PromiseStep == RecoveryInv /\ [Next]_vars => [Promise!Next]_(Promise!vars)
<1> SUFFICES ASSUME RecoveryInv, [Next]_vars PROVE [Promise!Next]_(Promise!vars)
  OBVIOUS
<1>0. /\ TypeOK /\ (group.reason = "recovery" => group.status = "resolved")
      /\ (group.status = "resolved" => group.cycle \in Cycles /\ group.cycle # 0)
  BY RecoveryAssumption, SMTT(30) DEF RecoveryInv, QueueAgrees, CycleAgrees, TypeOK, Cycles
<1>a. ASSUME UNCHANGED <<Opened, Roster, Reached>> PROVE UNCHANGED Promise!vars
  BY <1>a DEF Promise!vars, Opened, Roster, Reached
<1>b. ASSUME Opened # 0, Opened' = 0, UNCHANGED <<Roster, Reached>> PROVE Promise!Next
  BY <1>b DEF Promise!Next, Promise!Withdraw, Opened, Roster, Reached
<1>c. UNCHANGED ledger => UNCHANGED <<Roster, Reached>>
  BY DEF Roster, Reached
<1>1. CASE Resolve
  <2>1. group.reason # "recovery" /\ group'.reason # "recovery"
    BY <1>0, <1>1 DEF Resolve, TypeOK, GroupRow
  <2> QED BY <1>1, <1>a, <1>c, <2>1 DEF Resolve, Opened
<1>2. CASE ScheduleRecovery
  <2>1. CASE Queueable(resolver)
    <3>1. /\ resolver \in Cycles /\ group.reason # "recovery"
          /\ group'.reason = "recovery" /\ group'.cycle = resolver
      BY <1>0, <1>2, <2>1 DEF ScheduleRecovery, Queueable, TypeOK, GroupRow
    <3>2. Opened = 0 /\ Opened' = resolver /\ UNCHANGED <<Roster, Reached>>
      BY <1>2, <1>c, <3>1 DEF ScheduleRecovery, Opened
    <3>3. Promise!Open(resolver)
      BY <3>2 DEF Promise!Open, Opened, Roster, Reached
    <3> QED BY <3>1, <3>3 DEF Promise!Next
  <2>2. CASE ~Queueable(resolver)
    BY <1>2, <1>a, <1>c, <2>2 DEF ScheduleRecovery, Opened
  <2> QED BY <2>1, <2>2
<1>3. CASE ResolveByHand
  <2>1. group.reason # "recovery" /\ group'.reason # "recovery"
    <3>1. Cleared(group) \in GroupRow /\ Cleared(group).reason = "none"
      BY <1>0, ClearedRow DEF TypeOK
    <3> QED BY <1>0, <1>3, <3>1 DEF ResolveByHand, GroupRow
  <2> QED BY <1>3, <1>a, <1>c, <2>1 DEF ResolveByHand, Opened
<1>4. CASE Reopen
  <2>1. Opened' = 0 /\ group.cycle \in Cycles
    BY <1>0, <1>4 DEF Reopen, Firing, Opened
  <2>2. ASSUME NEW c \in Cycles, NEW t \in Targets
        PROVE  /\ ledger'[c][t].status = "absent" <=> ledger[c][t].status = "absent"
               /\ ledger'[c][t].status = "sent" <=> ledger[c][t].status = "sent"
    <3>1. ledger[c][t] \in LedgerRow
      BY <1>0 DEF TypeOK
    <3>2. [ledger[c][t] EXCEPT !.status = "cancelled"].status = "cancelled"
      BY <3>1 DEF LedgerRow
    <3>3. \/ ledger'[c][t] = ledger[c][t]
          \/ /\ ledger[c][t].status = "pending"
             /\ ledger'[c][t] = [ledger[c][t] EXCEPT !.status = "cancelled"]
      BY <1>0, <1>4, <2>1 DEF Reopen, CancelledRows, TypeOK
    <3> QED BY <3>2, <3>3
  <2>3. UNCHANGED <<Roster, Reached>>
    BY <2>2 DEF Roster, Reached
  <2> QED BY <1>a, <1>b, <2>1, <2>3
<1>5. ASSUME NEW w \in Workers, SaveFiring(w) PROVE [Promise!Next]_(Promise!vars)
  <2>1. Opened' = 0
    <3>1. worker[w].copy \in GroupRow
      BY <1>0 DEF TypeOK, WorkerState
    <3> QED BY <1>5, <3>1, ClearedRow DEF SaveFiring, Opened
  <2> QED BY <1>5, <1>a, <1>b, <1>c, <2>1 DEF SaveFiring
<1>6. ASSUME NEW w \in Workers, NEW audience \in SUBSET Targets, ProcessRecovery(w, audience)
      PROVE  Promise!Next
  BY <1>6, ProcessTells
<1>7. CASE UNCHANGED <<group, ledger>>
  BY <1>7, <1>a, <1>c DEF Opened
<1> QED BY <1>1, <1>2, <1>3, <1>4, <1>5, <1>6, <1>7
  DEF Next, vars, WorkerStep, ResolverDies, Tick, SelectDue, ReloadFiring, SkipRecovery, Abort

\* Delayed recovery delivery implements RecoveryPromise: recipients are frozen at
\* the first due time, told at most once, and only while the recovery is open.
THEOREM RecoveryRefinesPromise == Spec => KeepsPromise
<1>1. RecoveryInv /\ [Next]_vars => [Promise!Next]_(Promise!vars)
  BY PromiseStep
<1> QED BY <1>1, PromiseInit, RecoveryInvariant, PTL DEF Spec, KeepsPromise, Promise!Spec

-----------------------------------------------------------------------------
(* The deliveries to the assignee *)

-----------------------------------------------------------------------------
(* One row at a time *)

PageOK(r) ==
  delivery[r].kind = "page" =>
    /\ delivery[r].status = "pending" => ~D!Held(r)
    /\ told[r] + (IF D!InRequest(r) THEN 1 ELSE 0) + (IF delivery[r].status = "pending" \/ D!Held(r) THEN 1 ELSE 0)
         <= IF delivery[r].delayed THEN 1 ELSE 2

ResolvedOK(r) ==
  delivery[r].kind = "resolved" =>
    told[r] <= (IF delivery[r].status \in {"pending", "processing"} THEN 0 ELSE 1) + (MaxFaults - faults)

\* The two bounds, row by row.
LEMMA ByRow ==
  /\ D!PageBounded <=> \A r \in D!Rows : PageOK(r)
  /\ D!ResolvedOnce <=> \A r \in D!Rows : ResolvedOK(r)
BY DEF D!PageBounded, D!ResolvedOnce, PageOK, ResolvedOK

\* The same of the next state.
LEMMA ByRowNext == (\A r \in D!Rows : PageOK(r)' /\ ResolvedOK(r)') => D!PageBounded' /\ D!ResolvedOnce'
BY DEF D!PageBounded, D!ResolvedOnce, PageOK, ResolvedOK

\* The faults so far are a number.
LEMMA FaultsLeft ==
  ASSUME NEW m \in Nat, NEW f \in Nat, f <= m
  PROVE  0 <= 0 + (m - f) /\ 0 <= 1 + (m - f)
OBVIOUS

\* A step that sends no message of r and gives it to nobody new.
Calm(r) ==
  /\ delivery'[r].kind = delivery[r].kind /\ delivery'[r].delayed = delivery[r].delayed /\ told'[r] = told[r]
  /\ delivery'[r].status \in {"pending", "processing"} => delivery[r].status \in {"pending", "processing"}
  /\ D!InRequest(r)' => D!InRequest(r)
  /\ delivery[r].kind = "page" =>
       /\ delivery'[r].status = "pending" => delivery[r].status = "pending"
       /\ D!Held(r)' => D!Held(r) \/ (delivery[r].status = "pending" /\ delivery'[r].status # "pending")

\* It keeps both bounds.
LEMMA CalmRow ==
  ASSUME D!UserDeliveryAssumption, D!DeliveryInv, D!TypeOK', faults' <= faults, NEW r \in D!Rows, Calm(r)
  PROVE  PageOK(r)' /\ ResolvedOK(r)'
<1>1. PageOK(r) /\ ResolvedOK(r)
  BY ByRow DEF D!DeliveryInv
<1>2. /\ told[r] \in Nat /\ told'[r] \in Nat /\ faults \in Nat /\ faults' \in Nat /\ MaxFaults \in Nat
      /\ delivery'[r].kind \in {"page", "resolved"}
  BY DEF D!UserDeliveryAssumption, D!DeliveryInv, D!TypeOK, D!DeliveryRow
<1>3. ResolvedOK(r)'
  BY <1>1, <1>2 DEF ResolvedOK, Calm
<1>4. ASSUME delivery'[r].kind = "page" PROVE PageOK(r)'
  <2>1. /\ delivery[r].kind = "page"
        /\ delivery'[r].status = "pending" => ~D!Held(r)'
        /\ delivery'[r].status = "pending" \/ D!Held(r)' => delivery[r].status = "pending" \/ D!Held(r)
    BY <1>1, <1>4 DEF Calm, PageOK
  <2>2. /\ (IF D!InRequest(r)' THEN 1 ELSE 0) <= (IF D!InRequest(r) THEN 1 ELSE 0)
        /\ (IF delivery'[r].status = "pending" \/ D!Held(r)' THEN 1 ELSE 0)
             <= (IF delivery[r].status = "pending" \/ D!Held(r) THEN 1 ELSE 0)
    BY <2>1 DEF Calm
  <2> QED BY <1>1, <1>2, <2>1, <2>2 DEF PageOK, Calm
<1>5. delivery'[r].kind # "page" => PageOK(r)'
  BY DEF PageOK
<1> QED BY <1>3, <1>4, <1>5

-----------------------------------------------------------------------------
(* One actor at a time *)

\* An actor that leaves holds nothing, the others what they held; a page it
\* had is no longer in the hands of its kind.
LEMMA Leaving ==
  ASSUME D!UserDeliveryAssumption, D!DeliveryInv, NEW p \in D!Actors, D!Leave(p)
  PROVE  /\ actor' \in [D!Actors -> D!ActorState] /\ actor'[p] = D!Idle
         /\ \A q \in D!Actors : q # p => actor'[q] = actor[q]
         /\ \A r \in D!Rows : (D!InRequest(r)' => D!InRequest(r)) /\ (D!Held(r)' => D!Held(r))
         /\ \A r \in D!Rows : actor[p].row = r /\ delivery[r].kind = "page" =>
              (p \in Requests => ~D!InRequest(r)') /\ (p \in Senders => ~D!Held(r)')
<1>0. \A r \in D!Rows : r # 0
  BY DEF D!Rows, D!UserDeliveryAssumption
<1>1. /\ actor' \in [D!Actors -> D!ActorState] /\ actor'[p] = D!Idle /\ D!Idle.row = 0
      /\ \A q \in D!Actors : q # p => actor'[q] = actor[q]
  BY DEF D!Leave, D!DeliveryInv, D!TypeOK, D!ActorState, D!Idle
<1>2. Requests \subseteq D!Actors /\ Senders \subseteq D!Actors /\ Requests \cap Senders = {}
  BY DEF D!Actors, D!UserDeliveryAssumption
<1>3. \A r \in D!Rows : (D!InRequest(r)' => D!InRequest(r)) /\ (D!Held(r)' => D!Held(r))
  BY <1>0, <1>1, <1>2 DEF D!InRequest, D!Held
<1>4. ASSUME NEW r \in D!Rows, actor[p].row = r, delivery[r].kind = "page"
      PROVE  (p \in Requests => ~D!InRequest(r)') /\ (p \in Senders => ~D!Held(r)')
  <2>1. \A q \in D!Actors : q # p /\ actor[q].row = r => (p \in Requests) # (q \in Requests)
    BY <1>0, <1>4 DEF D!DeliveryInv, D!ActorsAgree
  <2>2. p \in Requests => ~D!InRequest(r)'
    BY <2>1, <1>0, <1>1, <1>2 DEF D!InRequest
  <2>3. p \in Senders => ~D!Held(r)'
    BY <2>1, <1>0, <1>1, <1>2 DEF D!Held
  <2> QED BY <2>2, <2>3
<1> QED BY <1>1, <1>3, <1>4

\* An actor that goes on has the row it had.
LEMMA Going ==
  ASSUME D!DeliveryInv, NEW p \in D!Actors, NEW pc \in {"send", "deliver"}, D!Goto(p, pc)
  PROVE  /\ actor' \in [D!Actors -> D!ActorState]
         /\ actor'[p].pc = pc /\ \A q \in D!Actors : actor'[q].row = actor[q].row
         /\ \A q \in D!Actors : q # p => actor'[q] = actor[q]
         /\ \A r \in D!Rows : (D!InRequest(r)' <=> D!InRequest(r)) /\ (D!Held(r)' <=> D!Held(r))
<1>1. /\ actor' \in [D!Actors -> D!ActorState]
      /\ actor'[p].pc = pc /\ \A q \in D!Actors : actor'[q].row = actor[q].row
      /\ \A q \in D!Actors : q # p => actor'[q] = actor[q]
  BY DEF D!Goto, D!DeliveryInv, D!TypeOK, D!ActorState
<1>2. Requests \subseteq D!Actors /\ Senders \subseteq D!Actors
  BY DEF D!Actors
<1> QED BY <1>1, <1>2 DEF D!InRequest, D!Held

\* A row whose status is set.
LEMMA Marking ==
  ASSUME D!DeliveryInv, NEW r \in D!Rows, NEW s \in {"pending", "processing", "skipped", "failed", "sent"}, D!Mark(r, s)
  PROVE  /\ delivery' \in [D!Rows -> D!DeliveryRow]
         /\ delivery'[r].status = s
         /\ \A x \in D!Rows : x # r => delivery'[x] = delivery[x]
         /\ \A x \in D!Rows : /\ delivery'[x].kind = delivery[x].kind /\ delivery'[x].delayed = delivery[x].delayed
                              /\ delivery'[x].stamp = delivery[x].stamp /\ delivery'[x].user = delivery[x].user
BY DEF D!Mark, D!DeliveryInv, D!TypeOK, D!DeliveryRow

\* The row of a busy actor.
LEMMA BusyRow ==
  ASSUME D!DeliveryInv, NEW p \in D!Actors, actor[p].pc # "idle"
  PROVE  actor[p].row \in D!Rows /\ delivery[actor[p].row].status # "none" /\ actor[p].row # 0
BY DEF D!DeliveryInv, D!TypeOK, D!ActorState, D!ActorsAgree

-----------------------------------------------------------------------------
(* The steps *)

\* Nothing is sent before the first delivery is created.
LEMMA InitDelivery == D!UserDeliveryAssumption /\ D!Init => D!DeliveryInv
<1> SUFFICES ASSUME D!UserDeliveryAssumption, D!Init PROVE D!DeliveryInv
  OBVIOUS
<1>1. (CHOOSE u \in Users : TRUE) \in Users
  BY DEF D!Init
<1>2. D!NoRow \in D!DeliveryRow /\ D!Idle \in D!ActorState
  BY <1>1 DEF D!NoRow, D!DeliveryRow, D!Idle, D!ActorState, D!UserDeliveryAssumption
<1>3. D!TypeOK
  BY <1>2 DEF D!Init, D!TypeOK, D!GroupRow, D!Holds, D!UserDeliveryAssumption
<1>4. D!ActorsAgree
  BY DEF D!Init, D!ActorsAgree, D!Idle, D!NoRow
<1>5. \A r \in D!Rows : ~D!InRequest(r) /\ ~D!Held(r)
  BY DEF D!Init, D!InRequest, D!Held, D!Idle, D!Rows, D!Actors, D!UserDeliveryAssumption
<1>6. D!PageBounded /\ D!ResolvedOnce
  BY <1>5 DEF D!Init, D!PageBounded, D!ResolvedOnce, D!NoRow
<1> QED BY <1>3, <1>4, <1>6 DEF D!DeliveryInv

\* The alert group changes; pending rows may be cancelled.
LEMMA GroupStep ==
  ASSUME D!UserDeliveryAssumption, D!DeliveryInv,
         D!Resolve \/ D!Reopen \/ D!Release \/ (\E how \in D!Holds : D!Hold(how)) \/ (\E u \in Users : D!Reassign(u))
  PROVE  D!DeliveryInv'
<1>1. /\ UNCHANGED <<actor, told, faults, stalls>>
      /\ UNCHANGED delivery \/ \E kinds \in SUBSET {"page", "resolved"} : delivery' = D!Cancelled(kinds)
  BY DEF D!Resolve, D!Reopen, D!Release, D!Hold, D!Reassign
<1>2. alert' \in D!GroupRow /\ alert.cycle <= alert'.cycle
  <2>0. alert \in D!GroupRow /\ MaxResolutions \in Nat
    BY DEF D!DeliveryInv, D!TypeOK, D!UserDeliveryAssumption
  <2>1. CASE D!Resolve
    <3>1. alert.cycle \in Nat /\ alert.cycle + 1 \in 0 .. MaxResolutions
      BY <2>0, <2>1 DEF D!Resolve, D!GroupRow
    <3>2. alert' \in D!GroupRow /\ alert'.cycle = alert.cycle + 1
      BY <2>0, <2>1, <3>1 DEF D!Resolve, D!GroupRow
    <3> QED BY <3>1, <3>2
  <2>2. CASE D!Reopen \/ D!Release
    BY <2>0, <2>2 DEF D!Reopen, D!Release, D!GroupRow
  <2>3. ASSUME NEW how \in D!Holds, D!Hold(how) PROVE <1>2
    BY <2>0, <2>3 DEF D!Hold, D!GroupRow
  <2>4. ASSUME NEW u \in Users, D!Reassign(u) PROVE <1>2
    BY <2>0, <2>4 DEF D!Reassign, D!GroupRow
  <2> QED BY <2>1, <2>2, <2>3, <2>4
<1>3. /\ delivery' \in [D!Rows -> D!DeliveryRow]
      /\ \A r \in D!Rows : /\ delivery'[r].kind = delivery[r].kind /\ delivery'[r].delayed = delivery[r].delayed
                           /\ delivery'[r].stamp = delivery[r].stamp
                           /\ \/ delivery'[r].status = delivery[r].status
                              \/ delivery[r].status = "pending" /\ delivery'[r].status = "skipped"
  <2>1. CASE UNCHANGED delivery
    BY <2>1 DEF D!DeliveryInv, D!TypeOK
  <2>2. ASSUME NEW kinds \in SUBSET {"page", "resolved"}, delivery' = D!Cancelled(kinds) PROVE <1>3
    <3>1. \A r \in D!Rows :
            LET c == [delivery[r] EXCEPT !.status = "skipped"]
            IN  /\ c \in D!DeliveryRow /\ c.status = "skipped"
                /\ c.kind = delivery[r].kind /\ c.delayed = delivery[r].delayed /\ c.stamp = delivery[r].stamp
      BY DEF D!DeliveryInv, D!TypeOK, D!DeliveryRow
    <3>2. delivery \in [D!Rows -> D!DeliveryRow]
      BY DEF D!DeliveryInv, D!TypeOK
    <3> QED BY <2>2, <3>1, <3>2 DEF D!Cancelled
  <2> QED BY <1>1, <2>1, <2>2
<1>4. D!TypeOK'
  BY <1>1, <1>2, <1>3 DEF D!DeliveryInv, D!TypeOK
<1>5. D!ActorsAgree'
  <2>1. \A r \in D!Rows : delivery'[r].stamp <= alert'.cycle
    BY <1>2, <1>3 DEF D!DeliveryInv, D!TypeOK, D!ActorsAgree, D!DeliveryRow, D!GroupRow, D!UserDeliveryAssumption
  <2> QED BY <1>1, <1>3, <2>1 DEF D!DeliveryInv, D!TypeOK, D!ActorsAgree, D!ActorState
<1>6. \A r \in D!Rows : Calm(r)
  BY <1>1, <1>3 DEF Calm, D!InRequest, D!Held
<1>7. faults' <= faults
  BY <1>1 DEF D!DeliveryInv, D!TypeOK
<1> QED BY <1>4, <1>5, <1>6, <1>7, CalmRow, ByRowNext DEF D!DeliveryInv

\* create_delivery: a new row, in the hands of the request unless it is delayed.
LEMMA EnqueueStep ==
  ASSUME D!UserDeliveryAssumption, D!DeliveryInv,
         NEW q \in Requests, NEW kind \in {"page", "resolved"}, NEW delayed \in BOOLEAN, D!Enqueue(q, kind, delayed)
  PROVE  D!DeliveryInv'
<1> DEFINE new == [kind |-> kind, status |-> "pending", delayed |-> delayed,
                   stamp |-> alert.cycle, user |-> alert.assignee]
<1>0. \A x \in D!Rows : x # 0
  BY DEF D!Rows, D!UserDeliveryAssumption
<1>1. PICK r \in D!Rows :
        /\ delivery[r].status = "none" /\ delivery' = [delivery EXCEPT ![r] = new]
        /\ actor' = [actor EXCEPT ![q] = IF delayed THEN D!Idle ELSE [pc |-> "send", row |-> r]]
  BY DEF D!Enqueue, D!IsNextRow
<1>2. actor[q].pc = "idle" /\ UNCHANGED <<alert, told, faults, stalls>>
  BY DEF D!Enqueue
<1>3. /\ new \in D!DeliveryRow /\ new.kind = kind /\ new.status = "pending" /\ new.delayed = delayed
      /\ new.stamp = alert.cycle
  BY DEF D!DeliveryInv, D!TypeOK, D!GroupRow, D!DeliveryRow
<1> HIDE DEF new
<1>4. q \in D!Actors /\ Requests \subseteq D!Actors /\ Senders \subseteq D!Actors /\ q \notin Senders
  BY DEF D!Actors, D!UserDeliveryAssumption
<1>5. /\ delivery'[r] = new /\ \A x \in D!Rows : x # r => delivery'[x] = delivery[x]
      /\ actor' \in [D!Actors -> D!ActorState]
      /\ actor'[q].row = IF delayed THEN 0 ELSE r
      /\ actor'[q].pc = IF delayed THEN "idle" ELSE "send"
      /\ \A p \in D!Actors : p # q => actor'[p] = actor[p]
  BY <1>1, <1>4 DEF D!DeliveryInv, D!TypeOK, D!ActorState, D!Idle
<1>6. \A p \in D!Actors : actor[p].row # r
  BY <1>0, <1>1 DEF D!DeliveryInv, D!ActorsAgree
<1>7. D!TypeOK'
  BY <1>1, <1>2, <1>3, <1>5 DEF D!DeliveryInv, D!TypeOK
<1>8. D!ActorsAgree'
  <2>1. \A p \in D!Actors : /\ actor'[p].pc = "idle" <=> actor'[p].row = 0
                            /\ actor'[p].row # 0 => delivery'[actor'[p].row].status # "none"
                            /\ actor'[p].pc = "deliver" => delivery'[actor'[p].row].kind = "page"
    BY <1>0, <1>3, <1>4, <1>5, <1>6 DEF D!DeliveryInv, D!TypeOK, D!ActorState, D!ActorsAgree
  <2>2. \A p, s \in D!Actors : p # s /\ actor'[p].row = actor'[s].row /\ actor'[p].row # 0
                             /\ delivery'[actor'[p].row].kind = "page" => (p \in Requests) # (s \in Requests)
    BY <1>0, <1>4, <1>5, <1>6 DEF D!DeliveryInv, D!TypeOK, D!ActorState, D!ActorsAgree
  <2>3. \A x \in D!Rows : delivery'[x].stamp <= alert'.cycle /\ (delivery'[x].status = "none" => told'[x] = 0)
    BY <1>2, <1>3, <1>5 DEF D!DeliveryInv, D!TypeOK, D!ActorsAgree, D!GroupRow
  <2> QED BY <2>1, <2>2, <2>3 DEF D!ActorsAgree
<1>9. ASSUME NEW x \in D!Rows, x # r PROVE Calm(x)
  BY <1>0, <1>2, <1>4, <1>5, <1>9 DEF Calm, D!InRequest, D!Held
<1>10. PageOK(r)' /\ ResolvedOK(r)'
  <2>1. told'[r] = 0 /\ faults' \in Nat /\ MaxFaults \in Nat /\ faults' <= MaxFaults
    BY <1>1, <1>2 DEF D!DeliveryInv, D!TypeOK, D!ActorsAgree, D!UserDeliveryAssumption
  <2>2. ~D!Held(r)' /\ (D!InRequest(r)' => ~delayed)
    BY <1>0, <1>4, <1>5, <1>6 DEF D!Held, D!InRequest
  <2>3. ResolvedOK(r)'
    <3>1. 0 <= 0 + (MaxFaults - faults') /\ 0 <= 1 + (MaxFaults - faults')
      BY <2>1, FaultsLeft
    <3> QED BY <2>1, <3>1 DEF ResolvedOK
  <2>4. PageOK(r)'
    BY <1>3, <1>5, <2>1, <2>2 DEF PageOK
  <2> QED BY <2>3, <2>4
<1>11. faults' <= faults
  BY <1>2 DEF D!DeliveryInv, D!TypeOK
<1>12. \A x \in D!Rows : PageOK(x)' /\ ResolvedOK(x)'
  BY <1>7, <1>9, <1>10, <1>11, CalmRow
<1> QED BY <1>7, <1>8, <1>12, ByRowNext DEF D!DeliveryInv

\* An actor ends with its row: it may set a status, and nothing new is claimed.
LEMMA EndsWithRow ==
  ASSUME D!UserDeliveryAssumption, D!DeliveryInv, NEW p \in D!Actors, actor[p].pc # "idle", D!Leave(p),
         NEW r \in D!Rows, r = actor[p].row,
         UNCHANGED <<alert, stalls>>, faults' \in 0 .. faults, told' \in [D!Rows -> Nat],
         UNCHANGED delivery \/ \E s \in {"skipped", "failed", "sent"} : D!Mark(r, s),
         \A x \in D!Rows : x # r => told'[x] = told[x],
         PageOK(r)', ResolvedOK(r)'
  PROVE  D!DeliveryInv'
<1>1. delivery[r].status # "none" /\ r # 0
  BY BusyRow
<1>2. /\ delivery' \in [D!Rows -> D!DeliveryRow]
      /\ delivery'[r].status \in {delivery[r].status, "skipped", "failed", "sent"}
      /\ \A x \in D!Rows : x # r => delivery'[x] = delivery[x]
      /\ \A x \in D!Rows : /\ delivery'[x].kind = delivery[x].kind /\ delivery'[x].delayed = delivery[x].delayed
                           /\ delivery'[x].stamp = delivery[x].stamp
  <2>1. CASE UNCHANGED delivery
    BY <2>1 DEF D!DeliveryInv, D!TypeOK
  <2>2. ASSUME NEW s \in {"skipped", "failed", "sent"}, D!Mark(r, s) PROVE <1>2
    BY <2>2, Marking
  <2> QED BY <1>1, <2>1, <2>2
<1>3. D!TypeOK'
  <2>1. faults' \in 0 .. MaxFaults
    BY DEF D!DeliveryInv, D!TypeOK, D!UserDeliveryAssumption
  <2> QED BY <1>2, <2>1, Leaving DEF D!DeliveryInv, D!TypeOK
<1>4. D!ActorsAgree'
  <2>1. \A q \in D!Actors : actor'[q].row # 0 => actor'[q] = actor[q]
    BY Leaving DEF D!Idle
  <2>2. \A q \in D!Actors : /\ actor'[q].pc = "idle" <=> actor'[q].row = 0
                            /\ actor'[q].row # 0 => delivery'[actor'[q].row].status # "none"
                            /\ actor'[q].pc = "deliver" => delivery'[actor'[q].row].kind = "page"
    <3> SUFFICES ASSUME NEW q \in D!Actors
                 PROVE  /\ actor'[q].pc = "idle" <=> actor'[q].row = 0
                        /\ actor'[q].row # 0 => delivery'[actor'[q].row].status # "none"
                        /\ actor'[q].pc = "deliver" => delivery'[actor'[q].row].kind = "page"
      OBVIOUS
    <3>1. CASE q = p
      BY <3>1, Leaving DEF D!Idle
    <3>2. CASE q # p
      <4>1. /\ actor'[q] = actor[q] /\ actor[q].row \in D!Rows \cup {0}
            /\ actor[q].pc = "idle" <=> actor[q].row = 0
            /\ actor[q].row # 0 => delivery[actor[q].row].status # "none"
            /\ actor[q].pc = "deliver" => delivery[actor[q].row].kind = "page"
        BY <3>2, Leaving DEF D!DeliveryInv, D!TypeOK, D!ActorState, D!ActorsAgree
      <4> QED BY <4>1, <1>1, <1>2
    <3> QED BY <3>1, <3>2
  <2>3. \A q, s \in D!Actors : q # s /\ actor'[q].row = actor'[s].row /\ actor'[q].row # 0
                             /\ delivery'[actor'[q].row].kind = "page" => (q \in Requests) # (s \in Requests)
    BY <1>2, <2>1, Leaving DEF D!DeliveryInv, D!TypeOK, D!ActorState, D!ActorsAgree
  <2>4. \A x \in D!Rows : delivery'[x].stamp <= alert'.cycle /\ (delivery'[x].status = "none" => told'[x] = 0)
    BY <1>1, <1>2 DEF D!DeliveryInv, D!TypeOK, D!ActorsAgree
  <2> QED BY <2>2, <2>3, <2>4 DEF D!ActorsAgree
<1>5. ASSUME NEW x \in D!Rows, x # r PROVE Calm(x)
  BY <1>1, <1>2, <1>5, Leaving DEF Calm
<1>6. faults' <= faults
  BY DEF D!DeliveryInv, D!TypeOK
<1>7. \A x \in D!Rows : PageOK(x)' /\ ResolvedOK(x)'
  BY <1>3, <1>5, <1>6, CalmRow
<1> QED BY <1>3, <1>4, <1>7, ByRowNext DEF D!DeliveryInv

\* _send_delivery_unlocked for a page: the tests, then the call.
LEMMA PageStep ==
  ASSUME D!UserDeliveryAssumption, D!DeliveryInv, NEW p \in D!Actors, D!CheckPage(p) \/ D!DeliverPage(p)
  PROVE  D!DeliveryInv'
<1>1. PICK r \in D!Rows : r = actor[p].row /\ delivery[r].status # "none" /\ r # 0
  BY BusyRow DEF D!CheckPage, D!DeliverPage
<1>2. delivery[r].kind = "page" /\ actor[p].pc # "idle"
  BY <1>1 DEF D!CheckPage, D!DeliverPage, D!DeliveryInv, D!ActorsAgree
<1>3. UNCHANGED <<alert, faults, stalls>> /\ faults \in Nat /\ faults' \in 0 .. faults
  BY DEF D!CheckPage, D!DeliverPage, D!DeliveryInv, D!TypeOK, D!UserDeliveryAssumption
<1>4. CASE D!Goto(p, "deliver") /\ UNCHANGED <<delivery, told>>
  <2>1. D!TypeOK'
    BY <1>3, <1>4, Going DEF D!DeliveryInv, D!TypeOK
  <2>2. D!ActorsAgree'
    BY <1>1, <1>2, <1>3, <1>4, Going DEF D!DeliveryInv, D!TypeOK, D!ActorState, D!ActorsAgree
  <2>3. \A x \in D!Rows : Calm(x)
    BY <1>4, Going DEF Calm
  <2> QED BY <1>3, <2>1, <2>2, <2>3, CalmRow, ByRowNext DEF D!DeliveryInv
<1>5. ASSUME D!Leave(p), NEW s \in {"skipped", "failed", "sent"}, D!Mark(r, s),
             \/ UNCHANGED told
             \/ s = "sent" /\ told' = [told EXCEPT ![r] = @ + 1]
      PROVE  D!DeliveryInv'
  <2>1. /\ delivery'[r].status = s /\ delivery'[r].kind = "page" /\ delivery'[r].delayed = delivery[r].delayed
        /\ delivery[r].delayed \in BOOLEAN
    BY <1>2, <1>5, Marking DEF D!DeliveryInv, D!TypeOK, D!DeliveryRow
  <2>2. /\ told' \in [D!Rows -> Nat] /\ told[r] \in Nat /\ told'[r] <= told[r] + 1
        /\ \A x \in D!Rows : x # r => told'[x] = told[x]
    BY <1>5 DEF D!DeliveryInv, D!TypeOK
  <2>3. PageOK(r)'
    <3>1. PageOK(r)
      BY ByRow DEF D!DeliveryInv
    <3>2. (D!InRequest(r)' => D!InRequest(r)) /\ (D!Held(r)' => D!Held(r))
      BY <1>5, Leaving
    <3>3. \/ D!InRequest(r) /\ ~D!InRequest(r)'
          \/ D!Held(r) /\ ~D!Held(r)'
      BY <1>1, <1>2, <1>5, Leaving DEF D!InRequest, D!Held, D!Actors
    <3>4. (IF D!InRequest(r)' THEN 1 ELSE 0) + (IF delivery'[r].status = "pending" \/ D!Held(r)' THEN 1 ELSE 0) + 1
            <= (IF D!InRequest(r) THEN 1 ELSE 0) + (IF delivery[r].status = "pending" \/ D!Held(r) THEN 1 ELSE 0)
      BY <1>5, <2>1, <3>2, <3>3
    <3> QED BY <1>2, <1>5, <2>1, <2>2, <3>1, <3>4 DEF PageOK
  <2>4. ResolvedOK(r)'
    BY <2>1 DEF ResolvedOK
  <2> QED BY <1>1, <1>2, <1>3, <1>5, <2>2, <2>3, <2>4, EndsWithRow
<1> QED BY <1>1, <1>4, <1>5 DEF D!CheckPage, D!DeliverPage, D!Left

\* send_delivery of a resolved event, committed or rolled back.
LEMMA ResolvedStep ==
  ASSUME D!UserDeliveryAssumption, D!DeliveryInv, NEW p \in D!Actors, D!SendResolved(p) \/ D!Rollback(p)
  PROVE  D!DeliveryInv'
<1>1. PICK r \in D!Rows : r = actor[p].row /\ delivery[r].status # "none" /\ r # 0
  BY BusyRow DEF D!SendResolved, D!Rollback
<1>2. /\ delivery[r].kind = "resolved" /\ actor[p].pc # "idle" /\ D!Leave(p) /\ UNCHANGED <<alert, stalls>>
  BY <1>1 DEF D!SendResolved, D!Rollback
<1>3. /\ faults \in Nat /\ MaxFaults \in Nat /\ faults <= MaxFaults /\ told \in [D!Rows -> Nat]
      /\ ResolvedOK(r)
  BY ByRow DEF D!DeliveryInv, D!TypeOK, D!UserDeliveryAssumption
<1>4. /\ \/ UNCHANGED <<delivery, told, faults>>
         \/ UNCHANGED <<told, faults>> /\ \E s \in {"skipped", "failed"} : D!Mark(r, s)
         \/ D!Expected(p) /\ UNCHANGED faults /\ D!Left(r) /\ D!Mark(r, "sent")
         \/ D!Expected(p) /\ UNCHANGED delivery /\ D!Left(r) /\ faults > 0 /\ faults' = faults - 1
      /\ D!Expected(p) => delivery[r].status \in {"pending", "processing"}
  BY <1>1 DEF D!SendResolved, D!Rollback, D!Expected
<1>5. /\ faults' \in 0 .. faults /\ told' \in [D!Rows -> Nat]
      /\ \A x \in D!Rows : x # r => told'[x] = told[x]
      /\ told'[r] \in {told[r], told[r] + 1} /\ (D!Left(r) => told'[r] = told[r] + 1)
  BY <1>3, <1>4 DEF D!Left
<1>6. /\ UNCHANGED delivery \/ \E s \in {"skipped", "failed", "sent"} : D!Mark(r, s)
      /\ delivery'[r].kind = "resolved"
  BY <1>2, <1>4, Marking
<1>7. ResolvedOK(r)'
  <2>1. CASE UNCHANGED <<delivery, told, faults>>
    BY <1>3, <2>1 DEF ResolvedOK
  <2>2. ASSUME NEW s \in {"skipped", "failed"}, D!Mark(r, s), UNCHANGED <<told, faults>> PROVE ResolvedOK(r)'
    <3>1. delivery'[r].status = s
      BY <2>2, Marking
    <3> QED BY <1>2, <1>3, <2>2, <3>1 DEF ResolvedOK
  <2>3. CASE D!Expected(p) /\ UNCHANGED faults /\ D!Left(r) /\ D!Mark(r, "sent")
    <3>1. delivery'[r].status = "sent"
      BY <2>3, Marking
    <3> QED BY <1>2, <1>3, <1>4, <1>5, <2>3, <3>1 DEF ResolvedOK
  <2>4. CASE D!Expected(p) /\ UNCHANGED delivery /\ D!Left(r) /\ faults > 0 /\ faults' = faults - 1
    BY <1>2, <1>3, <1>4, <1>5, <2>4 DEF ResolvedOK
  <2> QED BY <1>4, <2>1, <2>2, <2>3, <2>4
<1>8. PageOK(r)'
  BY <1>6 DEF PageOK
<1> QED BY <1>1, <1>2, <1>5, <1>6, <1>7, <1>8, EndsWithRow

\* A process dies, or the job's first test skips the row.
LEMMA GivesUpStep ==
  ASSUME D!UserDeliveryAssumption, D!DeliveryInv, NEW p \in D!Actors, NEW r \in D!Rows, r = actor[p].row,
         actor[p].pc # "idle", D!Leave(p), UNCHANGED <<alert, told, stalls>>, faults' \in 0 .. faults,
         UNCHANGED delivery \/ D!Mark(r, "skipped")
  PROVE  D!DeliveryInv'
<1>1. /\ delivery' \in [D!Rows -> D!DeliveryRow]
      /\ delivery'[r].kind = delivery[r].kind /\ delivery'[r].delayed = delivery[r].delayed
      /\ delivery'[r].status \in {delivery[r].status, "skipped"}
  BY Marking DEF D!DeliveryInv, D!TypeOK
<1>2. Calm(r)
  BY <1>1, Leaving DEF Calm
<1>3. D!TypeOK' /\ faults' <= faults
  <2>1. faults' \in 0 .. MaxFaults /\ faults' <= faults
    BY DEF D!DeliveryInv, D!TypeOK, D!UserDeliveryAssumption
  <2> QED BY <1>1, <2>1, Leaving DEF D!DeliveryInv, D!TypeOK
<1>4. PageOK(r)' /\ ResolvedOK(r)'
  BY <1>2, <1>3, CalmRow
<1>5. told' \in [D!Rows -> Nat]
  BY DEF D!DeliveryInv, D!TypeOK
<1> QED BY <1>4, <1>5, EndsWithRow

\* process_due_user_notifications claims a pending row.
LEMMA ClaimStep ==
  ASSUME D!UserDeliveryAssumption, D!DeliveryInv, NEW w \in Senders, NEW r \in D!Rows, D!Claim(w, r)
  PROVE  D!DeliveryInv'
<1>0. (\A x \in D!Rows : x # 0) /\ w \in D!Actors /\ w \notin Requests /\ Requests \subseteq D!Actors /\ Senders \subseteq D!Actors
  BY DEF D!Rows, D!Actors, D!UserDeliveryAssumption
<1>1. /\ actor[w].pc = "idle" /\ delivery[r].status = "pending" /\ D!Mark(r, "processing")
      /\ UNCHANGED <<alert, told, faults, stalls>>
  BY DEF D!Claim, D!Claimable
<1>2. /\ actor' \in [D!Actors -> D!ActorState]
      /\ actor'[w].row = r /\ actor'[w].pc = "check"
      /\ \A q \in D!Actors : q # w => actor'[q] = actor[q]
  BY <1>0 DEF D!Claim, D!DeliveryInv, D!TypeOK, D!ActorState
<1>3. /\ delivery' \in [D!Rows -> D!DeliveryRow] /\ delivery'[r].status = "processing"
      /\ \A x \in D!Rows : x # r => delivery'[x] = delivery[x]
      /\ \A x \in D!Rows : /\ delivery'[x].kind = delivery[x].kind /\ delivery'[x].delayed = delivery[x].delayed
                           /\ delivery'[x].stamp = delivery[x].stamp
  BY <1>1, Marking
<1>4. D!TypeOK'
  BY <1>1, <1>2, <1>3 DEF D!DeliveryInv, D!TypeOK
<1>5. delivery[r].kind = "page" => \A q \in Senders : actor[q].row # r
  BY <1>1, ByRow DEF D!DeliveryInv, PageOK, D!Held
<1>6. D!ActorsAgree'
  <2>1. \A q \in D!Actors : /\ actor'[q].pc = "idle" <=> actor'[q].row = 0
                            /\ actor'[q].row # 0 => delivery'[actor'[q].row].status # "none"
                            /\ actor'[q].pc = "deliver" => delivery'[actor'[q].row].kind = "page"
    <3> SUFFICES ASSUME NEW q \in D!Actors
                 PROVE  /\ actor'[q].pc = "idle" <=> actor'[q].row = 0
                        /\ actor'[q].row # 0 => delivery'[actor'[q].row].status # "none"
                        /\ actor'[q].pc = "deliver" => delivery'[actor'[q].row].kind = "page"
      OBVIOUS
    <3>1. CASE q = w
      BY <1>0, <1>2, <1>3, <3>1
    <3>2. CASE q # w
      <4>1. /\ actor'[q] = actor[q] /\ actor[q].row \in D!Rows \cup {0}
            /\ actor[q].pc = "idle" <=> actor[q].row = 0
            /\ actor[q].row # 0 => delivery[actor[q].row].status # "none"
            /\ actor[q].pc = "deliver" => delivery[actor[q].row].kind = "page"
        BY <3>2, <1>2 DEF D!DeliveryInv, D!TypeOK, D!ActorState, D!ActorsAgree
      <4> QED BY <4>1, <1>3
    <3> QED BY <3>1, <3>2
  <2>2. \A q, s \in D!Actors : q # s /\ actor'[q].row = actor'[s].row /\ actor'[q].row # 0
                             /\ delivery'[actor'[q].row].kind = "page" => (q \in Requests) # (s \in Requests)
    <3> SUFFICES ASSUME NEW q \in D!Actors, NEW s \in D!Actors, q # s, actor'[q].row = actor'[s].row,
                        actor'[q].row # 0, delivery'[actor'[q].row].kind = "page"
                 PROVE  (q \in Requests) # (s \in Requests)
      OBVIOUS
    <3>1. CASE q = w \/ s = w
      BY <3>1, <1>0, <1>2, <1>3, <1>5 DEF D!Actors
    <3>2. CASE q # w /\ s # w
      BY <3>2, <1>2, <1>3 DEF D!DeliveryInv, D!TypeOK, D!ActorState, D!ActorsAgree
    <3> QED BY <3>1, <3>2
  <2>3. \A x \in D!Rows : delivery'[x].stamp <= alert'.cycle /\ (delivery'[x].status = "none" => told'[x] = 0)
    BY <1>1, <1>3 DEF D!DeliveryInv, D!ActorsAgree
  <2> QED BY <2>1, <2>2, <2>3 DEF D!ActorsAgree
<1>7. \A x \in D!Rows : Calm(x)
  <2>1. \A x \in D!Rows : D!InRequest(x)' => D!InRequest(x)
    BY <1>0, <1>2 DEF D!InRequest
  <2>2. \A x \in D!Rows : x # r => (D!Held(x)' => D!Held(x))
    BY <1>0, <1>2 DEF D!Held
  <2> QED BY <1>1, <1>3, <2>1, <2>2 DEF Calm
<1>8. faults' <= faults
  BY <1>1 DEF D!DeliveryInv, D!TypeOK
<1> QED BY <1>4, <1>6, <1>7, <1>8, CalmRow, ByRowNext DEF D!DeliveryInv

\* The first test of a claimed row, outside any lock.
LEMMA CheckDueStep ==
  ASSUME D!UserDeliveryAssumption, D!DeliveryInv, NEW w \in Senders, D!CheckDue(w)
  PROVE  D!DeliveryInv'
<1>0. w \in D!Actors
  BY DEF D!Actors
<1>1. PICK r \in D!Rows : r = actor[w].row /\ delivery[r].status # "none" /\ r # 0
  BY <1>0, BusyRow DEF D!CheckDue
<1>2. actor[w].pc = "check" /\ UNCHANGED <<alert, told, faults, stalls>> /\ faults \in Nat /\ faults' \in 0 .. faults
  BY DEF D!CheckDue, D!DeliveryInv, D!TypeOK, D!UserDeliveryAssumption
<1>3. CASE D!Leave(w) /\ D!Mark(r, "skipped")
  BY <1>0, <1>1, <1>2, <1>3, GivesUpStep
<1>4. CASE D!Goto(w, "send") /\ UNCHANGED delivery
  <2>1. D!TypeOK'
    BY <1>0, <1>2, <1>4, Going DEF D!DeliveryInv, D!TypeOK
  <2>2. D!ActorsAgree'
    BY <1>0, <1>1, <1>2, <1>4, Going DEF D!DeliveryInv, D!TypeOK, D!ActorState, D!ActorsAgree
  <2>3. \A x \in D!Rows : Calm(x)
    BY <1>0, <1>2, <1>4, Going DEF Calm
  <2> QED BY <1>2, <2>1, <2>2, <2>3, CalmRow, ByRowNext DEF D!DeliveryInv
<1> QED BY <1>1, <1>3, <1>4 DEF D!CheckDue

\* reclaim_abandoned_resolved_deliveries: only resolved rows become pending again.
LEMMA ReclaimStep ==
  ASSUME D!UserDeliveryAssumption, D!DeliveryInv, NEW r \in D!Rows, D!Reclaim(r) \/ D!ReclaimSlow(r)
  PROVE  D!DeliveryInv'
<1>1. /\ delivery[r].kind = "resolved" /\ delivery[r].status = "processing" /\ D!Mark(r, "pending")
      /\ UNCHANGED <<alert, actor, told, faults>> /\ stalls' \in 0 .. MaxStalls
  BY DEF D!Reclaim, D!ReclaimSlow, D!Abandoned, D!DeliveryInv, D!TypeOK, D!UserDeliveryAssumption
<1>2. /\ delivery' \in [D!Rows -> D!DeliveryRow] /\ delivery'[r].status = "pending"
      /\ \A x \in D!Rows : x # r => delivery'[x] = delivery[x]
      /\ \A x \in D!Rows : /\ delivery'[x].kind = delivery[x].kind /\ delivery'[x].delayed = delivery[x].delayed
                           /\ delivery'[x].stamp = delivery[x].stamp
  BY <1>1, Marking
<1>3. D!TypeOK'
  BY <1>1, <1>2 DEF D!DeliveryInv, D!TypeOK
<1>4. D!ActorsAgree'
  BY <1>1, <1>2, SMTT(30) DEF D!DeliveryInv, D!TypeOK, D!ActorState, D!ActorsAgree
<1>5. \A x \in D!Rows : Calm(x)
  BY <1>1, <1>2 DEF Calm, D!InRequest, D!Held
<1>6. faults' <= faults
  BY <1>1 DEF D!DeliveryInv, D!TypeOK
<1> QED BY <1>3, <1>4, <1>5, <1>6, CalmRow, ByRowNext DEF D!DeliveryInv

\* Every step keeps the invariant.
LEMMA DeliveryStep == D!UserDeliveryAssumption /\ D!DeliveryInv /\ [D!Next]_(D!vars) => D!DeliveryInv'
<1> SUFFICES ASSUME D!UserDeliveryAssumption, D!DeliveryInv, [D!Next]_(D!vars) PROVE D!DeliveryInv'
  OBVIOUS
<1>0. Requests \subseteq D!Actors /\ Senders \subseteq D!Actors
  BY DEF D!Actors
<1>1. CASE D!Resolve \/ D!Reopen \/ D!Release \/ (\E how \in D!Holds : D!Hold(how)) \/ (\E u \in Users : D!Reassign(u))
  BY <1>1, GroupStep
<1>2. ASSUME NEW q \in Requests, NEW kind \in {"page", "resolved"}, NEW delayed \in BOOLEAN, D!Enqueue(q, kind, delayed)
      PROVE  D!DeliveryInv'
  BY <1>2, EnqueueStep
<1>3. ASSUME NEW p \in D!Actors, D!SendStep(p) PROVE D!DeliveryInv'
  BY <1>3, PageStep, ResolvedStep DEF D!SendStep
<1>4. ASSUME NEW w \in Senders, D!WorkerStep(w) PROVE D!DeliveryInv'
  BY <1>0, <1>3, <1>4, ClaimStep, CheckDueStep DEF D!WorkerStep
<1>5. ASSUME NEW p \in D!Actors, D!Rollback(p) PROVE D!DeliveryInv'
  BY <1>5, ResolvedStep
<1>6. ASSUME NEW p \in D!Actors, D!Die(p) PROVE D!DeliveryInv'
  <2>1. PICK r \in D!Rows : r = actor[p].row
    BY <1>6, BusyRow DEF D!Die
  <2>2. faults' \in 0 .. faults
    BY <1>6 DEF D!Die, D!DeliveryInv, D!TypeOK, D!UserDeliveryAssumption
  <2> QED BY <1>6, <2>1, <2>2, GivesUpStep DEF D!Die
<1>7. ASSUME NEW r \in D!Rows, D!Reclaim(r) \/ D!ReclaimSlow(r) PROVE D!DeliveryInv'
  BY <1>7, ReclaimStep
<1>8. CASE UNCHANGED D!vars
  BY <1>8 DEF D!vars, D!DeliveryInv, D!TypeOK, D!ActorsAgree, D!PageBounded, D!ResolvedOnce, D!InRequest, D!Held
<1> QED BY <1>0, <1>1, <1>2, <1>3, <1>4, <1>5, <1>6, <1>7, <1>8 DEF D!Next

-----------------------------------------------------------------------------
(* The theorems *)

\* However requests, runs of the job, deaths and expired leases interleave, a
\* delayed page leaves once, another one twice at most, and a resolved message
\* once for every transaction lost and once more (enqueue_user_notifications,
\* send_delivery, process_due_user_notifications).
THEOREM DeliveryInvariant == D!Spec => []DeliveryInv
<1>1. D!Init => D!DeliveryInv
  BY InitDelivery, SendersAssumption
<1>2. D!DeliveryInv /\ [D!Next]_(D!vars) => D!DeliveryInv'
  BY DeliveryStep, SendersAssumption
<1>3. D!Spec => []D!DeliveryInv
  BY <1>1, <1>2, PTL DEF D!Spec
<1> QED BY <1>3 DEF DeliveryInv

\* A resolved message leaves under the lock, with the row of the last resolution.
LEMMA FencedStep ==
  ASSUME D!UserDeliveryAssumption, D!DeliveryInv, [D!Next]_(D!vars),
         NEW r \in D!Rows, delivery[r].kind = "resolved", told'[r] # told[r]
  PROVE  alert.status = "resolved" /\ delivery[r].stamp = alert.cycle /\ delivery[r].user = alert.assignee
<1>0. Requests \subseteq D!Actors /\ Senders \subseteq D!Actors
  BY DEF D!Actors
<1>1. ASSUME NEW p \in D!Actors, D!SendResolved(p) \/ D!Rollback(p)
      PROVE  D!Deliverable(r)
  BY <1>1 DEF D!SendResolved, D!Rollback, D!Left, D!DeliveryInv, D!TypeOK
<1>2. ASSUME NEW p \in D!Actors, D!DeliverPage(p) PROVE FALSE
  BY <1>2 DEF D!DeliverPage, D!Left, D!DeliveryInv, D!TypeOK, D!ActorsAgree
<1>3. D!Deliverable(r)
  BY <1>0, <1>1, <1>2
     DEF D!Next, D!vars, D!Resolve, D!Reopen, D!Release, D!Hold, D!Reassign, D!Enqueue, D!SendStep, D!WorkerStep, D!CheckPage, D!Claim,
         D!CheckDue, D!Die, D!Reclaim, D!ReclaimSlow
<1>4. delivery[r].stamp <= alert.cycle /\ delivery[r].stamp \in Nat /\ alert.cycle \in Nat
  BY DEF D!DeliveryInv, D!TypeOK, D!ActorsAgree, D!DeliveryRow, D!GroupRow, D!UserDeliveryAssumption
<1> QED BY <1>3, <1>4 DEF D!Deliverable, D!Stale

\* A resolved message belongs to the resolution the group is in and goes to its
\* assignee (_stale_resolved_delivery under the grouping lock).
THEOREM ResolvedFencedHolds == D!Spec => ResolvedFenced
<1>1. D!DeliveryInv /\ [D!Next]_(D!vars) =>
        [\A r \in D!Rows : delivery[r].kind = "resolved" /\ told'[r] # told[r] =>
           /\ alert.status = "resolved" /\ delivery[r].stamp = alert.cycle
           /\ delivery[r].user = alert.assignee]_(D!vars)
  BY FencedStep, SendersAssumption
<1>2. D!Spec => []D!DeliveryInv
  BY DeliveryInvariant DEF DeliveryInv
<1> QED BY <1>1, <1>2, PTL DEF D!Spec, ResolvedFenced, D!ResolvedFenced
=============================================================================
