---------------------------- MODULE UserDelivery ----------------------------
(***************************************************************************)
(* User notification deliveries, app/services/notifications/rules.py.      *)
(*                                                                         *)
(* enqueue_user_notifications inserts one row per matching rule; a rule    *)
(* without a delay is sent at once by the request, the others wait for     *)
(* process_due_user_notifications.  A page (notification, reminder,        *)
(* escalation) is checked and sent without a lock and, by the request,     *)
(* without a claim.  A resolved message is sent in a transaction that      *)
(* holds the grouping lock and the group's row, like the reopen, and an    *)
(* abandoned claim of one is taken back under the same lock: such a        *)
(* transaction is one step, or it is rolled back after the message left.   *)
(*                                                                         *)
(* A resolved row belongs to the resolution that was the last one when it  *)
(* was created (created_at against resolved_at).  A pending row may become *)
(* due at any time.                                                        *)
(***************************************************************************)
EXTENDS Integers, FiniteSets

CONSTANTS
  Users,      \* possible assignees
  Requests,   \* requests and jobs that call enqueue_user_notifications
  Workers,    \* runs of process_due_user_notifications
  MaxRows,    \* bound on the deliveries
  MaxCycles,  \* bound on the resolutions
  MaxFaults,  \* bound on the deaths and rollbacks
  MaxStalls   \* bound on the leases that expire under a live worker

\* What is assumed of the constants
UserDeliveryAssumption ==
  /\ Requests \cap Workers = {}
  /\ {MaxRows, MaxCycles, MaxFaults, MaxStalls} \subseteq Nat

VARIABLES
  group,   \* status, number of the last resolution, assignee
  row,     \* UserNotificationDelivery
  actor,   \* per request and worker: its next statement and its row
  sends,   \* history: messages that left, per row
  faults,  \* deaths and rollbacks left
  stalls   \* leases that may still expire under a live worker

vars == <<group, row, actor, sends, faults, stalls>>

Rows == 1 .. MaxRows
Actors == Requests \cup Workers

\* What keeps a firing group from being paged
Holds == {"acknowledged", "maintenance", "shelved"}

NoRow == [kind |-> "page", status |-> "none", delayed |-> FALSE, stamp |-> 0,
          user |-> CHOOSE u \in Users : TRUE]

Idle == [pc |-> "idle", row |-> 0]

GroupRow == [status : {"firing", "resolved"} \cup Holds, cycle : 0 .. MaxCycles, assignee : Users]

DeliveryRow == [kind : {"page", "resolved"},
                status : {"none", "pending", "processing", "skipped", "failed", "sent"},
                delayed : BOOLEAN, stamp : 0 .. MaxCycles, user : Users]

ActorState == [pc : {"idle", "check", "send", "deliver"}, row : Rows \cup {0}]

TypeOK ==
  /\ group \in GroupRow
  /\ row \in [Rows -> DeliveryRow]
  /\ actor \in [Actors -> ActorState]
  /\ sends \in [Rows -> Nat]
  /\ faults \in 0 .. MaxFaults /\ stalls \in 0 .. MaxStalls

Init ==
  /\ group \in [status : {"firing"}, cycle : {0}, assignee : Users]
  /\ row = [r \in Rows |-> NoRow]
  /\ actor = [p \in Actors |-> Idle]
  /\ sends = [r \in Rows |-> 0]
  /\ faults = MaxFaults /\ stalls = MaxStalls

-----------------------------------------------------------------------------
(* The alert group *)

\* cancel_pending_group_deliveries.
Cancelled(kinds) ==
  [r \in Rows |-> IF row[r].status = "pending" /\ row[r].kind \in kinds
                  THEN [row[r] EXCEPT !.status = "skipped"] ELSE row[r]]

Resolve ==
  /\ group.status # "resolved" /\ group.cycle < MaxCycles
  /\ group' = [group EXCEPT !.status = "resolved", !.cycle = @ + 1]
  /\ UNCHANGED <<row, actor, sends, faults, stalls>>

\* restart_resolved_group: nothing pending of the old cycle is left.
Reopen ==
  /\ group.status = "resolved"
  /\ group' = [group EXCEPT !.status = "firing"]
  /\ row' = Cancelled({"page", "resolved"})
  /\ UNCHANGED <<actor, sends, faults, stalls>>

\* An acknowledgement or a shelf cancels the pending pages; a maintenance only
\* keeps them from being sent.
Hold(how) ==
  /\ group.status = "firing"
  /\ group' = [group EXCEPT !.status = how]
  /\ row' = IF how = "maintenance" THEN row ELSE Cancelled({"page"})
  /\ UNCHANGED <<actor, sends, faults, stalls>>

\* The shelf or the maintenance ends, or a new alert fires.
Release ==
  /\ group.status \in Holds
  /\ group' = [group EXCEPT !.status = "firing"]
  /\ UNCHANGED <<row, actor, sends, faults, stalls>>

Reassign(u) ==
  /\ u # group.assignee
  /\ group' = [group EXCEPT !.assignee = u]
  /\ UNCHANGED <<row, actor, sends, faults, stalls>>

-----------------------------------------------------------------------------
(* enqueue_user_notifications *)

IsNextRow(r) == row[r].status = "none" /\ \A s \in 1 .. r - 1 : row[s].status # "none"

\* create_delivery; the group was read before, so its status may have changed.
Enqueue(q, kind, delayed) ==
  /\ actor[q].pc = "idle"
  /\ kind = "resolved" => group.cycle > 0
  /\ \E r \in Rows :
       /\ IsNextRow(r)
       /\ row' = [row EXCEPT ![r] = [kind |-> kind, status |-> "pending", delayed |-> delayed,
                                     stamp |-> group.cycle, user |-> group.assignee]]
       /\ actor' = [actor EXCEPT ![q] = IF delayed THEN Idle ELSE [pc |-> "send", row |-> r]]
  /\ UNCHANGED <<group, sends, faults, stalls>>

-----------------------------------------------------------------------------
(* send_delivery *)

Mark(r, status) == row' = [row EXCEPT ![r].status = status]
Leave(p) == actor' = [actor EXCEPT ![p] = Idle]
Goto(p, pc) == actor' = [actor EXCEPT ![p].pc = pc]
Left(r) == sends' = [sends EXCEPT ![r] = @ + 1]

\* Variant without the created_at fence.
StaleStatus(r) == group.status # "resolved"

\* _stale_resolved_delivery.
Stale(r) == group.status # "resolved" \/ row[r].stamp < group.cycle

\* _send_delivery_unlocked for a page: the tests, which are not about a shelf,
\* then the call.
CheckPage(p) ==
  LET r == actor[p].row
  IN  /\ actor[p].pc = "send" /\ row[r].kind = "page"
      /\ \/ group.status \in {"firing", "shelved"} /\ Goto(p, "deliver") /\ UNCHANGED row
         \/ group.status \notin {"firing", "shelved"} /\ Mark(r, "skipped") /\ Leave(p)
      /\ UNCHANGED <<group, sends, faults, stalls>>

\* The notifier takes the page, fails, or has no device to send it to.
DeliverPage(p) ==
  LET r == actor[p].row
  IN  /\ actor[p].pc = "deliver"
      /\ \/ Left(r) /\ Mark(r, "sent")
         \/ UNCHANGED sends /\ (Mark(r, "failed") \/ Mark(r, "skipped"))
      /\ Leave(p)
      /\ UNCHANGED <<group, faults, stalls>>

\* Variant that sends whatever the row says by now.
ExpectedAny(p) == TRUE

\* The status the persisted row must have for the transaction to go on.
Expected(p) == row[actor[p].row].status = IF p \in Workers THEN "processing" ELSE "pending"

\* The lifecycle tests of the transaction.
Deliverable(r) == ~Stale(r) /\ group.assignee = row[r].user

\* send_delivery for a resolved event.
SendResolved(p) ==
  LET r == actor[p].row
  IN  /\ actor[p].pc = "send" /\ row[r].kind = "resolved"
      /\ \/ ~Expected(p) /\ UNCHANGED <<row, sends>>
         \/ Expected(p) /\ ~Deliverable(r) /\ Mark(r, "skipped") /\ UNCHANGED sends
         \/ Expected(p) /\ Deliverable(r)
            /\ \/ Left(r) /\ Mark(r, "sent")
               \/ UNCHANGED sends /\ (Mark(r, "failed") \/ Mark(r, "skipped"))
      /\ Leave(p)
      /\ UNCHANGED <<group, faults, stalls>>

\* The message left but the transaction does not commit.
Rollback(p) ==
  LET r == actor[p].row
  IN  /\ faults > 0 /\ faults' = faults - 1
      /\ actor[p].pc = "send" /\ row[r].kind = "resolved"
      /\ Expected(p) /\ Deliverable(r)
      /\ Left(r)
      /\ Leave(p)
      /\ UNCHANGED <<group, row, stalls>>

\* The process dies before its next statement.
Die(p) ==
  /\ faults > 0 /\ faults' = faults - 1
  /\ actor[p].pc # "idle"
  /\ Leave(p)
  /\ UNCHANGED <<group, row, sends, stalls>>

-----------------------------------------------------------------------------
(* process_due_user_notifications *)

\* The UPDATE that claims a selected row.
Claimable(r) == row[r].status = "pending"

Claim(w, r) ==
  /\ actor[w].pc = "idle" /\ Claimable(r)
  /\ Mark(r, "processing")
  /\ actor' = [actor EXCEPT ![w] = [pc |-> "check", row |-> r]]
  /\ UNCHANGED <<group, sends, faults, stalls>>

\* should_skip_delivery_for_group_status, outside any lock.
CheckDue(w) ==
  LET r == actor[w].row
      skip == IF row[r].kind = "resolved" THEN Stale(r) ELSE group.status # "firing"
  IN  /\ actor[w].pc = "check"
      /\ \/ skip /\ Mark(r, "skipped") /\ Leave(w)
         \/ ~skip /\ Goto(w, "send") /\ UNCHANGED row
      /\ UNCHANGED <<group, sends, faults, stalls>>

Held(r) == \E w \in Workers : actor[w].row = r

\* Variant that leaves abandoned claims alone.
AbandonedNever(r) == FALSE

\* The rows reclaim_abandoned_resolved_deliveries looks for.
Abandoned(r) == row[r].kind = "resolved" /\ row[r].status = "processing"

\* The claim of a dead worker is taken back once its lease is over.
Reclaim(r) ==
  /\ Abandoned(r) /\ ~Held(r)
  /\ Mark(r, "pending")
  /\ UNCHANGED <<group, actor, sends, faults, stalls>>

\* The claim of a worker that is only slow is taken back too.
ReclaimSlow(r) ==
  /\ Abandoned(r) /\ Held(r)
  /\ stalls > 0 /\ stalls' = stalls - 1
  /\ Mark(r, "pending")
  /\ UNCHANGED <<group, actor, sends, faults>>

-----------------------------------------------------------------------------

SendStep(p) == CheckPage(p) \/ DeliverPage(p) \/ SendResolved(p)

WorkerStep(w) == (\E r \in Rows : Claim(w, r)) \/ CheckDue(w) \/ SendStep(w)

Next ==
  \/ Resolve \/ Reopen \/ Release
  \/ \E how \in Holds : Hold(how)
  \/ \E u \in Users : Reassign(u)
  \/ \E q \in Requests, kind \in {"page", "resolved"}, delayed \in BOOLEAN : Enqueue(q, kind, delayed)
  \/ \E q \in Requests : SendStep(q)
  \/ \E w \in Workers : WorkerStep(w)
  \/ \E p \in Actors : Rollback(p) \/ Die(p)
  \/ \E r \in Rows : Reclaim(r) \/ ReclaimSlow(r)

Spec == Init /\ [][Next]_vars

\* The scheduler keeps running the job, which reclaims and sends; a request
\* that does not die runs to its end.  Nothing is assumed of the operators.
FairSpec ==
  /\ Spec
  /\ \A q \in Requests : WF_vars(SendStep(q))
  /\ \A w \in Workers : WF_vars(WorkerStep(w))
  /\ \A r \in Rows : WF_vars(Reclaim(r))

-----------------------------------------------------------------------------
(* Properties *)

\* An actor has a row that was created, of a resolution the group has had; a
\* page is in the hands of one request and of one run of the job at most.
ActorsAgree ==
  /\ \A p \in Actors :
       /\ actor[p].pc = "idle" <=> actor[p].row = 0
       /\ actor[p].row # 0 => row[actor[p].row].status # "none"
       /\ actor[p].pc = "deliver" => row[actor[p].row].kind = "page"
  /\ \A p, q \in Actors : p # q /\ actor[p].row = actor[q].row /\ actor[p].row # 0
                           /\ row[actor[p].row].kind = "page" => (p \in Requests) # (q \in Requests)
  /\ \A r \in Rows : row[r].stamp <= group.cycle /\ (row[r].status = "none" => sends[r] = 0)

InRequest(r) == \E q \in Requests : actor[q].row = r

\* A delayed page leaves at most once; one that the request sends itself may
\* also be claimed by the job, since the request does not claim it, but by no
\* more than one of its runs: the messages that left and those that may still
\* leave are one or two.
PageBounded ==
  \A r \in Rows : row[r].kind = "page" =>
    /\ row[r].status = "pending" => ~Held(r)
    /\ sends[r] + (IF InRequest(r) THEN 1 ELSE 0) + (IF row[r].status = "pending" \/ Held(r) THEN 1 ELSE 0)
         <= IF row[r].delayed THEN 1 ELSE 2

\* A resolved message leaves once, whoever sends it and whichever leases expire;
\* only a transaction lost after the call repeats it.
ResolvedOnce ==
  \A r \in Rows : row[r].kind = "resolved" =>
    sends[r] <= (IF row[r].status \in {"pending", "processing"} THEN 0 ELSE 1) + (MaxFaults - faults)

\* How often rules.py sends a delivery: the claims and leases bound it.
DeliveryInv == TypeOK /\ ActorsAgree /\ PageBounded /\ ResolvedOnce

\* A resolved message never leaves for an older resolution or after the reopen,
\* nor to someone the group has been taken from.
ResolvedFenced ==
  [][\A r \in Rows : row[r].kind = "resolved" /\ sends'[r] # sends[r] =>
       /\ group.status = "resolved" /\ row[r].stamp = group.cycle
       /\ row[r].user = group.assignee]_vars

\* A resolved row reaches its final status, whatever dies on the way.
ResolvedSettles ==
  \A r \in Rows : row[r].kind = "resolved" /\ row[r].status \in {"pending", "processing"}
                    ~> row[r].status \in {"sent", "skipped", "failed"}

=============================================================================
