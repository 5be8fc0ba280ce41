----------------------------- MODULE PendingEvent -----------------------------
(***************************************************************************)
(* Paused orchestration events: app/services/orchestration/pending.py, its *)
(* callers in app/services/alerts/lifecycle.py (_upsert_alert) and the     *)
(* cancellation in app/modules/db/soft_delete_hardening.py.                *)
(*                                                                         *)
(* A web request ("intake") stores, refreshes or resolves the one active   *)
(* row of an event fingerprint; scheduler workers claim due rows and       *)
(* activate them, that is, run the alert lifecycle on the stored event in  *)
(* the transaction that marks the row.  Each SQL statement is a step; the  *)
(* activation transaction is one step because it holds the row's lock from *)
(* its first statement to its commit.                                      *)
(*                                                                         *)
(* Deadlines are kept as the time that is left: `wait` is activation_at    *)
(* minus the clock, `retry` is next_attempt_at minus the clock, `age` is   *)
(* the clock minus claimed_at, up to the claim TTL.                        *)
(***************************************************************************)
EXTENDS Naturals, FiniteSets

CONSTANTS
  Keys,          \* event fingerprints: pending_active_key(group, source, dedup)
  Rows,          \* row ids, 1..n; AutoField never reuses one
  Workers,       \* scheduler processes that run orchestration_pending_event_job
  Intakes,       \* web requests in flight
  Tokens,        \* claim tokens (uuid4)
  None,          \* SQL NULL
  MaxAttempts,   \* ORCHESTRATION_PENDING_MAX_ATTEMPTS
  RetryBase,     \* ORCHESTRATION_PENDING_RETRY_BASE_SECONDS
  RetryCap,      \* the 3600 seconds of _mark_activation_failed
  ClaimTTL,      \* ORCHESTRATION_PENDING_CLAIM_TTL_SECONDS
  Pause,         \* pause_seconds of the rule
  Limit,         \* ORCHESTRATION_PENDING_BATCH_SIZE
  StoreTries,    \* the range(4) of store_paused_event
  MayRaise,      \* whether the alert lifecycle may raise for reasons of its own
  PauseResolves, \* whether the pause rule also matches resolve events
  MaxEvents,     \* bound: events that arrive
  MaxCrashes     \* bound: worker crashes

\* Seconds to the next attempt after n failed ones.
Backoff(n) == LET d == RetryBase * 2^(n - 1) IN IF d > RetryCap THEN RetryCap ELSE d

ASSUME PendingAssumption ==
  /\ Rows \subseteq Nat
  /\ None \notin Tokens /\ None \notin Rows /\ None \notin Keys
  /\ MaxAttempts \in Nat \ {0}
  /\ ClaimTTL \in Nat /\ Pause \in Nat \ {0}
  /\ Limit \in Nat \ {0} /\ StoreTries \in Nat \ {0}
  /\ MayRaise \in BOOLEAN /\ PauseResolves \in BOOLEAN
  /\ MaxEvents \in Nat /\ MaxCrashes \in Nat
  /\ \A n \in 1..MaxAttempts : Backoff(n) \in Nat

VARIABLES
  rows,      \* the PendingOrchestratedEvent table
  alert,     \* the concrete alert of each fingerprint
  activated, \* history: activation transactions committed per row
  worker,    \* process_due_pending_events in each scheduler process
  intake,    \* upsert_alert in each web request
  events, crashes   \* what the bounds have left

vars == <<rows, alert, activated, worker, intake, events, crashes>>

-----------------------------------------------------------------------------

ActiveStatuses == {"pending", "failed", "activating"}
TERMINAL_STATUSES == {"activated", "resolved", "cancelled"}
Statuses == {"absent", "deleted"} \cup ActiveStatuses \cup TERMINAL_STATUSES

EventKinds == {"firing", "resolved"}
Dispositions == {"process", "pause", "drop"}

Blank(status) ==
  [status |-> status, key |-> None, event |-> "firing", wait |-> 0, retry |-> 0,
   attempts |-> 0, token |-> None, age |-> 0]

IdleWorker ==
  [pc |-> "idle", batch |-> {}, lag |-> 0, row |-> None, token |-> None, attempts |-> 0]

IdleIntake ==
  [pc |-> "idle", key |-> None, event |-> "firing", disposition |-> "process",
   retrigger |-> "preserve", tries |-> 0, seen |-> None,
   seenStatus |-> "absent", seenToken |-> None, seenWait |-> 0]

RowType ==
  [status : Statuses, key : Keys \cup {None}, event : EventKinds, wait : Nat, retry : Nat,
   attempts : Nat, token : Tokens \cup {None}, age : Nat]

WorkerType ==
  [pc : {"idle", "loop", "fetch", "activate", "fail"}, batch : SUBSET Rows, lag : Nat,
   row : Rows \cup {None}, token : Tokens \cup {None}, attempts : Nat]

IntakeType ==
  [pc : {"idle", "resolve", "unpend", "settle", "read", "write"}, key : Keys \cup {None},
   event : EventKinds, disposition : Dispositions, retrigger : {"preserve", "reset"},
   tries : Nat, seen : Rows \cup {None}, seenStatus : Statuses,
   seenToken : Tokens \cup {None}, seenWait : Nat]

TypeOK ==
  /\ rows \in [Rows -> RowType]
  /\ alert \in [Keys -> {"none", "firing", "resolved"}]
  /\ activated \in [Rows -> Nat]
  /\ worker \in [Workers -> WorkerType]
  /\ intake \in [Intakes -> IntakeType]
  /\ events \in Nat /\ crashes \in Nat

Init ==
  /\ rows = [r \in Rows |-> Blank("absent")]
  /\ alert = [k \in Keys |-> "none"]
  /\ activated = [r \in Rows |-> 0]
  /\ worker = [w \in Workers |-> IdleWorker]
  /\ intake = [i \in Intakes |-> IdleIntake]
  /\ events = MaxEvents
  /\ crashes = MaxCrashes

Active(r) == rows[r].status \in ActiveStatuses

\* Every UPDATE but the claim itself clears claim_token and claimed_at.
Unclaimed(row, status, retry) ==
  [row EXCEPT !.status = status, !.token = None, !.age = 0, !.retry = retry]

\* The rows whose (unique) active_key is k.
ActiveRows(k) == {r \in Rows : Active(r) /\ rows[r].key = k}

WorkerGoto(w, pc) == worker' = [worker EXCEPT ![w].pc = pc]

IntakeDone(i) == intake' = [intake EXCEPT ![i] = IdleIntake]

\* The rest of _upsert_alert: a firing event opens or updates the alert of its
\* fingerprint, a resolve event closes an open one and is an orphan otherwise.
AlertAfter(k, event) ==
  IF event = "firing" THEN "firing"
  ELSE IF alert[k] = "firing" THEN "resolved" ELSE alert[k]

-----------------------------------------------------------------------------
(* Intake: one web request runs upsert_alert on an event.                  *)

\* The event arrives and the rules pick its disposition.  A resolve event first
\* looks for a paused trigger.
Request(k, e, d, m) ==
  [IdleIntake EXCEPT !.pc = IF e = "resolved" THEN "resolve" ELSE "settle",
                     !.key = k, !.event = e, !.disposition = d, !.retrigger = m]

Arrive(i) ==
  /\ intake[i].pc = "idle"
  /\ events > 0
  /\ events' = events - 1
  /\ \E k \in Keys, e \in EventKinds, d \in Dispositions, m \in {"preserve", "reset"} :
       /\ e = "resolved" /\ ~PauseResolves => d # "pause"
       /\ intake' = [intake EXCEPT ![i] = Request(k, e, d, m)]
  /\ UNCHANGED <<rows, alert, activated, worker, crashes>>

\* resolve_pending_event reads the active row of the fingerprint.
ResolveRead(i) ==
  /\ intake[i].pc = "resolve"
  /\ LET found == ActiveRows(intake[i].key) IN
       \/ /\ found = {}
          /\ intake' = [intake EXCEPT ![i].pc = "settle"]
       \/ \E r \in found :
            intake' = [intake EXCEPT ![i].pc = "unpend", ![i].seen = r]
  /\ UNCHANGED <<rows, alert, activated, worker, events, crashes>>

\* The row as resolve_pending_event, _activate_claimed or
\* cancel_pending_orchestration_work leaves it.
Ended(row, status) == Unclaimed(row, status, 0)

\* The conditional UPDATE.  When it hits, the request ends here
\* ("resolved_before_activation"); when the row left its state, the event goes on.
ResolveWrite(i) ==
  /\ intake[i].pc = "unpend"
  /\ LET r == intake[i].seen IN
       \/ /\ r \in ActiveRows(intake[i].key)
          /\ rows' = [rows EXCEPT ![r] = Ended(rows[r], "resolved")]
          /\ IntakeDone(i)
       \/ /\ r \notin ActiveRows(intake[i].key)
          /\ intake' = [intake EXCEPT ![i].pc = "settle"]
          /\ UNCHANGED rows
  /\ UNCHANGED <<alert, activated, worker, events, crashes>>

\* What is left of _upsert_alert once no paused trigger was resolved: drop,
\* pause (store_paused_event, whatever the event's status) or the lifecycle.
Settle(i) ==
  /\ intake[i].pc = "settle"
  /\ \/ /\ intake[i].disposition = "drop"
        /\ IntakeDone(i)
        /\ UNCHANGED alert
     \/ /\ intake[i].disposition = "pause"
        /\ intake' = [intake EXCEPT ![i].pc = "read", ![i].seen = None]
        /\ UNCHANGED alert
     \/ /\ intake[i].disposition = "process"
        /\ alert' = [alert EXCEPT ![intake[i].key] = AlertAfter(intake[i].key, intake[i].event)]
        /\ IntakeDone(i)
  /\ UNCHANGED <<rows, activated, worker, events, crashes>>

\* store_paused_event, one try: read the active row ...
StoreRead(i) ==
  /\ intake[i].pc = "read"
  /\ LET found == ActiveRows(intake[i].key) IN
       \/ /\ found = {}
          /\ intake' = [intake EXCEPT ![i].pc = "write", ![i].seen = None]
       \/ \E r \in found :
            intake' = [intake EXCEPT ![i] = [intake[i] EXCEPT
                         !.pc = "write", !.seen = r, !.seenStatus = rows[r].status,
                         !.seenToken = rows[r].token, !.seenWait = rows[r].wait]]
  /\ UNCHANGED <<rows, alert, activated, worker, events, crashes>>

\* ... then insert (IntegrityError when another request inserted first),
\* refresh the payload under a live claim, or restart the row.
IsNextId(r) == /\ rows[r].status = "absent"
               /\ \A s \in Rows : rows[s].status = "absent" => r <= s

InsertedRow(i) ==
  [Blank("pending") EXCEPT !.key = intake[i].key, !.event = intake[i].event, !.wait = Pause]

CanInsert(i) == intake[i].seen = None /\ ActiveRows(intake[i].key) = {}

CanRefresh(i) ==
  /\ intake[i].seen # None
  /\ intake[i].seenStatus = "activating"
  /\ intake[i].seen \in ActiveRows(intake[i].key)
  /\ rows[intake[i].seen].status = "activating"
  /\ rows[intake[i].seen].token = intake[i].seenToken

CanRestart(i) ==
  /\ intake[i].seen # None
  /\ intake[i].seenStatus # "activating"
  /\ intake[i].seen \in ActiveRows(intake[i].key)
  /\ rows[intake[i].seen].status \in {"pending", "failed"}

\* Defect: a re-trigger does not reset the attempt counter.
RestartedRowCounting(i, row) ==
  [Unclaimed(row, "pending", 0) EXCEPT !.event = intake[i].event, !.wait = Pause]

RestartedRow(i, row) ==
  [Unclaimed(row, "pending", 0) EXCEPT
     !.event = intake[i].event, !.attempts = 0,
     !.wait = IF intake[i].retrigger = "reset" THEN Pause ELSE intake[i].seenWait]

StoreWrite(i) ==
  /\ intake[i].pc = "write"
  /\ \/ /\ CanInsert(i)
        /\ \E r \in Rows : IsNextId(r) /\ rows' = [rows EXCEPT ![r] = InsertedRow(i)]
        /\ IntakeDone(i)
     \/ /\ CanRefresh(i)
        /\ rows' = [rows EXCEPT ![intake[i].seen].event = intake[i].event]
        /\ IntakeDone(i)
     \/ /\ CanRestart(i)
        /\ rows' = [rows EXCEPT ![intake[i].seen] = RestartedRow(i, rows[intake[i].seen])]
        /\ IntakeDone(i)
     \/ /\ ~CanInsert(i) /\ ~CanRefresh(i) /\ ~CanRestart(i)
        /\ intake[i].tries + 1 < StoreTries
        /\ intake' = [intake EXCEPT ![i].pc = "read", ![i].seen = None, ![i].tries = @ + 1]
        /\ UNCHANGED rows
     \/ /\ ~CanInsert(i) /\ ~CanRefresh(i) /\ ~CanRestart(i)
        /\ intake[i].tries + 1 >= StoreTries  \* RuntimeError: retry the request
        /\ IntakeDone(i)
        /\ UNCHANGED rows
  /\ UNCHANGED <<alert, activated, worker, events, crashes>>

-----------------------------------------------------------------------------
(* Scheduler: process_due_pending_events.                                  *)

\* Defect: claims of dead workers are never returned.
StaleNever(r) == FALSE

\* A claim older than the TTL.
Stale(r) == rows[r].status = "activating" /\ rows[r].age >= ClaimTTL

Requeued(r) ==
  IF Stale(r) THEN Unclaimed(rows[r], "pending", rows[r].retry) ELSE rows[r]

IsDue(row) == row.status = "pending" /\ row.wait = 0 /\ row.retry = 0

\* The job starts: it reads the clock, returns stale claims to the queue and
\* selects the first Limit due rows by activation_at (all past, so any order
\* here) and id.  One step: the SELECT only nominates rows, Claim tests again.
JobStart(w) ==
  /\ worker[w].pc = "idle"
  /\ rows' = [r \in Rows |-> Requeued(r)]
  /\ LET due == {r \in Rows : IsDue(Requeued(r))} IN
       \E B \in SUBSET due :
         /\ Cardinality(B) = IF Cardinality(due) > Limit THEN Limit ELSE Cardinality(due)
         /\ worker' = [worker EXCEPT ![w] = [IdleWorker EXCEPT !.pc = "loop", !.batch = B]]
  /\ UNCHANGED <<alert, activated, intake, events, crashes>>

FreshToken(t) ==
  /\ \A r \in Rows : rows[r].token # t
  /\ \A w \in Workers : worker[w].token # t
  /\ \A i \in Intakes : intake[i].seenToken # t

Claimed(row, t, age) == [row EXCEPT !.status = "activating", !.token = t, !.age = age]

\* _claim_one: the UPDATE tests the status only, and stamps the job's clock.
Claim(w) ==
  /\ worker[w].pc = "loop"
  /\ \E r \in worker[w].batch :
       \/ /\ rows[r].status = "pending"
          /\ \E t \in Tokens :
               /\ FreshToken(t)
               /\ rows' = [rows EXCEPT ![r] = Claimed(rows[r], t, worker[w].lag)]
               /\ worker' = [worker EXCEPT ![w] = [worker[w] EXCEPT
                               !.pc = "fetch", !.row = r, !.token = t, !.batch = @ \ {r}]]
       \/ /\ rows[r].status # "pending"
          /\ worker' = [worker EXCEPT ![w].batch = @ \ {r}]
          /\ UNCHANGED rows
  /\ UNCHANGED <<alert, activated, intake, events, crashes>>

\* The batch is done.
JobEnd(w) ==
  /\ worker[w].pc = "loop"
  /\ worker[w].batch = {}
  /\ worker' = [worker EXCEPT ![w] = IdleWorker]
  /\ UNCHANGED <<rows, alert, activated, intake, events, crashes>>

\* Defect: it is enough that some claim on the row is live.
HoldsClaimAnyToken(w) == rows[worker[w].row].status = "activating"

\* The WHERE of every later statement of the claimant.
HoldsClaim(w) ==
  /\ rows[worker[w].row].status = "activating"
  /\ rows[worker[w].row].token = worker[w].token

\* _claim_one reads the row back by its token; DoesNotExist ends the job.
Fetch(w) ==
  /\ worker[w].pc = "fetch"
  /\ \/ /\ rows[worker[w].row].token = worker[w].token
        /\ worker' = [worker EXCEPT ![w] = [worker[w] EXCEPT
                        !.pc = "activate", !.attempts = rows[worker[w].row].attempts]]
     \/ /\ rows[worker[w].row].token # worker[w].token
        /\ worker' = [worker EXCEPT ![w] = IdleWorker]
  /\ UNCHANGED <<rows, alert, activated, intake, events, crashes>>

NextCandidate(w) ==
  worker' = [worker EXCEPT ![w] = [worker[w] EXCEPT
               !.pc = "loop", !.row = None, !.token = None, !.attempts = 0]]

\* Defect: without the transaction the alert outlives the exception.
ActivateNoRollback(w) ==
  /\ worker[w].pc = "activate"
  /\ LET r == worker[w].row IN
       /\ HoldsClaim(w)
       /\ alert' = [alert EXCEPT ![rows[r].key] = "firing"]
       /\ activated' = [activated EXCEPT ![r] = @ + 1]
       /\ \/ rows' = [rows EXCEPT ![r] = Ended(rows[r], "activated")] /\ NextCandidate(w)
          \/ UNCHANGED rows /\ WorkerGoto(w, "fail")
  /\ UNCHANGED <<intake, events, crashes>>

\* _activate_claimed commits, finds its claim gone, or raises and rolls back.
\* It always raises for a stored resolve event: _upsert_alert then finds this
\* very row in resolve_pending_event and returns no alert.
Activate(w) ==
  /\ worker[w].pc = "activate"
  /\ LET r == worker[w].row IN
       \/ /\ HoldsClaim(w)
          /\ rows[r].event = "firing"
          /\ rows' = [rows EXCEPT ![r] = Ended(rows[r], "activated")]
          /\ alert' = [alert EXCEPT ![rows[r].key] = AlertAfter(rows[r].key, rows[r].event)]
          /\ activated' = [activated EXCEPT ![r] = @ + 1]
          /\ NextCandidate(w)
       \/ /\ HoldsClaim(w)
          /\ MayRaise \/ rows[r].event = "resolved"
          /\ WorkerGoto(w, "fail")
          /\ UNCHANGED <<rows, alert, activated>>
       \/ /\ ~HoldsClaim(w)
          /\ NextCandidate(w)
          /\ UNCHANGED <<rows, alert, activated>>
  /\ UNCHANGED <<intake, events, crashes>>

FailedRow(row, n) ==
  [(IF n >= MaxAttempts THEN Unclaimed(row, "failed", 0)
    ELSE Unclaimed(row, "pending", Backoff(n))) EXCEPT !.attempts = n]

\* Defect: the failure is recorded whatever became of the row.
MarkFailedUnfenced(w) ==
  /\ worker[w].pc = "fail"
  /\ rows' = [rows EXCEPT ![worker[w].row].status = "pending",
                          ![worker[w].row].token = None]
  /\ NextCandidate(w)
  /\ UNCHANGED <<alert, activated, intake, events, crashes>>

\* _mark_activation_failed, with the attempts of the claimed copy.
MarkFailed(w) ==
  /\ worker[w].pc = "fail"
  /\ LET r == worker[w].row
         n == worker[w].attempts + 1 IN
       \/ /\ HoldsClaim(w)
          /\ rows' = [rows EXCEPT ![r] = FailedRow(rows[r], n)]
       \/ /\ ~HoldsClaim(w)
          /\ UNCHANGED rows
  /\ NextCandidate(w)
  /\ UNCHANGED <<alert, activated, intake, events, crashes>>

\* The scheduler process dies between two statements.
Crash(w) ==
  /\ worker[w].pc # "idle"
  /\ crashes > 0
  /\ crashes' = crashes - 1
  /\ worker' = [worker EXCEPT ![w] = IdleWorker]
  /\ UNCHANGED <<rows, alert, activated, intake, events>>

-----------------------------------------------------------------------------
(* Other writers, and time.                                                *)

\* retry_failed_pending_event.
RetryFailed(r) ==
  /\ rows[r].status = "failed"
  /\ events > 0   \* operator requests share the bound of the events
  /\ events' = events - 1
  /\ rows' = [rows EXCEPT ![r] =
                [Unclaimed(rows[r], "pending", 0) EXCEPT !.attempts = 0, !.wait = 0]]
  /\ UNCHANGED <<alert, activated, worker, intake, crashes>>

\* cancel_pending_orchestration_work: a resource is deleted and the active rows
\* in its scope are cancelled.
Cancel ==
  /\ \E S \in SUBSET {r \in Rows : Active(r)} :
       /\ S # {}
       /\ rows' = [r \in Rows |-> IF r \in S THEN Ended(rows[r], "cancelled") ELSE rows[r]]
  /\ UNCHANGED <<alert, activated, worker, intake, events, crashes>>

\* cleanup_orchestration_retention deletes terminal rows past their retention
\* (days, against the minutes of the other deadlines: any moment here).
Cleanup ==
  /\ \E S \in SUBSET {r \in Rows : rows[r].status \in TERMINAL_STATUSES} :
       /\ S # {}
       /\ rows' = [r \in Rows |-> IF r \in S THEN Blank("deleted") ELSE rows[r]]
  /\ UNCHANGED <<alert, activated, worker, intake, events, crashes>>

Less(n) == IF n > 0 THEN n - 1 ELSE 0

Older(n) == IF n < ClaimTTL THEN n + 1 ELSE n

TickedRow(row) ==
  [row EXCEPT !.wait = Less(@), !.retry = Less(@),
              !.age = IF row.status = "activating" THEN Older(@) ELSE @]

Tick ==
  /\ rows' = [r \in Rows |-> TickedRow(rows[r])]
  /\ worker' = [w \in Workers |-> IF worker[w].pc = "idle" THEN worker[w]
                                  ELSE [worker[w] EXCEPT !.lag = Older(@)]]
  /\ intake' = [i \in Intakes |-> [intake[i] EXCEPT !.seenWait = Less(@)]]
  /\ UNCHANGED <<alert, activated, events, crashes>>

-----------------------------------------------------------------------------

IntakeStep(i) ==
  ResolveRead(i) \/ ResolveWrite(i) \/ Settle(i) \/ StoreRead(i) \/ StoreWrite(i)

WorkerStep(w) ==
  \/ JobStart(w) \/ Claim(w) \/ JobEnd(w)
  \/ Fetch(w) \/ Activate(w) \/ MarkFailed(w)

Next ==
  \/ \E i \in Intakes : Arrive(i) \/ IntakeStep(i)
  \/ \E w \in Workers : WorkerStep(w) \/ Crash(w)
  \/ \E r \in Rows : RetryFailed(r)
  \/ Cancel \/ Cleanup \/ Tick

Spec == Init /\ [][Next]_vars

\* The clock runs, the interval trigger keeps starting the job, and a request
\* that was accepted is run to its end.
FairSpec ==
  /\ Spec
  /\ WF_vars(Tick)
  /\ \A w \in Workers : WF_vars(WorkerStep(w))
  /\ \A i \in Intakes : WF_vars(IntakeStep(i))

-----------------------------------------------------------------------------
(* Properties.                                                             *)

(* A paused event enters the alert lifecycle at most once, whatever        *)
(* claims were lost, requeued and taken again in between (_activate_claimed *)
(* commits the alert and the row's end together, under its token).         *)
ActivatedOnce ==
  \A r \in Rows : /\ activated[r] <= 1
                  /\ rows[r].status = "activated" => activated[r] = 1
                  /\ rows[r].status \notin {"activated", "deleted"} => activated[r] = 0

(* A settled row stays settled: once a resolve, a cancellation or an       *)
(* activation ended it, no late worker, retry or re-trigger brings it back *)
(* or activates it (only retention deletes it).                            *)
SettledForGood ==
  [][\A r \in Rows : rows[r].status \in TERMINAL_STATUSES =>
       /\ rows'[r].status \in {rows[r].status, "deleted"}
       /\ activated'[r] = activated[r]]_vars

(* Only the worker that holds the row's claim token ends the claim by an   *)
(* activation or a counted failure; a worker whose claim was requeued and  *)
(* taken by another changes nothing.                                       *)
ClaimFenced ==
  [][\A r \in Rows :
       rows[r].status = "activating"
       /\ (rows'[r].status = "activated" \/ rows'[r].attempts > rows[r].attempts)
       => \E w \in Workers : /\ worker[w].row = r
                             /\ worker[w].token = rows[r].token
                             /\ worker'[w].token = None]_vars

(* Why: the status, active key, claim token and attempt counter of a row   *)
(* agree, a fingerprint has one active row, and a token has one holder.    *)
KeyAgrees ==
  /\ \A r \in Rows : Active(r) => rows[r].key \in Keys
  /\ \A q, r \in Rows : q # r /\ Active(q) /\ Active(r) => rows[q].key # rows[r].key

IntakeAgrees == \A i \in Intakes : intake[i].pc # "idle" => intake[i].key \in Keys

ClaimAgrees ==
  /\ \A r \in Rows : rows[r].status = "activating" <=> rows[r].token # None
  /\ \A q, r \in Rows : q # r /\ rows[q].token # None => rows[q].token # rows[r].token

HolderAgrees ==
  /\ \A w \in Workers :
       worker[w].pc \in {"fetch", "activate", "fail"}
         <=> worker[w].row # None /\ worker[w].token # None
  /\ \A v, w \in Workers :
       v # w /\ worker[v].token # None => worker[v].token # worker[w].token
  /\ \A w \in Workers, r \in Rows :
       worker[w].token # None /\ rows[r].token = worker[w].token => worker[w].row = r
  /\ \A w \in Workers :
       worker[w].pc \in {"activate", "fail"} /\ HoldsClaim(w)
         => worker[w].attempts = rows[worker[w].row].attempts

AttemptsBounded ==
  \A r \in Rows :
    /\ rows[r].status \in {"pending", "activating"} => rows[r].attempts < MaxAttempts
    /\ rows[r].status = "failed" => rows[r].attempts = MaxAttempts

PendingInv ==
  TypeOK /\ KeyAgrees /\ IntakeAgrees /\ ClaimAgrees /\ HolderAgrees /\ AttemptsBounded

(* Every paused event settles or is exposed as failed: a claim of a dead   *)
(* worker returns to the queue after the TTL and failures are counted.     *)
PausedEventSettles ==
  \A r \in Rows :
    rows[r].status \in {"pending", "activating"}
      ~> rows[r].status \notin {"pending", "activating"}

=============================================================================
