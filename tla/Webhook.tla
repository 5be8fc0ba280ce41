------------------------------ MODULE Webhook ------------------------------
(***************************************************************************)
(* Orchestration webhooks, app/services/orchestration/webhooks.py: the     *)
(* queue of AutomationExecution rows of one group, the job that claims and *)
(* delivers them (process_due_webhooks), the soft delete that cancels them *)
(* (cancel_pending_orchestration_work) and the operator's retry.           *)
(*                                                                         *)
(* Every UPDATE and SELECT is a step of its own, so two runs of the job    *)
(* interleave between the requeue, the SELECT, the count, the claim, the   *)
(* request and its result; the job's lock has a lease, so they may overlap.*)
(*                                                                         *)
(* claimed_at is the time the job began, so a claim may be stale as soon   *)
(* as it is made: a lease may expire under a live worker at any moment,    *)
(* MaxFaults times.  Retry times are left out: a pending row may become    *)
(* due at any time.  A worker never holds two claims, so its name stands   *)
(* for the claim token.                                                    *)
(***************************************************************************)
EXTENDS Naturals, FiniteSets

CONSTANTS
  MaxRows,      \* bound on the requests the executions ask for (one idempotency key each)
  Workers,      \* runs of the job
  NoToken,      \* claim_token NULL
  MaxAttempts,  \* 1 + retry_count
  Concurrency,  \* ORCHESTRATION_WEBHOOK_PER_GROUP_CONCURRENCY
  MaxFaults     \* bound on the workers that die, the leases that end early or
                \* late, the rate limit's refusals and the operator's retries

ASSUME WebhookAssumption ==
  /\ NoToken \notin Workers /\ IsFiniteSet(Workers)
  /\ {MaxAttempts, Concurrency} \subseteq Nat \ {0}
  /\ {MaxRows, MaxFaults} \subseteq Nat

VARIABLES
  row,       \* AutomationExecution: status, attempts, claim_token
  enabled,   \* the webhook action is enabled
  worker,    \* per run: statement, selected rows, the row it has read
  sends,     \* history: requests made since the row was queued
  overlap,   \* history: two runs of the job have overlapped
  faults     \* faults left

vars == <<row, enabled, worker, sends, overlap, faults>>

Rows == 1 .. MaxRows

\* _TERMINAL_STATUSES.
TerminalStatuses == {"succeeded", "failed", "cancelled"}

NoRow == [status |-> "absent", attempts |-> 0, token |-> NoToken]

\* Between two runs of the job a worker is at its next candidate and has none.
Idle == [pc |-> "next", todo |-> {}, row |-> 0, result |-> "none"]

Results == {"ok", "retryable", "permanent"}

RowType == [status : {"absent", "pending", "running"} \cup TerminalStatuses,
            attempts : Nat, token : Workers \cup {NoToken}]

WorkerType == [pc : {"select", "next", "claim", "recheck", "send", "mark"}, todo : SUBSET Rows,
               row : Rows \cup {0}, result : Results \cup {"none"}]

TypeOK ==
  /\ row \in [Rows -> RowType]
  /\ enabled \in BOOLEAN /\ overlap \in BOOLEAN
  /\ worker \in [Workers -> WorkerType]
  /\ sends \in [Rows -> Nat]
  /\ faults \in 0 .. MaxFaults

Init ==
  /\ row = [r \in Rows |-> NoRow]
  /\ enabled = TRUE /\ overlap = FALSE
  /\ worker = [w \in Workers |-> Idle]
  /\ sends = [r \in Rows |-> 0]
  /\ faults = MaxFaults

-----------------------------------------------------------------------------
(* The queue *)

\* enqueue_execution_webhooks: get_or_create by the idempotency key.
Enqueue(r) ==
  /\ enabled /\ row[r].status = "absent" /\ \A s \in 1 .. r - 1 : row[s].status # "absent"
  /\ row' = [row EXCEPT ![r].status = "pending"]
  /\ UNCHANGED <<enabled, worker, sends, overlap, faults>>

\* update_webhook_action or delete.
Disable ==
  /\ enabled /\ enabled' = FALSE
  /\ UNCHANGED <<row, worker, sends, overlap, faults>>

\* cancel_pending_orchestration_work.
Cancel(r) ==
  /\ row[r].status \in {"pending", "running"}
  /\ row' = [row EXCEPT ![r].status = "cancelled", ![r].token = NoToken]
  /\ UNCHANGED <<enabled, worker, sends, overlap, faults>>

\* retry_failed_webhook.
RetryFailed(r) ==
  /\ row[r].status = "failed"
  /\ faults > 0 /\ faults' = faults - 1
  /\ row' = [row EXCEPT ![r].status = "pending", ![r].attempts = 0, ![r].token = NoToken]
  /\ sends' = [sends EXCEPT ![r] = 0]
  /\ UNCHANGED <<enabled, worker, overlap>>

-----------------------------------------------------------------------------
(* The job *)

\* The worker that made the claim still works on it.
Alive(r) == \E w \in Workers : row[r].token = w /\ worker[w].row = r
                              /\ worker[w].pc \in {"recheck", "send", "mark"}

\* Variant that overlooks the claims of dead workers.
StaleLive == {r \in Rows : row[r].status = "running" /\ Alive(r)}

\* Claims older than the TTL: those of dead workers, and of slow ones.
Stale == {r \in Rows : row[r].status = "running"}

Requeued(S) ==
  [r \in Rows |-> IF r \in S THEN [row[r] EXCEPT !.status = "pending", !.token = NoToken] ELSE row[r]]

\* process_due_webhooks begins with _requeue_stale_claims.  A fault is a claim
\* that is younger than the TTL though its worker is dead, or older though alive.
\* A run with nothing to do is left out: what is queued after its start is found
\* by a run that starts later.
JobStart(w) ==
  /\ worker[w] = Idle
  /\ \E odd \in SUBSET Stale :
       /\ Cardinality(odd) <= faults
       /\ faults' = faults - Cardinality(odd)
       /\ row' = Requeued({r \in Stale : r \in odd <=> Alive(r)})
  /\ \E r \in Rows : row'[r].status = "pending"
  /\ worker' = [worker EXCEPT ![w].pc = "select"]
  /\ overlap' = (overlap \/ \E v \in Workers \ {w} : worker[v] # Idle)
  /\ UNCHANGED <<enabled, sends>>

\* The SELECT of the due rows, whatever became of them since.
SelectDue(w) ==
  /\ worker[w].pc = "select"
  /\ worker' = [worker EXCEPT ![w] =
                  [Idle EXCEPT !.todo = {r \in Rows : row[r].status = "pending"}]]
  /\ UNCHANGED <<row, enabled, sends, overlap, faults>>

\* Variant that starts whatever is running.
CapacityAlways == TRUE

Running == {r \in Rows : row[r].status = "running"}

\* _group_capacity: the concurrency.
Capacity == Cardinality(Running) < Concurrency

\* Candidates are taken in the order they were created.
IsNext(w, r) ==
  worker[w].pc = "next" /\ r \in worker[w].todo /\ \A s \in worker[w].todo : r <= s

\* No capacity skips a candidate until the next run of the job.
Count(w, r) ==
  /\ IsNext(w, r)
  /\ worker' = [worker EXCEPT ![w].todo = @ \ {r}, ![w].pc = IF Capacity THEN "claim" ELSE "next",
                              ![w].row = IF Capacity THEN r ELSE @]
  /\ UNCHANGED <<row, enabled, sends, overlap, faults>>

\* _group_capacity: so does the rate of the last minute.
RateSkip(w, r) ==
  /\ IsNext(w, r)
  /\ faults > 0 /\ faults' = faults - 1
  /\ worker' = [worker EXCEPT ![w].todo = @ \ {r}]
  /\ UNCHANGED <<row, enabled, sends, overlap>>

\* The worker goes on with its batch.
NextCandidate(w) == worker' = [worker EXCEPT ![w] = [Idle EXCEPT !.todo = worker[w].todo]]

\* The row the UPDATE of _claim_one leaves.
Claimed(r, w) == [status |-> "running", attempts |-> row[r].attempts + 1, token |-> w]

\* _claim_one.
Claim(w) ==
  LET r == worker[w].row
  IN  /\ worker[w].pc = "claim"
      /\ \/ /\ row[r].status = "pending"
            /\ row' = [row EXCEPT ![r] = Claimed(r, w)]
            /\ worker' = [worker EXCEPT ![w].pc = "recheck"]
         \/ row[r].status # "pending" /\ NextCandidate(w) /\ UNCHANGED row
      /\ UNCHANGED <<enabled, sends, overlap, faults>>

\* Variant of the UPDATEs by id alone.
OwnsById(w) == TRUE

\* WHERE status = running AND claim_token = the token of this claim.
Owns(w) == row[worker[w].row].status = "running" /\ row[worker[w].row].token = w

\* The tests of _deliver_claimed before the request.
Recheck(w) ==
  LET r == worker[w].row
  IN  /\ worker[w].pc = "recheck"
      /\ \/ Owns(w) /\ enabled /\ worker' = [worker EXCEPT ![w].pc = "send"] /\ UNCHANGED row
         \/ Owns(w) /\ ~enabled /\ NextCandidate(w)
            /\ row' = [row EXCEPT ![r].status = "cancelled", ![r].token = NoToken]
         \/ ~Owns(w) /\ NextCandidate(w) /\ UNCHANGED row
      /\ UNCHANGED <<enabled, sends, overlap, faults>>

\* deliver_webhook: the request may have left even if it fails.
Send(w) ==
  /\ worker[w].pc = "send"
  /\ \E result \in Results : worker' = [worker EXCEPT ![w].pc = "mark", ![w].result = result]
  /\ sends' = [sends EXCEPT ![worker[w].row] = @ + 1]
  /\ UNCHANGED <<row, enabled, overlap, faults>>

\* The status _mark_succeeded and _mark_failed give.
ResultStatus(result, attempts) ==
  CASE result = "ok" -> "succeeded"
    [] result = "retryable" /\ attempts < MaxAttempts -> "pending"
    [] OTHER -> "failed"

Mark(w) ==
  LET r == worker[w].row
      s == ResultStatus(worker[w].result, row[r].attempts)
  IN  /\ worker[w].pc = "mark"
      /\ row' = IF Owns(w) THEN [row EXCEPT ![r].status = s, ![r].token = NoToken] ELSE row
      /\ NextCandidate(w)
      /\ UNCHANGED <<enabled, sends, overlap, faults>>

\* The process dies; its claim, if it made one, stays.
Crash(w) ==
  /\ worker[w] # Idle
  /\ faults > 0 /\ faults' = faults - 1
  /\ worker' = [worker EXCEPT ![w] = Idle]
  /\ UNCHANGED <<row, enabled, sends, overlap>>

-----------------------------------------------------------------------------

WorkerStep(w) ==
  \/ JobStart(w) \/ SelectDue(w) \/ Claim(w) \/ Recheck(w) \/ Send(w) \/ Mark(w)
  \/ \E r \in Rows : Count(w, r)

Next ==
  \/ Disable
  \/ \E r \in Rows : Enqueue(r) \/ Cancel(r) \/ RetryFailed(r)
  \/ \E w \in Workers : WorkerStep(w) \/ Crash(w)
  \/ \E w \in Workers, r \in Rows : RateSkip(w, r)

Spec == Init /\ [][Next]_vars

\* The scheduler keeps running the job.  Nothing is assumed of the operators.
FairSpec == Spec /\ \A w \in Workers : WF_vars(WorkerStep(w))

-----------------------------------------------------------------------------
(* Properties *)

\* A worker has a row exactly while it works on a candidate.
WorkerAgrees ==
  \A w \in Workers : IF worker[w].pc \in {"select", "next"} THEN worker[w].row = 0 /\ worker[w].result = "none"
                                             ELSE worker[w].row \in Rows

\* Workers that will make a request for the row, and those among them that have
\* lost the claim.
Requesting(r) == {w \in Workers : worker[w].row = r /\
                    (worker[w].pc = "send" \/ (worker[w].pc = "recheck" /\ Owns(w)))}
Late(r) == {w \in Workers : worker[w].row = r /\ worker[w].pc = "send" /\ ~Owns(w)}

\* A row gets the configured number of attempts each time it is queued, plus
\* one for every claim that was taken back, and one request per attempt, plus
\* those of runs that had lost their claim: a row to be claimed has an attempt
\* left, or a fault pays for it.
RowBounded(r) ==
  LET lost == MaxFaults - faults
  IN  /\ row[r].attempts <= MaxAttempts + lost
      /\ row[r].status \in {"absent", "pending"} \/ (row[r].status = "running" /\ ~Alive(r)) =>
           row[r].attempts < MaxAttempts + lost
      /\ sends[r] + Cardinality(Requesting(r)) <= row[r].attempts + lost
      /\ row[r].status # "cancelled" => Cardinality(Late(r)) <= lost

AttemptsBounded == \A r \in Rows : RowBounded(r)

\* Unless two runs of the job have overlapped, a group never has more requests
\* running than its limit, counting those of a run that died: the capacity a
\* run has counted is still there when it claims.
ConcurrencyKept ==
  ~overlap =>
    /\ Cardinality(Running) <= Concurrency
    /\ \A v, w \in Workers : worker[v] # Idle /\ worker[w] # Idle => v = w
    /\ \A w \in Workers : worker[w].pc = "claim" => Capacity

\* The attempt limit and the concurrency limit of webhooks.py.
WebhookInv == TypeOK /\ WorkerAgrees /\ AttemptsBounded /\ ConcurrencyKept

\* A final status is final: a run that answers late, after its claim was taken
\* back, cancelled or finished by another, changes nothing.
FinalStays ==
  [][\A r \in Rows : row[r].status \in TerminalStatuses =>
       \/ row'[r].status = row[r].status
       \/ row[r].status = "failed" /\ row'[r].status = "pending" /\ row'[r].attempts = 0]_vars

\* A queued request is answered for, whoever dies or loses its claim.
WebhookSettles ==
  \A r \in Rows : row[r].status \in {"pending", "running"} ~> row[r].status \in TerminalStatuses

=============================================================================
