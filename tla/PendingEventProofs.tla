-------------------------- MODULE PendingEventProofs --------------------------
(***************************************************************************)
(* For every number of workers, requests, rows, fingerprints and bounds:   *)
(* the bookkeeping of paused events agrees, an event is activated at most  *)
(* once, and a settled row stays settled.                                  *)
(***************************************************************************)
EXTENDS PendingEvent, TLAPS

\* The statuses a row can have (PendingOrchestratedEvent.status), enumerated.
LEMMA StatusValues ==
  {"absent", "deleted", "pending", "failed", "activating", "activated", "resolved", "cancelled"}
    = Statuses
BY DEF Statuses, ActiveStatuses, TERMINAL_STATUSES

\* What the statements write is a row.
LEMMA RowUpdates ==
  ASSUME NEW row \in RowType
  PROVE  /\ \A st \in Statuses, d \in Nat : Unclaimed(row, st, d) \in RowType
         /\ \A t \in Tokens, a \in Nat : Claimed(row, t, a) \in RowType
         /\ \A e \in EventKinds : [row EXCEPT !.event = e] \in RowType
         /\ \A n \in Nat : [row EXCEPT !.attempts = n] \in RowType
         /\ \A n \in Nat : [row EXCEPT !.wait = n] \in RowType
         /\ \A i \in Intakes : intake[i] \in IntakeType => RestartedRow(i, row) \in RowType
         /\ TickedRow(row) \in RowType
<1>1. \A st \in Statuses, d \in Nat : Unclaimed(row, st, d) \in RowType
  BY DEF Unclaimed, RowType
<1>2. \A t \in Tokens, a \in Nat : Claimed(row, t, a) \in RowType
  BY StatusValues DEF Claimed, RowType
<1>3. \A e \in EventKinds : [row EXCEPT !.event = e] \in RowType
  BY DEF RowType
<1>4. /\ \A n \in Nat : [row EXCEPT !.attempts = n] \in RowType
      /\ \A n \in Nat : [row EXCEPT !.wait = n] \in RowType
  BY DEF RowType
<1>5. ASSUME NEW i \in Intakes, intake[i] \in IntakeType
      PROVE  RestartedRow(i, row) \in RowType
  <2>1. Unclaimed(row, "pending", 0) \in RowType
    BY <1>1, StatusValues
  <2>2. intake[i].seenWait \in Nat /\ intake[i].event \in EventKinds
    BY <1>5 DEF IntakeType
  <2>3. (IF intake[i].retrigger = "reset" THEN Pause ELSE intake[i].seenWait) \in Nat
    BY <2>2, PendingAssumption
  <2> HIDE DEF EventKinds
  <2> QED BY <2>1, <2>2, <2>3 DEF RestartedRow, RowType
<1>6. TickedRow(row) \in RowType
  <2>1. \A n \in Nat : Less(n) \in Nat /\ Older(n) \in Nat
    BY PendingAssumption DEF Less, Older
  <2>2. row.wait \in Nat /\ row.retry \in Nat /\ row.age \in Nat
    BY DEF RowType
  <2>3. ASSUME NEW a \in Nat, NEW b \in Nat, NEW c \in Nat
        PROVE  [row EXCEPT !.wait = a, !.retry = b, !.age = c] \in RowType
    BY DEF RowType
  <2> QED BY <2>1, <2>2, <2>3 DEF TickedRow
<1> QED BY <1>1, <1>2, <1>3, <1>4, <1>5, <1>6

\* What _mark_activation_failed writes is a row.
LEMMA FailedRowType ==
  ASSUME NEW row \in RowType, NEW n \in 1..MaxAttempts
  PROVE  FailedRow(row, n) \in RowType
<1>1. n \in Nat /\ Backoff(n) \in Nat
  BY PendingAssumption
<1>2. Unclaimed(row, "failed", 0) \in RowType /\ Unclaimed(row, "pending", Backoff(n)) \in RowType
  BY <1>1, RowUpdates, StatusValues
<1> QED BY <1>1, <1>2, RowUpdates DEF FailedRow

\* An idle worker, an idle request and an unused id are well typed.
LEMMA Blanks ==
  /\ IdleWorker \in WorkerType /\ IdleIntake \in IntakeType
  /\ \A st \in Statuses : Blank(st) \in RowType
BY StatusValues DEF IdleWorker, WorkerType, IdleIntake, IntakeType, Blank, RowType, EventKinds, Dispositions

\* An empty table satisfies the invariant.
LEMMA InitPending == Init => PendingInv /\ ActivatedOnce
<1> SUFFICES ASSUME Init PROVE PendingInv /\ ActivatedOnce
  OBVIOUS
<1>1. TypeOK
  BY PendingAssumption, Blanks, StatusValues DEF Init, TypeOK
<1>2. KeyAgrees /\ IntakeAgrees /\ ClaimAgrees /\ HolderAgrees /\ AttemptsBounded /\ ActivatedOnce
  BY DEF Init, KeyAgrees, IntakeAgrees, IdleIntake, ClaimAgrees, HolderAgrees, AttemptsBounded,
         ActivatedOnce, Active, ActiveStatuses, HoldsClaim, Blank, IdleWorker
<1> QED BY <1>1, <1>2 DEF PendingInv

\* Every statement on the table, and every local step of a job or a request,
\* keeps rows, workers and requests well typed.
LEMMA TypeStep == PendingInv /\ [Next]_vars => TypeOK'
<1> SUFFICES ASSUME PendingInv, [Next]_vars PROVE TypeOK'
  OBVIOUS
<1>0. TypeOK /\ HolderAgrees /\ AttemptsBounded
  BY DEF PendingInv
<1>1. ASSUME NEW i \in Intakes, Arrive(i) PROVE TypeOK'
  <2>1. \A k \in Keys, e \in EventKinds, d \in Dispositions, m \in {"preserve", "reset"} :
          Request(k, e, d, m) \in IntakeType
    <3> SUFFICES ASSUME NEW k \in Keys, NEW e \in EventKinds, NEW d \in Dispositions,
                        NEW m \in {"preserve", "reset"}
                 PROVE  Request(k, e, d, m) \in IntakeType
      OBVIOUS
    <3>1. (IF e = "resolved" THEN "resolve" ELSE "settle") \in {"resolve", "settle"}
      OBVIOUS
    <3> QED BY <3>1, Blanks DEF Request, IntakeType
  <2>2. intake' \in [Intakes -> IntakeType]
    BY <1>0, <1>1, <2>1 DEF Arrive, TypeOK
  <2> QED BY <1>0, <1>1, <2>2 DEF Arrive, TypeOK
<1>2. ASSUME NEW i \in Intakes, ResolveRead(i) PROVE TypeOK'
  BY <1>0, <1>2 DEF ResolveRead, TypeOK, ActiveRows, IntakeType
<1>3. ASSUME NEW i \in Intakes, ResolveWrite(i) PROVE TypeOK'
  <2>1. intake' \in [Intakes -> IntakeType]
    BY <1>0, <1>3, Blanks DEF ResolveWrite, IntakeDone, TypeOK, IntakeType
  <2>2. rows' \in [Rows -> RowType]
    BY <1>0, <1>3, RowUpdates, StatusValues, SMTT(30) DEF ResolveWrite, Ended, TypeOK, ActiveRows
  <2> QED BY <1>0, <1>3, <2>1, <2>2 DEF ResolveWrite, TypeOK
<1>4. ASSUME NEW i \in Intakes, Settle(i) PROVE TypeOK'
  BY <1>0, <1>4, Blanks DEF Settle, TypeOK, AlertAfter, IntakeDone, IntakeType
<1>5. ASSUME NEW i \in Intakes, StoreRead(i) PROVE TypeOK'
  <2>1. intake[i] \in IntakeType /\ \A r \in Rows : rows[r] \in RowType
    BY <1>0 DEF TypeOK
  <2>2. [intake[i] EXCEPT !.pc = "write", !.seen = None] \in IntakeType
    BY <2>1 DEF IntakeType
  <2>3. ASSUME NEW r \in Rows
        PROVE  [intake[i] EXCEPT !.pc = "write", !.seen = r, !.seenStatus = rows[r].status,
                  !.seenToken = rows[r].token, !.seenWait = rows[r].wait] \in IntakeType
    <3>1. rows[r].status \in Statuses /\ rows[r].token \in Tokens \cup {None} /\ rows[r].wait \in Nat
      BY <2>1 DEF RowType
    <3> QED BY <2>1, <3>1 DEF IntakeType
  <2>4. intake' \in [Intakes -> IntakeType]
    BY <1>0, <1>5, <2>2, <2>3 DEF StoreRead, TypeOK, ActiveRows
  <2> QED BY <1>0, <1>5, <2>4 DEF StoreRead, TypeOK
<1>6. ASSUME NEW i \in Intakes, StoreWrite(i) PROVE TypeOK'
  <2>1. intake[i] \in IntakeType /\ intake[i].event \in EventKinds /\ intake[i].key \in Keys \cup {None}
    BY <1>0 DEF TypeOK, IntakeType
  <2>2. InsertedRow(i) \in RowType
    BY <2>1, Blanks, StatusValues, PendingAssumption DEF InsertedRow, RowType
  <2>3. rows' \in [Rows -> RowType]
    BY <1>0, <1>6, <2>1, <2>2, RowUpdates
       DEF StoreWrite, TypeOK, CanRefresh, CanRestart, ActiveRows
  <2>4. intake' \in [Intakes -> IntakeType]
    BY <1>0, <1>6, Blanks DEF StoreWrite, IntakeDone, TypeOK, IntakeType
  <2> QED BY <1>0, <1>6, <2>3, <2>4 DEF StoreWrite, TypeOK
<1>7. ASSUME NEW w \in Workers, JobStart(w) PROVE TypeOK'
  <2>1. rows' \in [Rows -> RowType]
    <3>1. \A r \in Rows : rows[r] \in RowType /\ rows[r].retry \in Nat
      BY <1>0 DEF TypeOK, RowType
    <3> QED BY <1>7, <3>1, RowUpdates, StatusValues DEF JobStart, Requeued
  <2>2. worker' \in [Workers -> WorkerType]
    <3>1. \A B \in SUBSET Rows : [IdleWorker EXCEPT !.pc = "loop", !.batch = B] \in WorkerType
      BY Blanks DEF WorkerType
    <3>2. PICK B \in SUBSET Rows :
            worker' = [worker EXCEPT ![w] = [IdleWorker EXCEPT !.pc = "loop", !.batch = B]]
      BY <1>7 DEF JobStart
    <3> QED BY <1>0, <3>1, <3>2 DEF TypeOK
  <2> QED BY <1>0, <1>7, <2>1, <2>2 DEF JobStart, TypeOK
<1>8. ASSUME NEW w \in Workers, Claim(w) PROVE TypeOK'
  <2>1. worker[w].lag \in Nat /\ worker[w].batch \subseteq Rows
    BY <1>0 DEF TypeOK, WorkerType
  <2>2. PICK r \in worker[w].batch :
          \/ \E t \in Tokens :
               /\ rows' = [rows EXCEPT ![r] = Claimed(rows[r], t, worker[w].lag)]
               /\ worker' = [worker EXCEPT ![w] = [worker[w] EXCEPT
                               !.pc = "fetch", !.row = r, !.token = t, !.batch = @ \ {r}]]
          \/ /\ worker' = [worker EXCEPT ![w].batch = @ \ {r}]
             /\ UNCHANGED rows
    BY <1>8 DEF Claim
  <2>3. r \in Rows /\ rows[r] \in RowType /\ worker[w] \in WorkerType
    BY <1>0, <2>1 DEF TypeOK
  <2>4. \A t \in Tokens : Claimed(rows[r], t, worker[w].lag) \in RowType
    BY <2>1, <2>3, RowUpdates
  <2>5. /\ \A t \in Tokens : [worker[w] EXCEPT !.pc = "fetch", !.row = r, !.token = t,
                                               !.batch = @ \ {r}] \in WorkerType
        /\ [worker[w] EXCEPT !.batch = @ \ {r}] \in WorkerType
    BY <2>3 DEF WorkerType
  <2>6. rows' \in [Rows -> RowType]
    BY <1>0, <2>2, <2>3, <2>4 DEF TypeOK
  <2>7. worker' \in [Workers -> WorkerType]
    BY <1>0, <2>2, <2>5 DEF TypeOK
  <2> QED BY <1>0, <1>8, <2>6, <2>7 DEF Claim, TypeOK
<1>9. ASSUME NEW w \in Workers, JobEnd(w) PROVE TypeOK'
  BY <1>0, <1>9, Blanks DEF JobEnd, TypeOK
<1>10. ASSUME NEW w \in Workers, Fetch(w) PROVE TypeOK'
  <2>1. worker[w].row \in Rows
    BY <1>0, <1>10 DEF Fetch, TypeOK, WorkerType, HolderAgrees
  <2>2. rows[worker[w].row].attempts \in Nat
    BY <1>0, <2>1 DEF TypeOK, RowType
  <2>3. worker' \in [Workers -> WorkerType]
    <3>1. [worker[w] EXCEPT !.pc = "activate", !.attempts = rows[worker[w].row].attempts]
            \in WorkerType
      BY <1>0, <2>2 DEF TypeOK, WorkerType
    <3> QED BY <1>0, <1>10, <3>1, Blanks DEF Fetch, TypeOK
  <2> QED BY <1>0, <1>10, <2>3 DEF Fetch, TypeOK
<1>a. \A w \in Workers : [worker[w] EXCEPT !.pc = "loop", !.row = None, !.token = None,
                                            !.attempts = 0] \in WorkerType
  BY <1>0 DEF TypeOK, WorkerType
<1>11. ASSUME NEW w \in Workers, Activate(w) PROVE TypeOK'
  <2>1. worker[w].row \in Rows
    BY <1>0, <1>11 DEF Activate, TypeOK, WorkerType, HolderAgrees
  <2>2. rows' \in [Rows -> RowType]
    <3>1. Unclaimed(rows[worker[w].row], "activated", 0) \in RowType
      BY <1>0, <2>1, RowUpdates, StatusValues DEF TypeOK
    <3> QED BY <1>0, <1>11, <3>1 DEF Activate, Ended, TypeOK
  <2>3. worker' \in [Workers -> WorkerType]
    <3>1. [worker[w] EXCEPT !.pc = "fail"] \in WorkerType
      BY <1>0 DEF TypeOK, WorkerType
    <3> QED BY <1>0, <1>11, <3>1, <1>a DEF Activate, NextCandidate, WorkerGoto, TypeOK
  <2>4. alert' \in [Keys -> {"none", "firing", "resolved"}] /\ activated' \in [Rows -> Nat]
    BY <1>0, <1>11, <2>1 DEF Activate, AlertAfter, TypeOK
  <2> QED BY <1>0, <1>11, <2>2, <2>3, <2>4 DEF Activate, TypeOK
<1>12. ASSUME NEW w \in Workers, MarkFailed(w) PROVE TypeOK'
  <2>1. worker[w].row \in Rows
    BY <1>0, <1>12 DEF MarkFailed, TypeOK, WorkerType, HolderAgrees
  <2>2. HoldsClaim(w) => worker[w].attempts + 1 \in 1..MaxAttempts
    <3> SUFFICES ASSUME HoldsClaim(w) PROVE worker[w].attempts + 1 \in 1..MaxAttempts
      OBVIOUS
    <3>1. worker[w].attempts = rows[worker[w].row].attempts /\ worker[w].attempts \in Nat
      BY <1>0, <1>12 DEF MarkFailed, HolderAgrees, TypeOK, WorkerType
    <3>2. rows[worker[w].row].attempts < MaxAttempts
      BY <1>0, <2>1 DEF AttemptsBounded, HoldsClaim
    <3> QED BY <3>1, <3>2, PendingAssumption
  <2>3. rows' \in [Rows -> RowType]
    BY <1>0, <1>12, <2>1, <2>2, FailedRowType DEF MarkFailed, TypeOK
  <2>4. worker' \in [Workers -> WorkerType]
    BY <1>0, <1>12, <1>a DEF MarkFailed, NextCandidate, TypeOK
  <2> QED BY <1>0, <1>12, <2>3, <2>4 DEF MarkFailed, TypeOK
<1>13. ASSUME NEW w \in Workers, Crash(w) PROVE TypeOK'
  BY <1>0, <1>13, Blanks DEF Crash, TypeOK
<1>14. ASSUME NEW r \in Rows, RetryFailed(r) PROVE TypeOK'
  <2>1. Unclaimed(rows[r], "pending", 0) \in RowType
    BY <1>0, RowUpdates, StatusValues DEF TypeOK
  <2>2. [Unclaimed(rows[r], "pending", 0) EXCEPT !.attempts = 0, !.wait = 0] \in RowType
    BY <2>1 DEF RowType
  <2> QED BY <1>0, <1>14, <2>2 DEF RetryFailed, TypeOK
<1>15. CASE Cancel
  <2>1. rows' \in [Rows -> RowType]
    <3>1. \A r \in Rows : rows[r] \in RowType /\ Unclaimed(rows[r], "cancelled", 0) \in RowType
      BY <1>0, RowUpdates, StatusValues DEF TypeOK
    <3> QED BY <1>15, <3>1 DEF Cancel, Ended
  <2> QED BY <1>0, <1>15, <2>1 DEF Cancel, TypeOK
<1>16. CASE Cleanup
  BY <1>0, <1>16, Blanks, StatusValues DEF Cleanup, TypeOK
<1>17. CASE Tick
  <2>1. rows' \in [Rows -> RowType]
    BY <1>0, <1>17, RowUpdates DEF Tick, TypeOK
  <2>2. worker' \in [Workers -> WorkerType]
    <3>1. ASSUME NEW w \in Workers
          PROVE  worker[w] \in WorkerType /\ [worker[w] EXCEPT !.lag = Older(@)] \in WorkerType
      <4>1. worker[w] \in WorkerType /\ worker[w].lag \in Nat
        BY <1>0 DEF TypeOK, WorkerType
      <4>2. Older(worker[w].lag) \in Nat
        BY <4>1, PendingAssumption DEF Older
      <4> QED BY <4>1, <4>2 DEF WorkerType
    <3> QED BY <1>17, <3>1 DEF Tick
  <2>3. intake' \in [Intakes -> IntakeType]
    <3>1. ASSUME NEW i \in Intakes PROVE [intake[i] EXCEPT !.seenWait = Less(@)] \in IntakeType
      <4>1. intake[i] \in IntakeType /\ intake[i].seenWait \in Nat
        BY <1>0 DEF TypeOK, IntakeType
      <4>2. Less(intake[i].seenWait) \in Nat
        BY <4>1 DEF Less
      <4> QED BY <4>1, <4>2 DEF IntakeType
    <3> QED BY <1>17, <3>1 DEF Tick
  <2> QED BY <1>0, <1>17, <2>1, <2>2, <2>3 DEF Tick, TypeOK
<1>18. CASE UNCHANGED vars
  BY <1>0, <1>18 DEF vars, TypeOK
<1> QED
  BY <1>1, <1>2, <1>3, <1>4, <1>5, <1>6, <1>7, <1>8, <1>9, <1>10, <1>11, <1>12, <1>13,
     <1>14, <1>15, <1>16, <1>17, <1>18 DEF Next, IntakeStep, WorkerStep

-----------------------------------------------------------------------------
(* What one step may do to a row, field by field.                          *)

\* Nothing that matters: only deadlines, the payload or the age of the claim.
RowQuiet(r) ==
  /\ rows'[r].status = rows[r].status /\ rows'[r].key = rows[r].key
  /\ rows'[r].token = rows[r].token /\ rows'[r].attempts = rows[r].attempts
  /\ activated'[r] = activated[r]

\* An active row loses its claim, if it had one.
RowFreed(r) ==
  /\ Active(r)
  /\ rows'[r].key = rows[r].key /\ rows'[r].token = None
  /\ \/ rows'[r].status = "pending" /\ rows'[r].attempts < MaxAttempts
     \/ rows'[r].status = "failed" /\ rows'[r].attempts = MaxAttempts
     \/ rows'[r].status \in TERMINAL_STATUSES
  /\ activated'[r] = IF rows'[r].status = "activated" THEN activated[r] + 1 ELSE activated[r]

RowGone(r) ==
  /\ rows[r].status \in TERMINAL_STATUSES
  /\ rows'[r].status = "deleted" /\ rows'[r].token = None
  /\ activated'[r] = activated[r]

RowInserted(r) ==
  /\ rows[r].status = "absent" /\ rows'[r].status = "pending"
  /\ rows'[r].key \in Keys /\ ActiveRows(rows'[r].key) = {}
  /\ rows'[r].token = None /\ rows'[r].attempts = 0
  /\ activated'[r] = activated[r]

RowClaimed(r) ==
  /\ rows[r].status = "pending" /\ rows'[r].status = "activating"
  /\ rows'[r].key = rows[r].key /\ rows'[r].attempts = rows[r].attempts
  /\ rows'[r].token \in Tokens /\ FreshToken(rows'[r].token)
  /\ activated'[r] = activated[r]

RowStep ==
  \/ \A r \in Rows : RowQuiet(r) \/ RowFreed(r) \/ RowGone(r)
  \/ \E q \in Rows : /\ RowInserted(q) \/ RowClaimed(q)
                     /\ \A r \in Rows \ {q} : RowQuiet(r)

\* _requeue_stale_claims and the other writers of a row that drop its claim
\* leave no token on it and change neither its key nor its attempts.
LEMMA UnclaimedFields ==
  ASSUME NEW row \in RowType, NEW st, NEW d
  PROVE  /\ Unclaimed(row, st, d).status = st /\ Unclaimed(row, st, d).token = None
         /\ Unclaimed(row, st, d).key = row.key
         /\ Unclaimed(row, st, d).attempts = row.attempts
BY DEF Unclaimed, RowType

\* What a step can do to the rows: it only ages, frees or ends them, or it
\* inserts one (store_paused_event) or claims one (_claim_one) and no other.
LEMMA RowSteps == PendingInv /\ Next => RowStep
<1> SUFFICES ASSUME PendingInv, Next PROVE RowStep
  OBVIOUS
<1>0. /\ TypeOK /\ HolderAgrees /\ AttemptsBounded /\ IntakeAgrees
      /\ \A r \in Rows : rows[r] \in RowType
      /\ activated \in [Rows -> Nat]
  BY DEF PendingInv, TypeOK
<1>1. ASSUME UNCHANGED <<rows, activated>> PROVE RowStep
  BY <1>1 DEF RowStep, RowQuiet
<1>2. ASSUME NEW i \in Intakes, ResolveWrite(i) PROVE RowStep
  <2>1. CASE UNCHANGED rows
    BY <1>1, <1>2, <2>1 DEF ResolveWrite
  <2>2. CASE /\ intake[i].seen \in ActiveRows(intake[i].key)
             /\ rows' = [rows EXCEPT ![intake[i].seen] = Unclaimed(rows[intake[i].seen], "resolved", 0)]
    <3> DEFINE q == intake[i].seen
    <3>1. q \in Rows /\ Active(q)
      BY <2>2 DEF ActiveRows
    <3>2. rows'[q] = Unclaimed(rows[q], "resolved", 0) /\ \A r \in Rows \ {q} : rows'[r] = rows[r]
      BY <1>0, <2>2, <3>1 DEF TypeOK
    <3>3. activated' = activated
      BY <1>2 DEF ResolveWrite
    <3>4. RowFreed(q)
      BY <1>0, <3>1, <3>2, <3>3, UnclaimedFields DEF RowFreed, TERMINAL_STATUSES
    <3> QED BY <3>2, <3>3, <3>4 DEF RowStep, RowQuiet
  <2> QED BY <1>2, <2>1, <2>2 DEF ResolveWrite, Ended
<1>3. ASSUME NEW i \in Intakes, StoreWrite(i) PROVE RowStep
  <2> DEFINE q == intake[i].seen
  <2>0. activated' = activated /\ intake[i].key \in Keys
    BY <1>0, <1>3 DEF StoreWrite, IntakeAgrees
  <2>1. CASE UNCHANGED rows
    BY <1>1, <2>0, <2>1
  <2>2. ASSUME CanInsert(i), NEW r \in Rows, IsNextId(r), rows' = [rows EXCEPT ![r] = InsertedRow(i)]
        PROVE  RowStep
    <3>1. rows'[r] = InsertedRow(i) /\ \A s \in Rows \ {r} : rows'[s] = rows[s]
      BY <1>0, <2>2 DEF TypeOK
    <3>2. /\ InsertedRow(i).status = "pending" /\ InsertedRow(i).key = intake[i].key
          /\ InsertedRow(i).token = None /\ InsertedRow(i).attempts = 0
      BY DEF InsertedRow, Blank
    <3>3. RowInserted(r)
      BY <2>0, <2>2, <3>1, <3>2 DEF RowInserted, IsNextId, CanInsert
    <3> QED BY <2>0, <3>1, <3>3 DEF RowStep, RowQuiet
  <2>3. CASE CanRefresh(i) /\ rows' = [rows EXCEPT ![q].event = intake[i].event]
    <3>1. q \in Rows
      BY <2>3 DEF CanRefresh, ActiveRows
    <3>2. rows'[q] = [rows[q] EXCEPT !.event = intake[i].event] /\ \A r \in Rows \ {q} : rows'[r] = rows[r]
      BY <1>0, <2>3, <3>1 DEF TypeOK
    <3>3. RowQuiet(q)
      BY <1>0, <2>0, <3>1, <3>2 DEF RowQuiet, RowType
    <3> QED BY <2>0, <3>2, <3>3 DEF RowStep, RowQuiet
  <2>4. CASE CanRestart(i) /\ rows' = [rows EXCEPT ![q] = RestartedRow(i, rows[q])]
    <3>1. q \in Rows /\ Active(q)
      BY <2>4 DEF CanRestart, ActiveRows
    <3>2. rows'[q] = RestartedRow(i, rows[q]) /\ \A r \in Rows \ {q} : rows'[r] = rows[r]
      BY <1>0, <2>4, <3>1 DEF TypeOK
    <3>3. Unclaimed(rows[q], "pending", 0) \in RowType
      BY <1>0, <3>1, RowUpdates, StatusValues
    <3>4. /\ rows'[q].status = "pending" /\ rows'[q].key = rows[q].key
          /\ rows'[q].token = None /\ rows'[q].attempts = 0
      BY <1>0, <3>1, <3>2, <3>3, UnclaimedFields DEF RestartedRow, RowType
    <3>5. RowFreed(q)
      BY <2>0, <3>1, <3>4, PendingAssumption DEF RowFreed
    <3> QED BY <2>0, <3>2, <3>5 DEF RowStep, RowQuiet
  <2> QED BY <1>3, <2>1, <2>2, <2>3, <2>4 DEF StoreWrite
<1>4. ASSUME NEW w \in Workers, JobStart(w) PROVE RowStep
  <2>1. activated' = activated /\ \A r \in Rows : rows'[r] = Requeued(r)
    BY <1>4 DEF JobStart
  <2>2. ASSUME NEW r \in Rows, Stale(r) PROVE RowFreed(r)
    <3>1. rows'[r] = Unclaimed(rows[r], "pending", rows[r].retry)
      BY <2>1, <2>2 DEF Requeued
    <3>2. Active(r) /\ rows[r].attempts < MaxAttempts
      BY <1>0, <2>2 DEF Stale, Active, ActiveStatuses, AttemptsBounded
    <3> QED BY <1>0, <2>1, <3>1, <3>2, UnclaimedFields DEF RowFreed
  <2>3. ASSUME NEW r \in Rows, ~Stale(r) PROVE RowQuiet(r)
    BY <2>1, <2>3 DEF Requeued, RowQuiet
  <2> QED BY <2>2, <2>3 DEF RowStep
<1>5. ASSUME NEW w \in Workers, Claim(w) PROVE RowStep
  <2>0. activated' = activated /\ worker[w].batch \subseteq Rows
    BY <1>0, <1>5 DEF Claim, TypeOK, WorkerType
  <2>1. CASE UNCHANGED rows
    BY <1>1, <2>0, <2>1
  <2>2. ASSUME NEW q \in Rows, rows[q].status = "pending", NEW t \in Tokens, FreshToken(t),
               rows' = [rows EXCEPT ![q] = Claimed(rows[q], t, worker[w].lag)]
        PROVE  RowStep
    <3>1. rows'[q] = Claimed(rows[q], t, worker[w].lag) /\ \A r \in Rows \ {q} : rows'[r] = rows[r]
      BY <1>0, <2>2 DEF TypeOK
    <3>2. /\ rows'[q].status = "activating" /\ rows'[q].token = t
          /\ rows'[q].key = rows[q].key /\ rows'[q].attempts = rows[q].attempts
      BY <1>0, <3>1 DEF Claimed, RowType
    <3>3. RowClaimed(q)
      BY <2>0, <2>2, <3>2 DEF RowClaimed
    <3> QED BY <2>0, <3>1, <3>3 DEF RowStep, RowQuiet
  <2> QED BY <1>5, <2>0, <2>1, <2>2 DEF Claim
<1>6. ASSUME NEW w \in Workers, Activate(w) PROVE RowStep
  <2> DEFINE q == worker[w].row
  <2>1. CASE UNCHANGED <<rows, activated>>
    BY <1>1, <2>1
  <2>2. CASE /\ HoldsClaim(w)
             /\ rows' = [rows EXCEPT ![q] = Unclaimed(rows[q], "activated", 0)]
             /\ activated' = [activated EXCEPT ![q] = @ + 1]
    <3>1. q \in Rows
      BY <1>0, <1>6 DEF Activate, HolderAgrees, TypeOK, WorkerType
    <3>2. /\ rows'[q] = Unclaimed(rows[q], "activated", 0)
          /\ activated'[q] = activated[q] + 1
          /\ \A r \in Rows \ {q} : rows'[r] = rows[r] /\ activated'[r] = activated[r]
      BY <1>0, <2>2, <3>1 DEF TypeOK
    <3>3. RowFreed(q)
      BY <1>0, <2>2, <3>1, <3>2, UnclaimedFields
         DEF RowFreed, HoldsClaim, Active, ActiveStatuses, TERMINAL_STATUSES
    <3> QED BY <3>2, <3>3 DEF RowStep, RowQuiet
  <2> QED BY <1>6, <2>1, <2>2 DEF Activate, Ended
<1>7. ASSUME NEW w \in Workers, MarkFailed(w) PROVE RowStep
  <2> DEFINE q == worker[w].row
             n == worker[w].attempts + 1
  <2>0. activated' = activated
    BY <1>7 DEF MarkFailed
  <2>1. CASE UNCHANGED rows
    BY <1>1, <2>0, <2>1
  <2>2. CASE HoldsClaim(w) /\ rows' = [rows EXCEPT ![q] = FailedRow(rows[q], n)]
    <3>1. q \in Rows
      BY <1>0, <1>7 DEF MarkFailed, HolderAgrees, TypeOK, WorkerType
    <3>2. n \in 1..MaxAttempts
      <4>1. worker[w].attempts = rows[q].attempts /\ worker[w].attempts \in Nat
        BY <1>0, <1>7, <2>2 DEF MarkFailed, HolderAgrees, TypeOK, WorkerType
      <4>2. rows[q].attempts < MaxAttempts
        BY <1>0, <2>2, <3>1 DEF AttemptsBounded, HoldsClaim
      <4> QED BY <4>1, <4>2, PendingAssumption
    <3>3. rows'[q] = FailedRow(rows[q], n) /\ \A r \in Rows \ {q} : rows'[r] = rows[r]
      BY <1>0, <2>2, <3>1 DEF TypeOK
    <3>4. PICK st \in {"failed", "pending"}, d \in Nat :
            /\ FailedRow(rows[q], n) = [Unclaimed(rows[q], st, d) EXCEPT !.attempts = n]
            /\ st = "failed" <=> n >= MaxAttempts
      <4>1. CASE n >= MaxAttempts
        BY <4>1 DEF FailedRow
      <4>2. CASE ~(n >= MaxAttempts)
        <5>1. Backoff(n) \in Nat
          BY <3>2, PendingAssumption
        <5> QED BY <4>2, <5>1 DEF FailedRow
      <4> QED BY <4>1, <4>2
    <3>5. Unclaimed(rows[q], st, d) \in RowType
      BY <1>0, <3>1, RowUpdates, StatusValues
    <3>6. /\ rows'[q].status = st /\ rows'[q].attempts = n
          /\ rows'[q].key = rows[q].key /\ rows'[q].token = None
      BY <1>0, <3>1, <3>3, <3>4, <3>5, UnclaimedFields DEF RowType
    <3>7. RowFreed(q)
      <4>1. Active(q)
        BY <2>2 DEF HoldsClaim, Active, ActiveStatuses
      <4>2. \/ st = "pending" /\ n < MaxAttempts
            \/ st = "failed" /\ n = MaxAttempts
        BY <3>2, <3>4, PendingAssumption
      <4> QED BY <2>0, <3>6, <4>1, <4>2 DEF RowFreed
    <3> QED BY <2>0, <3>3, <3>7 DEF RowStep, RowQuiet
  <2> QED BY <1>7, <2>1, <2>2 DEF MarkFailed
<1>8. ASSUME NEW q \in Rows, RetryFailed(q) PROVE RowStep
  <2>1. /\ rows'[q] = [Unclaimed(rows[q], "pending", 0) EXCEPT !.attempts = 0, !.wait = 0]
        /\ \A r \in Rows \ {q} : rows'[r] = rows[r]
        /\ activated' = activated
    BY <1>0, <1>8 DEF RetryFailed, TypeOK
  <2>2. Unclaimed(rows[q], "pending", 0) \in RowType
    BY <1>0, RowUpdates, StatusValues
  <2>3. /\ rows'[q].status = "pending" /\ rows'[q].attempts = 0
        /\ rows'[q].key = rows[q].key /\ rows'[q].token = None
    BY <1>0, <2>1, <2>2, UnclaimedFields DEF RowType
  <2>4. RowFreed(q)
    BY <1>8, <2>1, <2>3, PendingAssumption DEF RowFreed, RetryFailed, Active, ActiveStatuses
  <2> QED BY <2>1, <2>4 DEF RowStep, RowQuiet
<1>9. CASE Cancel
  <2>1. PICK S \in SUBSET {r \in Rows : Active(r)} :
          \A r \in Rows : rows'[r] = IF r \in S THEN Unclaimed(rows[r], "cancelled", 0) ELSE rows[r]
    BY <1>9 DEF Cancel, Ended
  <2>2. activated' = activated
    BY <1>9 DEF Cancel
  <2>3. \A r \in S : RowFreed(r)
    BY <1>0, <2>1, <2>2, UnclaimedFields DEF RowFreed, TERMINAL_STATUSES
  <2> QED BY <2>1, <2>2, <2>3 DEF RowStep, RowQuiet
<1>10. CASE Cleanup
  <2>1. PICK S \in SUBSET {r \in Rows : rows[r].status \in TERMINAL_STATUSES} :
          \A r \in Rows : rows'[r] = IF r \in S THEN Blank("deleted") ELSE rows[r]
    BY <1>10 DEF Cleanup
  <2>2. activated' = activated
    BY <1>10 DEF Cleanup
  <2>3. \A r \in S : RowGone(r)
    BY <2>1, <2>2 DEF RowGone, Blank
  <2> QED BY <2>1, <2>2, <2>3 DEF RowStep, RowQuiet
<1>11. CASE Tick
  <2>1. ASSUME NEW r \in Rows PROVE RowQuiet(r)
    <3>1. rows'[r] = TickedRow(rows[r]) /\ activated' = activated
      BY <1>11 DEF Tick
    <3>2. /\ TickedRow(rows[r]).status = rows[r].status /\ TickedRow(rows[r]).key = rows[r].key
          /\ TickedRow(rows[r]).token = rows[r].token
          /\ TickedRow(rows[r]).attempts = rows[r].attempts
      BY <1>0 DEF TickedRow, RowType
    <3> QED BY <3>1, <3>2 DEF RowQuiet
  <2> QED BY <2>1 DEF RowStep
<1>12. ASSUME NEW i \in Intakes, Arrive(i) \/ ResolveRead(i) \/ Settle(i) \/ StoreRead(i)
       PROVE  RowStep
  BY <1>1, <1>12 DEF Arrive, ResolveRead, Settle, StoreRead
<1>13. ASSUME NEW w \in Workers, JobEnd(w) \/ Fetch(w) \/ Crash(w) PROVE RowStep
  BY <1>1, <1>13 DEF JobEnd, Fetch, Crash
<1> QED
  BY <1>2, <1>3, <1>4, <1>5, <1>6, <1>7, <1>8, <1>9, <1>10, <1>11, <1>12, <1>13
     DEF Next, IntakeStep, WorkerStep

-----------------------------------------------------------------------------
(* What one step may do to a worker's claim.                               *)

WorkerQuiet(w) ==
  /\ worker'[w].pc = worker[w].pc /\ worker'[w].row = worker[w].row
  /\ worker'[w].token = worker[w].token /\ worker'[w].attempts = worker[w].attempts

WorkerFree(w) ==
  worker'[w].pc \in {"idle", "loop"} /\ worker'[w].row = None /\ worker'[w].token = None

WorkerClaims(w) ==
  /\ worker'[w].pc = "fetch" /\ worker'[w].row \in Rows
  /\ worker'[w].token \in Tokens /\ FreshToken(worker'[w].token)
  /\ \A r \in Rows : rows'[r].token = worker'[w].token => r = worker'[w].row

WorkerFetches(w) ==
  /\ worker[w].pc = "fetch" /\ worker'[w].pc = "activate"
  /\ worker'[w].row = worker[w].row /\ worker'[w].token = worker[w].token
  /\ worker'[w].attempts = rows[worker[w].row].attempts
  /\ UNCHANGED rows

WorkerRaises(w) ==
  /\ worker[w].pc = "activate" /\ worker'[w].pc = "fail"
  /\ worker'[w].row = worker[w].row /\ worker'[w].token = worker[w].token
  /\ worker'[w].attempts = worker[w].attempts

WorkerMoves ==
  \E v \in Workers :
    /\ \/ WorkerQuiet(v) \/ WorkerFree(v) \/ WorkerClaims(v) \/ WorkerFetches(v) \/ WorkerRaises(v)
    /\ \A w \in Workers \ {v} : WorkerQuiet(w)

AllQuiet == \A w \in Workers : WorkerQuiet(w)

\* A step changes at most one worker, in one of the ways WorkerMoves lists:
\* the stages of process_due_pending_events and the crash of its process.
LEMMA WorkerSteps == PendingInv /\ Next => AllQuiet \/ WorkerMoves
<1> SUFFICES ASSUME PendingInv, Next PROVE AllQuiet \/ WorkerMoves
  OBVIOUS
<1>0. /\ TypeOK /\ HolderAgrees
      /\ \A w \in Workers : worker[w] \in WorkerType
  BY DEF PendingInv, TypeOK
<1>1. ASSUME UNCHANGED worker PROVE AllQuiet
  BY <1>1 DEF AllQuiet, WorkerQuiet
<1>a. ASSUME NEW w \in Workers, NEW x, worker' = [worker EXCEPT ![w] = x]
      PROVE  worker'[w] = x /\ \A v \in Workers \ {w} : WorkerQuiet(v)
  BY <1>0, <1>a DEF TypeOK, WorkerQuiet
<1>b. IdleWorker.pc = "idle" /\ IdleWorker.row = None /\ IdleWorker.token = None
  BY DEF IdleWorker
<1>2. ASSUME NEW w \in Workers, JobStart(w) PROVE WorkerMoves
  <2>1. PICK B : worker' = [worker EXCEPT ![w] = [IdleWorker EXCEPT !.pc = "loop", !.batch = B]]
    BY <1>2 DEF JobStart
  <2>2. WorkerFree(w)
    <3>1. worker'[w] = [IdleWorker EXCEPT !.pc = "loop", !.batch = B]
      BY <1>a, <2>1
    <3> QED BY <3>1 DEF WorkerFree, IdleWorker
  <2> QED BY <1>a, <2>1, <2>2 DEF WorkerMoves
<1>3. ASSUME NEW w \in Workers, Claim(w) PROVE WorkerMoves
  <2>1. ASSUME NEW r \in worker[w].batch, worker' = [worker EXCEPT ![w].batch = @ \ {r}]
        PROVE  WorkerMoves
    <3>1. worker' = [worker EXCEPT ![w] = [worker[w] EXCEPT !.batch = @ \ {r}]]
      BY <2>1
    <3>2. WorkerQuiet(w)
      BY <1>0, <1>a, <3>1 DEF WorkerQuiet, WorkerType
    <3> QED BY <1>a, <3>1, <3>2 DEF WorkerMoves
  <2>2. ASSUME NEW r \in worker[w].batch, NEW t \in Tokens, FreshToken(t),
               rows' = [rows EXCEPT ![r] = Claimed(rows[r], t, worker[w].lag)],
               worker' = [worker EXCEPT ![w] = [worker[w] EXCEPT
                            !.pc = "fetch", !.row = r, !.token = t, !.batch = @ \ {r}]]
        PROVE  WorkerMoves
    <3>1. r \in Rows
      BY <1>0 DEF WorkerType
    <3>2. worker'[w].pc = "fetch" /\ worker'[w].row = r /\ worker'[w].token = t
      <4>1. worker'[w] = [worker[w] EXCEPT !.pc = "fetch", !.row = r, !.token = t,
                                           !.batch = @ \ {r}]
        BY <1>a, <2>2
      <4> QED BY <1>0, <4>1 DEF WorkerType
    <3>3. \A s \in Rows \ {r} : rows'[s] = rows[s]
      BY <1>0, <2>2, <3>1 DEF TypeOK
    <3>4. WorkerClaims(w)
      BY <2>2, <3>1, <3>2, <3>3 DEF WorkerClaims, FreshToken
    <3> QED BY <1>a, <2>2, <3>4 DEF WorkerMoves
  <2> QED BY <1>3, <2>1, <2>2 DEF Claim
<1>4. ASSUME NEW w \in Workers, worker' = [worker EXCEPT ![w] = IdleWorker] PROVE WorkerMoves
  BY <1>a, <1>b, <1>4 DEF WorkerFree, WorkerMoves
<1>5. ASSUME NEW w \in Workers, Fetch(w) PROVE WorkerMoves
  <2>1. CASE worker' = [worker EXCEPT ![w] = [worker[w] EXCEPT
                          !.pc = "activate", !.attempts = rows[worker[w].row].attempts]]
    <3>1. WorkerFetches(w)
      <4>1. worker'[w] = [worker[w] EXCEPT !.pc = "activate",
                                           !.attempts = rows[worker[w].row].attempts]
        BY <1>a, <2>1
      <4> QED BY <1>0, <1>5, <4>1 DEF WorkerFetches, WorkerType, Fetch
    <3> QED BY <1>a, <2>1, <3>1 DEF WorkerMoves
  <2> QED BY <1>4, <1>5, <2>1 DEF Fetch
<1>6. ASSUME NEW w \in Workers, NextCandidate(w) PROVE WorkerMoves
  <2>1. WorkerFree(w)
    <3>1. worker'[w] = [worker[w] EXCEPT !.pc = "loop", !.row = None, !.token = None,
                                         !.attempts = 0]
      BY <1>6, <1>a DEF NextCandidate
    <3> QED BY <1>0, <3>1 DEF WorkerFree, WorkerType
  <2> QED BY <1>6, <1>a, <2>1 DEF NextCandidate, WorkerMoves
<1>7. ASSUME NEW w \in Workers, Activate(w) PROVE WorkerMoves
  <2>1. CASE WorkerGoto(w, "fail")
    <3>1. worker' = [worker EXCEPT ![w] = [worker[w] EXCEPT !.pc = "fail"]]
      BY <2>1 DEF WorkerGoto
    <3>2. WorkerRaises(w)
      <4>1. worker'[w] = [worker[w] EXCEPT !.pc = "fail"]
        BY <1>a, <3>1
      <4> QED BY <1>0, <1>7, <4>1 DEF WorkerRaises, WorkerType, Activate
    <3> QED BY <1>a, <3>1, <3>2 DEF WorkerMoves
  <2> QED BY <1>6, <1>7, <2>1 DEF Activate
<1>8. CASE Tick
  <2>1. ASSUME NEW w \in Workers PROVE WorkerQuiet(w)
    BY <1>0, <1>8 DEF Tick, WorkerQuiet, WorkerType
  <2> QED BY <2>1 DEF AllQuiet
<1>9. ASSUME NEW i \in Intakes, Arrive(i) \/ IntakeStep(i) PROVE AllQuiet
  BY <1>1, <1>9 DEF Arrive, IntakeStep, ResolveRead, ResolveWrite, Settle, StoreRead, StoreWrite
<1>10. ASSUME NEW r \in Rows, RetryFailed(r) PROVE AllQuiet
  BY <1>1, <1>10 DEF RetryFailed
<1>11. CASE Cancel \/ Cleanup
  BY <1>1, <1>11 DEF Cancel, Cleanup
<1> QED
  BY <1>2, <1>3, <1>4, <1>5, <1>6, <1>7, <1>8, <1>9, <1>10, <1>11
     DEF Next, WorkerStep, JobEnd, Crash, MarkFailed

-----------------------------------------------------------------------------

\* One row step keeps keys, claims and attempt counts in agreement, and never
\* activates a row twice (_activate_claimed).
LEMMA RowsAgree ==
  ASSUME PendingInv, ActivatedOnce, RowStep, TypeOK'
  PROVE  KeyAgrees' /\ ClaimAgrees' /\ AttemptsBounded' /\ ActivatedOnce'
<1>0. /\ TypeOK /\ KeyAgrees /\ ClaimAgrees /\ AttemptsBounded
      /\ activated \in [Rows -> Nat] /\ None \notin Tokens
  BY PendingAssumption DEF PendingInv, TypeOK
<1> USE DEF ActiveStatuses, TERMINAL_STATUSES, Active
<1>1. KeyAgrees'
  BY <1>0 DEF RowStep, RowQuiet, RowFreed, RowGone, RowInserted, RowClaimed, KeyAgrees, ActiveRows
<1>2. ClaimAgrees'
  BY <1>0 DEF RowStep, RowQuiet, RowFreed, RowGone, RowInserted, RowClaimed, ClaimAgrees, FreshToken
<1>3. AttemptsBounded'
  BY <1>0, PendingAssumption
     DEF RowStep, RowQuiet, RowFreed, RowGone, RowInserted, RowClaimed, AttemptsBounded
<1>4. ActivatedOnce'
  BY <1>0 DEF RowStep, RowQuiet, RowFreed, RowGone, RowInserted, RowClaimed, ActivatedOnce
<1> QED BY <1>1, <1>2, <1>3, <1>4

\* A token identifies one claim of one row (_claim_one): no step makes two
\* workers hold it, and a worker that still holds its row knows its attempts.
LEMMA HoldersAgree ==
  ASSUME PendingInv, RowStep, AllQuiet \/ WorkerMoves, TypeOK'
  PROVE  HolderAgrees'
<1>0. /\ TypeOK /\ HolderAgrees /\ ClaimAgrees /\ ClaimAgrees
      /\ None \notin Tokens /\ None \notin Rows
  BY PendingAssumption DEF PendingInv
<1>1. \A r \in Rows : \/ rows'[r].token = rows[r].token
                      \/ rows'[r].token = None
                      \/ rows'[r].token \in Tokens /\ FreshToken(rows'[r].token)
  BY DEF RowStep, RowQuiet, RowFreed, RowGone, RowInserted, RowClaimed
<1>2. \A r \in Rows : rows'[r].token = rows[r].token /\ rows'[r].status = "activating"
                        /\ rows[r].status = "activating" => rows'[r].attempts = rows[r].attempts
  BY DEF RowStep, RowQuiet, RowFreed, RowGone, RowInserted, RowClaimed, TERMINAL_STATUSES
<1>3. /\ \A w \in Workers :
           worker'[w].pc \in {"fetch", "activate", "fail"}
             <=> worker'[w].row # None /\ worker'[w].token # None
      /\ \A v, w \in Workers :
           v # w /\ worker'[v].token # None => worker'[v].token # worker'[w].token
  BY <1>0 DEF AllQuiet, WorkerMoves, WorkerQuiet, WorkerFree, WorkerClaims, WorkerFetches,
              WorkerRaises, HolderAgrees, FreshToken
<1>4. \A w \in Workers, r \in Rows :
        worker'[w].token # None /\ rows'[r].token = worker'[w].token => worker'[w].row = r
  BY <1>0, <1>1 DEF AllQuiet, WorkerMoves, WorkerQuiet, WorkerFree, WorkerClaims, WorkerFetches,
              WorkerRaises, HolderAgrees, FreshToken
<1>5. ASSUME NEW w \in Workers, worker'[w].pc \in {"activate", "fail"}, HoldsClaim(w)'
      PROVE  worker'[w].attempts = rows'[worker'[w].row].attempts
  <2>1. worker'[w].row \in Rows /\ worker'[w].token # None
    BY <1>3, <1>5 DEF TypeOK, WorkerType
  <2>2. /\ worker'[w].row = worker[w].row /\ worker'[w].token = worker[w].token
        /\ \/ worker[w].pc \in {"activate", "fail"} /\ worker'[w].attempts = worker[w].attempts
           \/ UNCHANGED rows /\ worker'[w].attempts = rows[worker[w].row].attempts
    BY <1>5 DEF AllQuiet, WorkerMoves, WorkerQuiet, WorkerFree, WorkerClaims, WorkerFetches, WorkerRaises
  <2>3. rows'[worker[w].row].token = worker[w].token /\ rows'[worker[w].row].status = "activating"
    BY <1>5, <2>2 DEF HoldsClaim
  <2>4. rows[worker[w].row].token = worker[w].token
    BY <1>1, <2>1, <2>2, <2>3 DEF FreshToken
  <2>5. rows[worker[w].row].status = "activating"
    BY <1>0, <2>1, <2>2, <2>4 DEF ClaimAgrees
  <2>6. rows'[worker[w].row].attempts = rows[worker[w].row].attempts
    BY <1>2, <2>1, <2>2, <2>3, <2>4, <2>5
  <2>7. CASE worker[w].pc \in {"activate", "fail"} /\ worker'[w].attempts = worker[w].attempts
    BY <1>0, <2>2, <2>4, <2>5, <2>6, <2>7 DEF HolderAgrees, HoldsClaim
  <2> QED BY <2>2, <2>6, <2>7
<1> QED BY <1>3, <1>4, <1>5 DEF HolderAgrees

\* A request in store_paused_event or resolve_pending_event works on a key.
LEMMA IntakesAgree == PendingInv /\ Next => IntakeAgrees'
<1> SUFFICES ASSUME PendingInv, Next PROVE IntakeAgrees'
  OBVIOUS
<1>0. IntakeAgrees /\ intake \in [Intakes -> IntakeType] /\ \A i \in Intakes : intake[i] \in IntakeType
  BY DEF PendingInv, TypeOK
<1>1. ASSUME NEW i \in Intakes, Arrive(i) PROVE IntakeAgrees'
  <2>1. PICK k \in Keys, e \in EventKinds, d \in Dispositions, m \in {"preserve", "reset"} :
          intake' = [intake EXCEPT ![i] = Request(k, e, d, m)]
    BY <1>1 DEF Arrive
  <2>2. Request(k, e, d, m).key = k
    BY DEF Request, IdleIntake
  <2> QED BY <1>0, <2>1, <2>2 DEF IntakeAgrees
<1>2. ASSUME NEW i \in Intakes, IntakeStep(i) PROVE IntakeAgrees'
  <2>1. /\ \A j \in Intakes \ {i} : intake'[j] = intake[j]
        /\ intake'[i] = IdleIntake \/ intake'[i].key = intake[i].key
        /\ intake[i].pc # "idle"
    <3>1. CASE ResolveRead(i)
      BY <1>0, <3>1 DEF ResolveRead, IntakeType
    <3>2. CASE ResolveWrite(i)
      BY <1>0, <3>2 DEF ResolveWrite, IntakeDone, IntakeType
    <3>3. CASE Settle(i)
      BY <1>0, <3>3 DEF Settle, IntakeDone, IntakeType
    <3>4. CASE StoreRead(i)
      <4>1. \A r : [intake[i] EXCEPT !.pc = "write", !.seen = r, !.seenStatus = rows[r].status,
                       !.seenToken = rows[r].token, !.seenWait = rows[r].wait].key = intake[i].key
        BY <1>0 DEF IntakeType
      <4>2. [intake[i] EXCEPT !.pc = "write", !.seen = None].key = intake[i].key
        BY <1>0 DEF IntakeType
      <4>3. PICK x : x.key = intake[i].key /\ intake' = [intake EXCEPT ![i] = x]
        BY <3>4, <4>1, <4>2 DEF StoreRead
      <4> QED BY <1>0, <3>4, <4>3 DEF StoreRead
    <3>5. CASE StoreWrite(i)
      BY <1>0, <3>5 DEF StoreWrite, IntakeDone, IntakeType
    <3> QED BY <1>2, <3>1, <3>2, <3>3, <3>4, <3>5 DEF IntakeStep
  <2> QED BY <1>0, <2>1 DEF IntakeAgrees, IdleIntake
<1>3. CASE Tick
  <2>1. ASSUME NEW i \in Intakes PROVE intake'[i].pc = intake[i].pc /\ intake'[i].key = intake[i].key
    BY <1>0, <1>3 DEF Tick, IntakeType
  <2> QED BY <1>0, <2>1 DEF IntakeAgrees
<1>4. CASE UNCHANGED intake
  BY <1>0, <1>4 DEF IntakeAgrees
<1> QED
  BY <1>1, <1>2, <1>3, <1>4
     DEF Next, WorkerStep, JobStart, Claim, JobEnd, Fetch, Activate, MarkFailed, Crash,
         RetryFailed, Cancel, Cleanup

\* The invariant is inductive: no step of a job, a request or a crash breaks it.
LEMMA NextPending == PendingInv /\ ActivatedOnce /\ [Next]_vars => (PendingInv /\ ActivatedOnce)'
<1>1. ASSUME PendingInv, ActivatedOnce, Next PROVE (PendingInv /\ ActivatedOnce)'
  <2>1. TypeOK'
    BY <1>1, TypeStep
  <2>2. RowStep /\ (AllQuiet \/ WorkerMoves) /\ IntakeAgrees'
    BY <1>1, RowSteps, WorkerSteps, IntakesAgree
  <2>3. KeyAgrees' /\ ClaimAgrees' /\ AttemptsBounded' /\ ActivatedOnce'
    BY <1>1, <2>1, <2>2, RowsAgree
  <2>4. HolderAgrees'
    BY <1>1, <2>1, <2>2, HoldersAgree
  <2> QED BY <2>1, <2>2, <2>3, <2>4 DEF PendingInv
<1>2. ASSUME PendingInv, ActivatedOnce, UNCHANGED vars PROVE (PendingInv /\ ActivatedOnce)'
  BY <1>2 DEF vars, PendingInv, TypeOK, KeyAgrees, IntakeAgrees, ClaimAgrees, HolderAgrees,
              AttemptsBounded, ActivatedOnce, Active, HoldsClaim
<1> QED BY <1>1, <1>2

(* The bookkeeping of store_paused_event, resolve_pending_event, _claim_one *)
(* and the other statements on the table agrees in every reachable state.   *)
THEOREM PendingInvariant == Spec => []PendingInv
<1>1. Spec => [](PendingInv /\ ActivatedOnce)
  BY InitPending, NextPending, PTL DEF Spec
<1> QED BY <1>1, PTL

(* A paused event is activated at most once (_activate_claimed).            *)
THEOREM ActivationOnce == Spec => []ActivatedOnce
<1>1. Spec => [](PendingInv /\ ActivatedOnce)
  BY InitPending, NextPending, PTL DEF Spec
<1> QED BY <1>1, PTL

(* A row that was activated, resolved or cancelled is never brought back.   *)
THEOREM Settled == Spec => SettledForGood
<1>1. PendingInv /\ [Next]_vars =>
        [\A r \in Rows : rows[r].status \in TERMINAL_STATUSES =>
           /\ rows'[r].status \in {rows[r].status, "deleted"}
           /\ activated'[r] = activated[r]]_vars
  <2>1. ASSUME PendingInv, Next, NEW r \in Rows, rows[r].status \in TERMINAL_STATUSES
        PROVE  rows'[r].status \in {rows[r].status, "deleted"} /\ activated'[r] = activated[r]
    <3>1. RowStep
      BY <2>1, RowSteps
    <3> QED BY <2>1, <3>1
            DEF RowStep, RowQuiet, RowFreed, RowGone, RowInserted, RowClaimed, Active,
                ActiveStatuses, TERMINAL_STATUSES
  <2> QED BY <2>1
<1> QED BY <1>1, PendingInvariant, PTL DEF Spec, SettledForGood


\* A claimed row stays as it is, loses its claim, or is ended without an activation:
\* its attempts are not counted up.
Unanswered(r) ==
  rows[r].status = "activating" =>
    rows'[r].status # "activated" /\ rows'[r].attempts \in {rows[r].attempts, 0}

\* The claimant named by the row's token, which gives its claim up.
Answers(r) ==
  \E w \in Workers : worker[w].row = r /\ worker[w].token = rows[r].token /\ worker'[w].token = None

\* A worker that goes on to its next candidate has no token.
LEMMA NextCandidateFree ==
  ASSUME TypeOK, NEW w \in Workers, NextCandidate(w)
  PROVE  worker'[w].token = None
<1>1. worker[w] \in WorkerType /\ worker'[w] = [worker[w] EXCEPT !.pc = "loop", !.row = None, !.token = None, !.attempts = 0]
  BY DEF TypeOK, NextCandidate
<1> QED BY <1>1 DEF WorkerType

\* Only _activate_claimed and _mark_activation_failed end a claim by an activation
\* or a counted failure, each with the row's token.
LEMMA ClaimSteps == PendingInv /\ Next => \A r \in Rows : Unanswered(r) \/ Answers(r)
<1> SUFFICES ASSUME PendingInv, Next, NEW r \in Rows PROVE Unanswered(r) \/ Answers(r)
  OBVIOUS
<1>0. TypeOK /\ rows \in [Rows -> RowType] /\ rows[r] \in RowType
  BY DEF PendingInv, TypeOK
<1>1. ASSUME rows' = rows PROVE Unanswered(r)
  BY <1>1 DEF Unanswered
<1>2. ASSUME NEW st, NEW d, st # "activated", rows'[r] = Unclaimed(rows[r], st, d) PROVE Unanswered(r)
  BY <1>0, <1>2, UnclaimedFields DEF Unanswered
<1>3. ASSUME rows'[r] = rows[r] PROVE Unanswered(r)
  BY <1>3 DEF Unanswered
<1>4. ASSUME NEW i \in Intakes, ResolveWrite(i) PROVE Unanswered(r)
  <2> DEFINE q == intake[i].seen
  <2>1. CASE UNCHANGED rows
    BY <1>1, <2>1
  <2>2. CASE rows' = [rows EXCEPT ![q] = Unclaimed(rows[q], "resolved", 0)]
    <3>1. CASE r = q
      BY <1>0, <1>2, <2>2, <3>1
    <3>2. CASE r # q
      BY <1>0, <1>3, <2>2, <3>2
    <3> QED BY <3>1, <3>2
  <2> QED BY <1>4, <2>1, <2>2 DEF ResolveWrite, Ended
<1>5. ASSUME NEW i \in Intakes, StoreWrite(i) PROVE Unanswered(r)
  <2> DEFINE q == intake[i].seen
  <2>1. CASE UNCHANGED rows
    BY <1>1, <2>1
  <2>2. ASSUME NEW s \in Rows, IsNextId(s), rows' = [rows EXCEPT ![s] = InsertedRow(i)] PROVE Unanswered(r)
    <3>1. CASE r = s
      BY <2>2, <3>1 DEF Unanswered, IsNextId
    <3>2. CASE r # s
      BY <1>0, <1>3, <2>2, <3>2
    <3> QED BY <3>1, <3>2
  <2>3. CASE rows' = [rows EXCEPT ![q].event = intake[i].event]
    <3>1. CASE r = q
      BY <1>0, <2>3, <3>1 DEF Unanswered, RowType
    <3>2. CASE r # q
      BY <1>0, <1>3, <2>3, <3>2
    <3> QED BY <3>1, <3>2
  <2>4. CASE CanRestart(i) /\ rows' = [rows EXCEPT ![q] = RestartedRow(i, rows[q])]
    <3>1. CASE r = q
      BY <2>4, <3>1 DEF CanRestart, Unanswered
    <3>2. CASE r # q
      BY <1>0, <1>3, <2>4, <3>2
    <3> QED BY <3>1, <3>2
  <2> QED BY <1>5, <2>1, <2>2, <2>3, <2>4 DEF StoreWrite
<1>6. ASSUME NEW w \in Workers, JobStart(w) PROVE Unanswered(r)
  <2>1. rows'[r] = Requeued(r)
    BY <1>6 DEF JobStart
  <2> QED BY <1>2, <1>3, <2>1 DEF Requeued
<1>7. ASSUME NEW w \in Workers, Claim(w) PROVE Unanswered(r)
  <2>0. worker[w].batch \subseteq Rows
    BY <1>0 DEF TypeOK, WorkerType
  <2>1. CASE UNCHANGED rows
    BY <1>1, <2>1
  <2>2. ASSUME NEW q \in Rows, rows[q].status = "pending", NEW t \in Tokens,
               rows' = [rows EXCEPT ![q] = Claimed(rows[q], t, worker[w].lag)]
        PROVE  Unanswered(r)
    <3>1. CASE r = q
      BY <2>2, <3>1 DEF Unanswered
    <3>2. CASE r # q
      BY <1>0, <1>3, <2>2, <3>2
    <3> QED BY <3>1, <3>2
  <2> QED BY <1>7, <2>0, <2>1, <2>2 DEF Claim
<1>8. ASSUME NEW w \in Workers, Activate(w) PROVE Unanswered(r) \/ Answers(r)
  <2> DEFINE q == worker[w].row
  <2>1. CASE UNCHANGED rows
    BY <1>1, <2>1
  <2>2. CASE /\ HoldsClaim(w) /\ NextCandidate(w)
             /\ rows' = [rows EXCEPT ![q] = Ended(rows[q], "activated")]
    <3>1. CASE r = q
      <4>1. worker'[w].token = None
        BY <1>0, <2>2, NextCandidateFree
      <4>2. worker[w].row = r /\ worker[w].token = rows[r].token
        BY <2>2, <3>1 DEF HoldsClaim
      <4> QED BY <4>1, <4>2 DEF Answers
    <3>2. CASE r # q
      BY <1>0, <1>3, <2>2, <3>2
    <3> QED BY <3>1, <3>2
  <2> QED BY <1>8, <2>1, <2>2 DEF Activate
<1>9. ASSUME NEW w \in Workers, MarkFailed(w) PROVE Unanswered(r) \/ Answers(r)
  <2> DEFINE q == worker[w].row
             n == worker[w].attempts + 1
  <2>1. CASE UNCHANGED rows
    BY <1>1, <2>1
  <2>2. CASE /\ HoldsClaim(w) /\ NextCandidate(w)
             /\ rows' = [rows EXCEPT ![q] = FailedRow(rows[q], n)]
    <3>1. CASE r = q
      <4>1. worker'[w].token = None
        BY <1>0, <2>2, NextCandidateFree
      <4>2. worker[w].row = r /\ worker[w].token = rows[r].token
        BY <2>2, <3>1 DEF HoldsClaim
      <4> QED BY <4>1, <4>2 DEF Answers
    <3>2. CASE r # q
      BY <1>0, <1>3, <2>2, <3>2
    <3> QED BY <3>1, <3>2
  <2> QED BY <1>9, <2>1, <2>2 DEF MarkFailed
<1>10. ASSUME NEW q \in Rows, RetryFailed(q) PROVE Unanswered(r)
  <2>1. CASE r = q
    BY <1>10, <2>1 DEF RetryFailed, Unanswered
  <2>2. CASE r # q
    BY <1>0, <1>3, <1>10, <2>2 DEF RetryFailed
  <2> QED BY <2>1, <2>2
<1>11. CASE Cancel
  <2>1. rows'[r] = rows[r] \/ rows'[r] = Unclaimed(rows[r], "cancelled", 0)
    BY <1>11 DEF Cancel, Ended
  <2> QED BY <1>2, <1>3, <2>1
<1>12. CASE Cleanup
  <2>1. rows'[r] = rows[r] \/ rows[r].status \in TERMINAL_STATUSES
    BY <1>12 DEF Cleanup
  <2> QED BY <1>3, <2>1 DEF Unanswered, TERMINAL_STATUSES
<1>13. CASE Tick
  <2>1. rows'[r] = TickedRow(rows[r])
    BY <1>13 DEF Tick
  <2> QED BY <1>0, <2>1 DEF TickedRow, Unanswered, RowType
<1>14. ASSUME NEW i \in Intakes, Arrive(i) \/ ResolveRead(i) \/ Settle(i) \/ StoreRead(i) PROVE Unanswered(r)
  BY <1>1, <1>14 DEF Arrive, ResolveRead, Settle, StoreRead
<1>15. ASSUME NEW w \in Workers, JobEnd(w) \/ Fetch(w) \/ Crash(w) PROVE Unanswered(r)
  BY <1>1, <1>15 DEF JobEnd, Fetch, Crash
<1> QED BY <1>4, <1>5, <1>6, <1>7, <1>8, <1>9, <1>10, <1>11, <1>12, <1>13, <1>14, <1>15
        DEF Next, IntakeStep, WorkerStep

(* Only the worker that holds the row's current token activates a claimed   *)
(* row or counts a failure on it; a worker whose claim was requeued and     *)
(* taken by another changes nothing.                                        *)
THEOREM ClaimsFenced == Spec => ClaimFenced
<1>1. PendingInv /\ [Next]_vars =>
        [\A r \in Rows :
           rows[r].status = "activating"
           /\ (rows'[r].status = "activated" \/ rows'[r].attempts > rows[r].attempts)
           => \E w \in Workers : /\ worker[w].row = r
                                 /\ worker[w].token = rows[r].token
                                 /\ worker'[w].token = None]_vars
  <2>1. ASSUME PendingInv, Next, NEW r \in Rows, rows[r].status = "activating",
               rows'[r].status = "activated" \/ rows'[r].attempts > rows[r].attempts
        PROVE  Answers(r)
    <3>1. rows[r].attempts \in Nat
      BY <2>1 DEF PendingInv, TypeOK, RowType
    <3>2. ~Unanswered(r)
      BY <2>1, <3>1 DEF Unanswered
    <3> QED BY <2>1, <3>2, ClaimSteps
  <2> QED BY <2>1 DEF Answers
<1> QED BY <1>1, PendingInvariant, PTL DEF Spec, ClaimFenced
=============================================================================
