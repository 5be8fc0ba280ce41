---------------------------- MODULE WebhookProofs ----------------------------
(***************************************************************************)
(* For every number of rows, runs of the job, attempts and faults: the     *)
(* attempt and concurrency limits of webhooks.py hold, and a final status  *)
(* is final.  A request or an attempt beyond the configured number is paid *)
(* for by a fault, so the proof counts the workers that will still send.   *)
(***************************************************************************)
EXTENDS Webhook, FiniteSetTheorems, TLAPS

\* An unused row and an idle worker are well typed.
LEMMA Blanks == NoRow \in RowType /\ Idle \in WorkerType
BY DEF NoRow, RowType, Idle, WorkerType

\* The numbers of the configuration.
LEMMA Numbers == MaxAttempts \in Nat \ {0} /\ Concurrency \in Nat \ {0} /\ MaxRows \in Nat /\ MaxFaults \in Nat
BY WebhookAssumption

\* Counting workers: sets of them are finite, smaller sets have fewer, one more
\* worker is at most one more, one removed is one less.
LEMMA CountWorkers ==
  ASSUME NEW S \in SUBSET Workers, NEW T \in SUBSET Workers, NEW w
  PROVE  /\ Cardinality(S) \in Nat
         /\ S \subseteq T => Cardinality(S) <= Cardinality(T)
         /\ S \subseteq T \cup {w} => Cardinality(S) <= Cardinality(T) + 1
         /\ S \subseteq T \ {w} /\ w \in T => Cardinality(S) + 1 <= Cardinality(T)
<1>1. IsFiniteSet(S) /\ IsFiniteSet(T)
  BY WebhookAssumption, FS_Subset
<1>2. Cardinality(S) \in Nat /\ Cardinality(T) \in Nat
  BY <1>1, FS_CardinalityType
<1>3. S \subseteq T => Cardinality(S) <= Cardinality(T)
  BY <1>1, FS_Subset
<1>4. ASSUME S \subseteq T \cup {w} PROVE Cardinality(S) <= Cardinality(T) + 1
  <2>1. /\ IsFiniteSet(T \cup {w})
        /\ Cardinality(T \cup {w}) = IF w \in T THEN Cardinality(T) ELSE Cardinality(T) + 1
    BY <1>1, FS_AddElement
  <2>2. Cardinality(S) <= Cardinality(T \cup {w})
    BY <1>4, <2>1, FS_Subset
  <2> QED BY <1>2, <2>1, <2>2
<1>5. ASSUME S \subseteq T \ {w}, w \in T PROVE Cardinality(S) + 1 <= Cardinality(T)
  <2>1. IsFiniteSet(T \ {w}) /\ Cardinality(T \ {w}) = Cardinality(T) - 1
    BY <1>1, <1>5, FS_RemoveElement
  <2>2. Cardinality(S) <= Cardinality(T \ {w})
    BY <1>5, <2>1, FS_Subset
  <2> QED BY <1>2, <2>1, <2>2
<1> QED BY <1>2, <1>3, <1>4, <1>5

\* The same for rows.
LEMMA CountRows ==
  ASSUME NEW S \in SUBSET Rows, NEW T \in SUBSET Rows, NEW r
  PROVE  /\ Cardinality(S) \in Nat
         /\ S \subseteq T => Cardinality(S) <= Cardinality(T)
         /\ S \subseteq T \cup {r} => Cardinality(S) <= Cardinality(T) + 1
         /\ S # {} => Cardinality(S) >= 1
<1>0. IsFiniteSet(Rows)
  BY Numbers, FS_Interval DEF Rows
<1>1. IsFiniteSet(S) /\ IsFiniteSet(T)
  BY <1>0, FS_Subset
<1>2. Cardinality(S) \in Nat /\ Cardinality(T) \in Nat
  BY <1>1, FS_CardinalityType
<1>3. S \subseteq T => Cardinality(S) <= Cardinality(T)
  BY <1>1, FS_Subset
<1>4. ASSUME S \subseteq T \cup {r} PROVE Cardinality(S) <= Cardinality(T) + 1
  <2>1. /\ IsFiniteSet(T \cup {r})
        /\ Cardinality(T \cup {r}) = IF r \in T THEN Cardinality(T) ELSE Cardinality(T) + 1
    BY <1>1, FS_AddElement
  <2>2. Cardinality(S) <= Cardinality(T \cup {r})
    BY <1>4, <2>1, FS_Subset
  <2> QED BY <1>2, <2>1, <2>2
<1>5. S # {} => Cardinality(S) >= 1
  BY <1>1, <1>2, FS_EmptySet
<1> QED BY <1>2, <1>3, <1>4, <1>5

-----------------------------------------------------------------------------
(* What the steps write *)

\* A worker's step writes its own entry; these are its fields.
LEMMA WorkerFields ==
  ASSUME worker \in [Workers -> WorkerType], NEW w \in Workers
  PROVE  /\ \A pc \in {"select", "next", "claim", "recheck", "send", "mark"} :
              worker' = [worker EXCEPT ![w].pc = pc] =>
                /\ worker' \in [Workers -> WorkerType]
                /\ \A v \in Workers \ {w} : worker'[v] = worker[v]
                /\ worker'[w].pc = pc /\ worker'[w].row = worker[w].row
                /\ worker'[w].result = worker[w].result
         /\ \A T \in SUBSET Rows :
              worker' = [worker EXCEPT ![w].todo = T] =>
                /\ worker' \in [Workers -> WorkerType]
                /\ \A v \in Workers \ {w} : worker'[v] = worker[v]
                /\ worker'[w].pc = worker[w].pc /\ worker'[w].row = worker[w].row
                /\ worker'[w].result = worker[w].result
         /\ \A result \in Results :
              worker' = [worker EXCEPT ![w].pc = "mark", ![w].result = result] =>
                /\ worker' \in [Workers -> WorkerType]
                /\ \A v \in Workers \ {w} : worker'[v] = worker[v]
                /\ worker'[w].pc = "mark" /\ worker'[w].row = worker[w].row
         /\ NextCandidate(w) =>
                /\ worker' \in [Workers -> WorkerType]
                /\ \A v \in Workers \ {w} : worker'[v] = worker[v]
                /\ worker'[w].pc = "next" /\ worker'[w].row = 0 /\ worker'[w].result = "none"
<1>0. worker[w] \in WorkerType
  OBVIOUS
<1>1. ASSUME NEW pc \in {"select", "next", "claim", "recheck", "send", "mark"},
             worker' = [worker EXCEPT ![w].pc = pc]
      PROVE  /\ worker' \in [Workers -> WorkerType]
             /\ \A v \in Workers \ {w} : worker'[v] = worker[v]
             /\ worker'[w].pc = pc /\ worker'[w].row = worker[w].row
             /\ worker'[w].result = worker[w].result
  <2> DEFINE new == [worker[w] EXCEPT !.pc = pc]
  <2>1. new \in WorkerType /\ new.pc = pc /\ new.row = worker[w].row /\ new.result = worker[w].result
    BY <1>0 DEF WorkerType
  <2>2. worker' = [worker EXCEPT ![w] = new]
    BY <1>1
  <2> HIDE DEF new
  <2> QED BY <2>1, <2>2
<1>2. ASSUME NEW T \in SUBSET Rows, worker' = [worker EXCEPT ![w].todo = T]
      PROVE  /\ worker' \in [Workers -> WorkerType]
             /\ \A v \in Workers \ {w} : worker'[v] = worker[v]
             /\ worker'[w].pc = worker[w].pc /\ worker'[w].row = worker[w].row
             /\ worker'[w].result = worker[w].result
  <2> DEFINE new == [worker[w] EXCEPT !.todo = T]
  <2>1. /\ new \in WorkerType /\ new.pc = worker[w].pc /\ new.row = worker[w].row
        /\ new.result = worker[w].result
    BY <1>0 DEF WorkerType
  <2>2. worker' = [worker EXCEPT ![w] = new]
    BY <1>2
  <2> HIDE DEF new
  <2> QED BY <2>1, <2>2
<1>3. ASSUME NEW result \in Results, worker' = [worker EXCEPT ![w].pc = "mark", ![w].result = result]
      PROVE  /\ worker' \in [Workers -> WorkerType]
             /\ \A v \in Workers \ {w} : worker'[v] = worker[v]
             /\ worker'[w].pc = "mark" /\ worker'[w].row = worker[w].row
  <2> DEFINE new == [worker[w] EXCEPT !.pc = "mark", !.result = result]
  <2>1. new \in WorkerType /\ new.pc = "mark" /\ new.row = worker[w].row
    BY <1>0 DEF WorkerType
  <2>2. worker' = [worker EXCEPT ![w] = new]
    BY <1>3
  <2> HIDE DEF new
  <2> QED BY <2>1, <2>2
<1>4. ASSUME NextCandidate(w)
      PROVE  /\ worker' \in [Workers -> WorkerType]
             /\ \A v \in Workers \ {w} : worker'[v] = worker[v]
             /\ worker'[w].pc = "next" /\ worker'[w].row = 0 /\ worker'[w].result = "none"
  <2> DEFINE new == [Idle EXCEPT !.todo = worker[w].todo]
  <2>1. new \in WorkerType /\ new.pc = "next" /\ new.row = 0 /\ new.result = "none"
    BY <1>0 DEF Idle, WorkerType
  <2>2. worker' = [worker EXCEPT ![w] = new]
    BY <1>4 DEF NextCandidate
  <2> HIDE DEF new
  <2> QED BY <2>1, <2>2
<1> HIDE DEF NextCandidate
<1> QED BY <1>1, <1>2, <1>3, <1>4

\* The UPDATE of one row: its columns, and the rows it leaves alone.
LEMMA RowFields ==
  ASSUME row \in [Rows -> RowType], NEW r \in Rows
  PROVE  /\ \A s \in {"absent", "pending", "running"} \cup TerminalStatuses :
              /\ row' = [row EXCEPT ![r].status = s] =>
                   /\ row' \in [Rows -> RowType]
                   /\ \A q \in Rows \ {r} : row'[q] = row[q]
                   /\ row'[r].status = s /\ row'[r].attempts = row[r].attempts
              /\ row' = [row EXCEPT ![r].status = s, ![r].token = NoToken] =>
                   /\ row' \in [Rows -> RowType]
                   /\ \A q \in Rows \ {r} : row'[q] = row[q]
                   /\ row'[r].status = s /\ row'[r].attempts = row[r].attempts
         /\ row' = [row EXCEPT ![r].status = "pending", ![r].attempts = 0, ![r].token = NoToken] =>
              /\ row' \in [Rows -> RowType]
              /\ \A q \in Rows \ {r} : row'[q] = row[q]
              /\ row'[r].status = "pending" /\ row'[r].attempts = 0
         /\ \A w \in Workers :
              row' = [row EXCEPT ![r] = Claimed(r, w)] =>
                /\ row' \in [Rows -> RowType]
                /\ \A q \in Rows \ {r} : row'[q] = row[q]
                /\ row'[r].status = "running" /\ row'[r].attempts = row[r].attempts + 1
                /\ row'[r].token = w
<1>0. row[r] \in RowType /\ row[r].attempts \in Nat
  BY DEF RowType
<1>1. ASSUME NEW s \in {"absent", "pending", "running"} \cup TerminalStatuses,
             row' = [row EXCEPT ![r].status = s]
      PROVE  /\ row' \in [Rows -> RowType]
             /\ \A q \in Rows \ {r} : row'[q] = row[q]
             /\ row'[r].status = s /\ row'[r].attempts = row[r].attempts
  <2> DEFINE new == [row[r] EXCEPT !.status = s]
  <2>1. new \in RowType /\ new.status = s /\ new.attempts = row[r].attempts
    BY <1>0 DEF RowType
  <2>2. row' = [row EXCEPT ![r] = new]
    BY <1>1
  <2> HIDE DEF new
  <2> QED BY <2>1, <2>2
<1>2. ASSUME NEW s \in {"absent", "pending", "running"} \cup TerminalStatuses,
             row' = [row EXCEPT ![r].status = s, ![r].token = NoToken]
      PROVE  /\ row' \in [Rows -> RowType]
             /\ \A q \in Rows \ {r} : row'[q] = row[q]
             /\ row'[r].status = s /\ row'[r].attempts = row[r].attempts
  <2> DEFINE new == [row[r] EXCEPT !.status = s, !.token = NoToken]
  <2>1. new \in RowType /\ new.status = s /\ new.attempts = row[r].attempts
    BY <1>0 DEF RowType
  <2>2. row' = [row EXCEPT ![r] = new]
    BY <1>2
  <2> HIDE DEF new
  <2> QED BY <2>1, <2>2
<1>3. ASSUME row' = [row EXCEPT ![r].status = "pending", ![r].attempts = 0, ![r].token = NoToken]
      PROVE  /\ row' \in [Rows -> RowType]
             /\ \A q \in Rows \ {r} : row'[q] = row[q]
             /\ row'[r].status = "pending" /\ row'[r].attempts = 0
  <2> DEFINE new == [row[r] EXCEPT !.status = "pending", !.attempts = 0, !.token = NoToken]
  <2>1. new \in RowType /\ new.status = "pending" /\ new.attempts = 0
    BY <1>0 DEF RowType
  <2>2. row' = [row EXCEPT ![r] = new]
    BY <1>3
  <2> HIDE DEF new
  <2> QED BY <2>1, <2>2
<1>4. ASSUME NEW w \in Workers, row' = [row EXCEPT ![r] = Claimed(r, w)]
      PROVE  /\ row' \in [Rows -> RowType]
             /\ \A q \in Rows \ {r} : row'[q] = row[q]
             /\ row'[r].status = "running" /\ row'[r].attempts = row[r].attempts + 1
             /\ row'[r].token = w
  <2>1. /\ Claimed(r, w) \in RowType /\ Claimed(r, w).status = "running"
        /\ Claimed(r, w).attempts = row[r].attempts + 1 /\ Claimed(r, w).token = w
    BY <1>0 DEF Claimed, RowType
  <2> QED BY <1>4, <2>1
<1> QED BY <1>1, <1>2, <1>3, <1>4

-----------------------------------------------------------------------------
(* The counting argument, one row at a time *)

\* Row r and what is counted for it are left alone, or only shrink.
LEMMA BoundedFrame ==
  ASSUME TypeOK, TypeOK', NEW r \in Rows, RowBounded(r), faults' <= faults,
         row'[r] = row[r], sends'[r] = sends[r],
         Requesting(r)' \subseteq Requesting(r), Late(r)' \subseteq Late(r),
         row[r].status = "running" /\ Alive(r) => Alive(r)' \/ faults' < faults
  PROVE  RowBounded(r)'
<1>1. /\ faults \in Nat /\ faults' \in Nat /\ faults <= MaxFaults /\ row[r].attempts \in Nat
      /\ sends[r] \in Nat
  BY Numbers DEF TypeOK, RowType
<1>2. Requesting(r) \in SUBSET Workers /\ Late(r) \in SUBSET Workers
  BY DEF Requesting, Late
<1>3. Requesting(r)' \in SUBSET Workers /\ Late(r)' \in SUBSET Workers
  BY DEF Requesting, Late
<1>4. /\ Cardinality(Requesting(r)) \in Nat /\ Cardinality(Late(r)) \in Nat
      /\ Cardinality(Requesting(r)') \in Nat /\ Cardinality(Late(r)') \in Nat
      /\ Cardinality(Requesting(r)') <= Cardinality(Requesting(r))
      /\ Cardinality(Late(r)') <= Cardinality(Late(r))
  BY <1>2, <1>3, CountWorkers
<1>5. /\ row[r].attempts <= MaxAttempts + (MaxFaults - faults)
      /\ row[r].status \in {"absent", "pending"} \/ (row[r].status = "running" /\ ~Alive(r)) =>
           row[r].attempts < MaxAttempts + (MaxFaults - faults)
      /\ sends[r] + Cardinality(Requesting(r)) <= row[r].attempts + (MaxFaults - faults)
      /\ row[r].status # "cancelled" => Cardinality(Late(r)) <= MaxFaults - faults
  BY DEF RowBounded
<1>6. row[r].attempts <= MaxAttempts + (MaxFaults - faults')
  BY <1>1, <1>5, Numbers
<1>7. sends[r] + Cardinality(Requesting(r)') <= row[r].attempts + (MaxFaults - faults')
  BY <1>1, <1>4, <1>5, Numbers
<1>8. row[r].status # "cancelled" => Cardinality(Late(r)') <= MaxFaults - faults'
  BY <1>1, <1>4, <1>5, Numbers
<1>9. ASSUME row[r].status \in {"absent", "pending"} \/ (row[r].status = "running" /\ ~Alive(r)')
      PROVE  row[r].attempts < MaxAttempts + (MaxFaults - faults')
  <2>1. CASE faults' < faults
    BY <1>1, <1>5, <2>1, Numbers
  <2>2. CASE ~(faults' < faults)
    <3>1. row[r].status \in {"absent", "pending"} \/ (row[r].status = "running" /\ ~Alive(r))
      BY <1>9, <2>2, Zenon
    <3>2. row[r].attempts < MaxAttempts + (MaxFaults - faults)
      BY <1>5, <3>1, Zenon
    <3> QED BY <1>1, <2>2, <3>2, Numbers
  <2> QED BY <2>1, <2>2
<1> QED BY <1>6, <1>7, <1>8, <1>9 DEF RowBounded

\* A step of worker w that leaves it without a request to make for r.
LEMMA WorkerLeaves ==
  ASSUME TypeOK, NEW w \in Workers, NEW r \in Rows, row'[r] = row[r],
         \A v \in Workers \ {w} : worker'[v] = worker[v],
         worker'[w].row = r => worker'[w].pc \notin {"recheck", "send"}
  PROVE  /\ Requesting(r)' \subseteq Requesting(r) /\ Late(r)' \subseteq Late(r)
         /\ row[r].token # w /\ Alive(r) => Alive(r)'
         /\ worker[w].row # r /\ Alive(r) => Alive(r)'
<1>1. Requesting(r)' \subseteq Requesting(r) /\ Late(r)' \subseteq Late(r)
  BY DEF Requesting, Late, Owns
<1>2. (row[r].token # w \/ worker[w].row # r) /\ Alive(r) => Alive(r)'
  BY DEF Alive
<1> QED BY <1>1, <1>2

\* A step that writes no worker and not row r.
LEMMA RowLeftAlone ==
  ASSUME TypeOK, NEW r \in Rows, row'[r] = row[r], worker' = worker
  PROVE  /\ Requesting(r)' = Requesting(r) /\ Late(r)' = Late(r) /\ (Alive(r) => Alive(r)')
BY DEF Requesting, Late, Owns, Alive

\* An empty queue and idle workers satisfy the invariant.
LEMMA InitWebhook == Init => WebhookInv
<1> SUFFICES ASSUME Init PROVE WebhookInv
  OBVIOUS
<1>1. TypeOK /\ WorkerAgrees
  <2>1. TypeOK
    <3>1. row \in [Rows -> RowType] /\ worker \in [Workers -> WorkerType]
      BY Blanks DEF Init
    <3>2. sends \in [Rows -> Nat] /\ faults \in 0 .. MaxFaults
      BY Numbers DEF Init
    <3>3. enabled \in BOOLEAN /\ overlap \in BOOLEAN
      BY DEF Init
    <3> QED BY <3>1, <3>2, <3>3 DEF TypeOK
  <2>2. WorkerAgrees
    BY DEF Init, WorkerAgrees, Idle
  <2> QED BY <2>1, <2>2
<1>2. ASSUME NEW r \in Rows PROVE RowBounded(r)
  <2>1. Requesting(r) = {} /\ Late(r) = {}
    BY DEF Init, Requesting, Late, Idle
  <2> QED BY <2>1, Numbers, FS_EmptySet DEF Init, RowBounded, NoRow
<1>3. ConcurrencyKept
  <2>1. Running = {}
    BY DEF Init, Running, NoRow
  <2> QED BY <2>1, Numbers, FS_EmptySet DEF Init, ConcurrencyKept, Idle
<1> QED BY <1>1, <1>2, <1>3 DEF WebhookInv, AttemptsBounded

\* No row starts to run and no run of the job starts or comes to a claim: the
\* concurrency limit is kept.
LEMMA ConcurrencyFrame ==
  ASSUME TypeOK, ConcurrencyKept, overlap' = overlap, Running' \subseteq Running,
         \A v \in Workers : worker'[v] # Idle => worker[v] # Idle,
         \A v \in Workers : worker'[v].pc = "claim" => worker[v].pc = "claim"
  PROVE  ConcurrencyKept'
<1>1. Running \in SUBSET Rows /\ Running' \in SUBSET Rows
  BY DEF Running
<1>2. /\ Cardinality(Running) \in Nat /\ Cardinality(Running') \in Nat
      /\ Cardinality(Running') <= Cardinality(Running)
  BY <1>1, CountRows
<1> QED BY <1>2, Numbers DEF ConcurrencyKept, Capacity

-----------------------------------------------------------------------------
(* The steps *)

\* A worker at work is not idle, and an idle one requests nothing.
LEMMA IdleFields == Idle.pc = "next" /\ Idle.todo = {} /\ Idle.row = 0 /\ Idle.result = "none"
BY DEF Idle

\* enqueue_execution_webhooks, the soft delete and the operator's retry.
LEMMA QueueSteps ==
  ASSUME WebhookInv, NEW r \in Rows, Enqueue(r) \/ Cancel(r) \/ RetryFailed(r)
  PROVE  WebhookInv'
<1>0. TypeOK /\ WorkerAgrees /\ AttemptsBounded /\ ConcurrencyKept
  BY DEF WebhookInv
<1>1. /\ row \in [Rows -> RowType] /\ worker' = worker /\ overlap' = overlap /\ enabled' = enabled
      /\ faults \in 0 .. MaxFaults
  BY <1>0 DEF TypeOK, Enqueue, Cancel, RetryFailed
<1>2. /\ row' \in [Rows -> RowType] /\ \A q \in Rows \ {r} : row'[q] = row[q]
      /\ row'[r].status # "running"
  <2>1. CASE Enqueue(r)
    <3>1. row' = [row EXCEPT ![r].status = "pending"]
      BY <2>1 DEF Enqueue
    <3>2. /\ row' \in [Rows -> RowType] /\ \A q \in Rows \ {r} : row'[q] = row[q]
          /\ row'[r].status = "pending"
      BY <1>1, <3>1, RowFields, Zenon
    <3> QED BY <3>2
  <2>2. CASE Cancel(r)
    <3>1. row' = [row EXCEPT ![r].status = "cancelled", ![r].token = NoToken]
      BY <2>2 DEF Cancel
    <3>2. /\ row' \in [Rows -> RowType] /\ \A q \in Rows \ {r} : row'[q] = row[q]
          /\ row'[r].status = "cancelled"
      BY <1>1, <3>1, RowFields, Zenon DEF TerminalStatuses
    <3> QED BY <3>2
  <2>3. CASE RetryFailed(r)
    <3>1. row' = [row EXCEPT ![r].status = "pending", ![r].attempts = 0, ![r].token = NoToken]
      BY <2>3 DEF RetryFailed
    <3> QED BY <1>1, <3>1, RowFields
  <2> QED BY <2>1, <2>2, <2>3
<1>3. faults' \in 0 .. MaxFaults /\ faults' <= faults /\ faults' \in Nat /\ faults \in Nat
  BY <1>1, Numbers DEF Enqueue, Cancel, RetryFailed
<1>4. sends' \in [Rows -> Nat] /\ \A q \in Rows \ {r} : sends'[q] = sends[q]
  BY <1>0 DEF TypeOK, Enqueue, Cancel, RetryFailed
<1>5. TypeOK'
  BY <1>0, <1>1, <1>2, <1>3, <1>4 DEF TypeOK
<1>6. WorkerAgrees'
  BY <1>0, <1>1 DEF WorkerAgrees
<1>7. ConcurrencyKept'
  <2>1. Running' \subseteq Running
    BY <1>2 DEF Running
  <2> QED BY <1>0, <1>1, <2>1, ConcurrencyFrame
<1>8. ASSUME NEW q \in Rows \ {r} PROVE RowBounded(q)'
  <2>1. Requesting(q)' = Requesting(q) /\ Late(q)' = Late(q) /\ (Alive(q) => Alive(q)')
    BY <1>0, <1>1, <1>2, RowLeftAlone
  <2> QED BY <1>0, <1>2, <1>3, <1>4, <1>5, <2>1, BoundedFrame DEF AttemptsBounded
<1>9. /\ Requesting(r)' \subseteq {w \in Workers : worker[w].row = r /\ worker[w].pc = "send"}
      /\ {w \in Workers : worker[w].row = r /\ worker[w].pc = "send"} \subseteq Requesting(r)
      /\ Late(r)' \subseteq {w \in Workers : worker[w].row = r /\ worker[w].pc = "send"}
      /\ row[r].status # "running" =>
           {w \in Workers : worker[w].row = r /\ worker[w].pc = "send"} \subseteq Late(r)
  BY <1>1, <1>2 DEF Requesting, Late, Owns
<1>10. /\ Requesting(r) \in SUBSET Workers /\ Late(r) \in SUBSET Workers
       /\ Requesting(r)' \in SUBSET Workers /\ Late(r)' \in SUBSET Workers
  BY DEF Requesting, Late
<1>11. /\ Cardinality(Requesting(r)) \in Nat /\ Cardinality(Late(r)) \in Nat
       /\ Cardinality(Requesting(r)') \in Nat /\ Cardinality(Late(r)') \in Nat
       /\ Cardinality(Requesting(r)') <= Cardinality(Requesting(r))
       /\ row[r].status # "running" => /\ Cardinality(Requesting(r)') <= Cardinality(Late(r))
                                      /\ Cardinality(Late(r)') <= Cardinality(Late(r))
  <2>1. Requesting(r)' \subseteq Requesting(r)
    BY <1>9, Zenon
  <2>2. row[r].status # "running" => Requesting(r)' \subseteq Late(r) /\ Late(r)' \subseteq Late(r)
    BY <1>9, Zenon
  <2> QED BY <1>10, <2>1, <2>2, CountWorkers
<1>12. /\ row[r].attempts <= MaxAttempts + (MaxFaults - faults)
       /\ row[r].status \in {"absent", "pending"} => row[r].attempts < MaxAttempts + (MaxFaults - faults)
       /\ sends[r] + Cardinality(Requesting(r)) <= row[r].attempts + (MaxFaults - faults)
       /\ row[r].status # "cancelled" => Cardinality(Late(r)) <= MaxFaults - faults
  BY <1>0 DEF AttemptsBounded, RowBounded
<1>13. sends[r] \in Nat /\ row[r].attempts \in Nat
  BY <1>0 DEF TypeOK, RowType
<1>14. RowBounded(r)'
  <2>1. CASE Enqueue(r)
    <3>1. /\ row'[r].status = "pending" /\ row'[r].attempts = row[r].attempts
          /\ row[r].status = "absent" /\ sends'[r] = sends[r] /\ faults' = faults
      <4>1. row' = [row EXCEPT ![r].status = "pending"]
        BY <2>1 DEF Enqueue
      <4> QED BY <1>1, <2>1, <4>1, RowFields DEF Enqueue
    <3> QED BY <1>3, <1>11, <1>12, <1>13, <3>1, Numbers DEF RowBounded
  <2>2. CASE Cancel(r)
    <3>1. /\ row'[r].status = "cancelled" /\ row'[r].attempts = row[r].attempts
          /\ sends'[r] = sends[r] /\ faults' = faults
      <4>1. row' = [row EXCEPT ![r].status = "cancelled", ![r].token = NoToken]
        BY <2>2 DEF Cancel
      <4> QED BY <1>1, <2>2, <4>1, RowFields DEF Cancel, TerminalStatuses
    <3> QED BY <1>3, <1>11, <1>12, <1>13, <3>1, Numbers DEF RowBounded
  <2>3. CASE RetryFailed(r)
    <3>1. /\ row'[r].status = "pending" /\ row'[r].attempts = 0
          /\ row[r].status = "failed" /\ sends'[r] = 0 /\ faults' = faults - 1
      <4>1. row' = [row EXCEPT ![r].status = "pending", ![r].attempts = 0, ![r].token = NoToken]
        BY <2>3 DEF RetryFailed
      <4> QED BY <1>0, <1>1, <2>3, <4>1, RowFields DEF RetryFailed, TypeOK
    <3> QED BY <1>1, <1>3, <1>11, <1>12, <1>13, <3>1, Numbers DEF RowBounded
  <2> QED BY <2>1, <2>2, <2>3
<1>15. AttemptsBounded'
  BY <1>8, <1>14 DEF AttemptsBounded
<1> QED BY <1>5, <1>6, <1>7, <1>15 DEF WebhookInv

\* Steps that write no row: a candidate is counted, skipped or given up, or the
\* process dies.
LEMMA RowFreeSteps ==
  ASSUME WebhookInv, NEW w \in Workers, UNCHANGED <<row, sends, enabled, overlap>>,
         faults' \in Nat, faults' <= faults,
         worker' \in [Workers -> WorkerType], \A v \in Workers \ {w} : worker'[v] = worker[v],
         worker[w] # Idle, worker'[w].pc \in {"next", "claim"},
         IF worker'[w].pc = "next" THEN worker'[w].row = 0 /\ worker'[w].result = "none"
                                   ELSE worker'[w].row \in Rows /\ Capacity,
         worker[w].pc \in {"recheck", "send", "mark"} => ~Owns(w) \/ faults' < faults
  PROVE  WebhookInv'
<1>0. TypeOK /\ WorkerAgrees /\ AttemptsBounded /\ ConcurrencyKept
  BY DEF WebhookInv
<1>1. faults' \in 0 .. MaxFaults
  BY <1>0, Numbers DEF TypeOK
<1>2. TypeOK'
  BY <1>0, <1>1 DEF TypeOK
<1>3. WorkerAgrees'
  BY <1>0 DEF WorkerAgrees
<1>4. ASSUME NEW r \in Rows PROVE RowBounded(r)'
  <2>1. Requesting(r)' \subseteq Requesting(r) /\ Late(r)' \subseteq Late(r)
    BY <1>0, WorkerLeaves
  <2>2. row[r].status = "running" /\ Alive(r) => Alive(r)' \/ faults' < faults
    BY DEF Alive, Owns
  <2> QED BY <1>0, <1>2, <2>1, <2>2, BoundedFrame DEF AttemptsBounded
<1>5. ConcurrencyKept'
  <2>1. Running' = Running
    BY DEF Running
  <2>2. Capacity' <=> Capacity
    BY <2>1 DEF Capacity
  <2> QED BY <1>0, <2>1, <2>2 DEF ConcurrencyKept
<1> QED BY <1>2, <1>3, <1>4, <1>5 DEF WebhookInv, AttemptsBounded

\* The SELECT, _group_capacity and a death.
LEMMA CandidateSteps ==
  ASSUME WebhookInv, NEW w \in Workers,
         SelectDue(w) \/ Crash(w) \/ \E r \in Rows : Count(w, r) \/ RateSkip(w, r)
  PROVE  WebhookInv'
<1>0. TypeOK /\ WorkerAgrees
  BY DEF WebhookInv
<1>1. worker \in [Workers -> WorkerType] /\ worker[w] \in WorkerType /\ faults \in Nat
  BY <1>0, Numbers DEF TypeOK
<1>2. CASE Crash(w)
  <2>1. /\ UNCHANGED <<row, sends, enabled, overlap>> /\ worker[w] # Idle
        /\ worker' \in [Workers -> WorkerType] /\ \A v \in Workers \ {w} : worker'[v] = worker[v]
        /\ worker'[w].pc = "next" /\ worker'[w].row = 0 /\ worker'[w].result = "none"
    BY <1>1, <1>2, Blanks, IdleFields DEF Crash
  <2>2. faults' \in Nat /\ faults' < faults
    BY <1>1, <1>2 DEF Crash
  <2> QED BY <1>1, <2>1, <2>2, RowFreeSteps
<1>3. ASSUME NEW r \in Rows, Count(w, r) PROVE WebhookInv'
  <2>1. /\ worker[w].pc = "next" /\ r \in worker[w].todo /\ worker[w] # Idle
        /\ worker[w].row = 0 /\ worker[w].result = "none"
    BY <1>0, <1>3, IdleFields DEF Count, IsNext, WorkerAgrees
  <2> DEFINE new == [worker[w] EXCEPT !.todo = @ \ {r}, !.pc = IF Capacity THEN "claim" ELSE "next",
                                      !.row = IF Capacity THEN r ELSE @]
  <2>2. /\ new \in WorkerType /\ new.pc = (IF Capacity THEN "claim" ELSE "next")
        /\ new.row = (IF Capacity THEN r ELSE worker[w].row) /\ new.result = worker[w].result
    BY <1>1 DEF WorkerType
  <2>3. worker' = [worker EXCEPT ![w] = new] /\ UNCHANGED <<row, enabled, sends, overlap, faults>>
    BY <1>1, <1>3 DEF Count
  <2> HIDE DEF new
  <2>4. /\ worker' \in [Workers -> WorkerType] /\ \A v \in Workers \ {w} : worker'[v] = worker[v]
        /\ worker'[w] = new
    BY <1>1, <2>2, <2>3
  <2>5. CASE Capacity
    <3>1. worker'[w].pc = "claim" /\ worker'[w].row = r
      BY <2>2, <2>4, <2>5
    <3> QED BY <1>1, <2>1, <2>3, <2>4, <2>5, <3>1, RowFreeSteps
  <2>6. CASE ~Capacity
    <3>1. worker'[w].pc = "next" /\ worker'[w].row = 0 /\ worker'[w].result = "none"
      BY <2>1, <2>2, <2>4, <2>6
    <3> QED BY <1>1, <2>1, <2>3, <2>4, <3>1, RowFreeSteps
  <2> QED BY <2>5, <2>6
<1>4. ASSUME NEW r \in Rows, RateSkip(w, r) PROVE WebhookInv'
  <2>1. /\ worker[w].pc = "next" /\ r \in worker[w].todo /\ worker[w] # Idle
        /\ worker[w].row = 0 /\ worker[w].result = "none"
    BY <1>0, <1>4, IdleFields DEF RateSkip, IsNext, WorkerAgrees
  <2>2. worker[w].todo \ {r} \in SUBSET Rows
    BY <1>1 DEF WorkerType
  <2>3. worker' = [worker EXCEPT ![w].todo = worker[w].todo \ {r}]
    BY <1>1, <1>4 DEF RateSkip
  <2>4. /\ worker' \in [Workers -> WorkerType] /\ \A v \in Workers \ {w} : worker'[v] = worker[v]
        /\ worker'[w].pc = "next" /\ worker'[w].row = 0 /\ worker'[w].result = "none"
    BY <1>1, <2>1, <2>2, <2>3, WorkerFields, ZenonT(60)
  <2>5. UNCHANGED <<row, sends, enabled, overlap>> /\ faults' \in Nat /\ faults' <= faults
    BY <1>1, <1>4 DEF RateSkip
  <2> QED BY <2>1, <2>4, <2>5, RowFreeSteps
<1>5. CASE SelectDue(w)
  <2> DEFINE new == [Idle EXCEPT !.todo = {r \in Rows : row[r].status = "pending"}]
  <2>1. new \in WorkerType /\ new.pc = "next" /\ new.row = 0 /\ new.result = "none"
    BY DEF Idle, WorkerType
  <2>2. /\ worker' = [worker EXCEPT ![w] = new] /\ worker[w].pc = "select"
        /\ UNCHANGED <<row, enabled, sends, overlap, faults>>
    BY <1>5 DEF SelectDue
  <2> HIDE DEF new
  <2>3. /\ worker' \in [Workers -> WorkerType] /\ \A v \in Workers \ {w} : worker'[v] = worker[v]
        /\ worker'[w].pc = "next" /\ worker'[w].row = 0 /\ worker'[w].result = "none"
    BY <1>1, <2>1, <2>2
  <2>4. worker[w] # Idle
    BY <2>2, IdleFields
  <2> QED BY <1>1, <2>2, <2>3, <2>4, RowFreeSteps
<1> QED BY <1>2, <1>3, <1>4, <1>5

\* _claim_one.
LEMMA ClaimStep ==
  ASSUME WebhookInv, NEW w \in Workers, Claim(w)
  PROVE  WebhookInv'
<1>0. TypeOK /\ WorkerAgrees /\ AttemptsBounded /\ ConcurrencyKept
  BY DEF WebhookInv
<1>a. PICK r \in Rows : r = worker[w].row
  BY <1>0 DEF Claim, WorkerAgrees
<1>1. /\ row \in [Rows -> RowType] /\ worker \in [Workers -> WorkerType]
      /\ worker[w].pc = "claim" /\ worker[w] # Idle
      /\ UNCHANGED <<enabled, sends, overlap, faults>>
  BY <1>0, IdleFields DEF Claim, WorkerAgrees, TypeOK
<1>2. /\ faults \in Nat /\ sends[r] \in Nat /\ row[r].attempts \in Nat /\ row[r] \in RowType
      /\ faults <= MaxFaults
  BY <1>0, <1>1, Numbers DEF TypeOK, RowType
<1>3. CASE NextCandidate(w) /\ UNCHANGED row
  <2>1. /\ worker' \in [Workers -> WorkerType] /\ \A v \in Workers \ {w} : worker'[v] = worker[v]
        /\ worker'[w].pc = "next" /\ worker'[w].row = 0 /\ worker'[w].result = "none"
    BY <1>1, <1>3, WorkerFields
  <2> QED BY <1>1, <1>2, <1>3, <2>1, RowFreeSteps
<1>4. CASE /\ row[r].status = "pending" /\ row' = [row EXCEPT ![r] = Claimed(r, w)]
           /\ worker' = [worker EXCEPT ![w].pc = "recheck"]
  <2>1. /\ worker' \in [Workers -> WorkerType] /\ \A v \in Workers \ {w} : worker'[v] = worker[v]
        /\ worker'[w].pc = "recheck" /\ worker'[w].row = r
    BY <1>1, <1>4, <1>a, WorkerFields
  <2>2. /\ row' \in [Rows -> RowType] /\ \A q \in Rows \ {r} : row'[q] = row[q]
        /\ row'[r].status = "running" /\ row'[r].attempts = row[r].attempts + 1 /\ row'[r].token = w
    BY <1>1, <1>4, RowFields
  <2>3. TypeOK'
    BY <1>0, <1>1, <2>1, <2>2 DEF TypeOK
  <2>4. WorkerAgrees'
    BY <1>0, <1>1, <2>1 DEF WorkerAgrees
  <2>5. ASSUME NEW q \in Rows \ {r} PROVE RowBounded(q)'
    <3>1. worker'[w].row # q /\ worker[w].row # q
      BY <1>a, <2>1
    <3>2. Requesting(q)' \subseteq Requesting(q) /\ Late(q)' \subseteq Late(q) /\ (Alive(q) => Alive(q)')
      BY <1>0, <2>1, <2>2, <3>1, WorkerLeaves
    <3> QED BY <1>0, <1>1, <1>2, <2>2, <2>3, <3>2, BoundedFrame DEF AttemptsBounded
  <2>6. RowBounded(r)'
    <3>1. Requesting(r)' \subseteq Requesting(r) \cup {w} /\ Late(r)' \subseteq Late(r) /\ Alive(r)'
      <4>1. \A v \in Workers \ {w} : worker'[v].row = r => ~Owns(v)' /\ ~Owns(v)
        BY <1>4, <2>1, <2>2 DEF Owns
      <4>2. Requesting(r)' \subseteq Requesting(r) \cup {w}
        BY <2>1, <4>1 DEF Requesting
      <4>3. Late(r)' \subseteq Late(r)
        BY <2>1, <4>1 DEF Late
      <4>4. Alive(r)'
        BY <2>1, <2>2 DEF Alive
      <4> QED BY <4>2, <4>3, <4>4
    <3>2. /\ Requesting(r) \in SUBSET Workers /\ Late(r) \in SUBSET Workers
          /\ Requesting(r)' \in SUBSET Workers /\ Late(r)' \in SUBSET Workers
      BY DEF Requesting, Late
    <3>3. /\ Cardinality(Requesting(r)) \in Nat /\ Cardinality(Late(r)) \in Nat
          /\ Cardinality(Requesting(r)') \in Nat /\ Cardinality(Late(r)') \in Nat
          /\ Cardinality(Requesting(r)') <= Cardinality(Requesting(r)) + 1
          /\ Cardinality(Late(r)') <= Cardinality(Late(r))
      BY <3>1, <3>2, CountWorkers
    <3>4. /\ row[r].attempts < MaxAttempts + (MaxFaults - faults)
          /\ sends[r] + Cardinality(Requesting(r)) <= row[r].attempts + (MaxFaults - faults)
          /\ Cardinality(Late(r)) <= MaxFaults - faults
      BY <1>0, <1>1, <1>4 DEF AttemptsBounded, RowBounded
    <3>5. /\ row'[r].attempts <= MaxAttempts + (MaxFaults - faults')
          /\ sends'[r] + Cardinality(Requesting(r)') <= row'[r].attempts + (MaxFaults - faults')
          /\ Cardinality(Late(r)') <= MaxFaults - faults'
      BY <1>1, <1>2, <2>2, <3>3, <3>4, Numbers
    <3> QED BY <2>2, <3>1, <3>5 DEF RowBounded
  <2>7. ConcurrencyKept'
    <3> SUFFICES ASSUME ~overlap PROVE ConcurrencyKept'
      BY <1>1 DEF ConcurrencyKept
    <3>1. Running' \subseteq Running \cup {r} /\ Running \in SUBSET Rows /\ Running' \in SUBSET Rows
      BY <2>2 DEF Running
    <3>2. /\ Cardinality(Running) \in Nat /\ Cardinality(Running') \in Nat
          /\ Cardinality(Running') <= Cardinality(Running) + 1
      BY <3>1, CountRows
    <3>3. Cardinality(Running) < Concurrency
      BY <1>0, <1>1 DEF ConcurrencyKept, Capacity
    <3>4. Cardinality(Running') <= Concurrency
      BY <3>2, <3>3, Numbers
    <3>5. \A v \in Workers \ {w} : worker'[v] = Idle
      BY <1>0, <1>1, <2>1 DEF ConcurrencyKept
    <3>6. /\ \A u, v \in Workers : worker'[u] # Idle /\ worker'[v] # Idle => u = v
          /\ \A v \in Workers : worker'[v].pc # "claim"
      BY <2>1, <3>5, IdleFields
    <3> QED BY <3>4, <3>6 DEF ConcurrencyKept
  <2> QED BY <2>3, <2>4, <2>5, <2>6, <2>7 DEF WebhookInv, AttemptsBounded
<1> QED BY <1>3, <1>4, <1>a DEF Claim

\* A run that still owns its claim gives the row a status and goes on: the end of
\* _deliver_claimed, _mark_succeeded and _mark_failed.
LEMMA FinishStep ==
  ASSUME WebhookInv, NEW w \in Workers, NEW r \in Rows, r = worker[w].row, Owns(w),
         NEW s \in TerminalStatuses \cup {"pending"}, s = "pending" => row[r].attempts < MaxAttempts,
         worker[w].pc # "next",
         row' = [row EXCEPT ![r].status = s, ![r].token = NoToken],
         NextCandidate(w), UNCHANGED <<enabled, sends, overlap, faults>>
  PROVE  WebhookInv'
<1>0. TypeOK /\ WorkerAgrees /\ AttemptsBounded /\ ConcurrencyKept
  BY DEF WebhookInv
<1>1. /\ row \in [Rows -> RowType] /\ worker \in [Workers -> WorkerType]
      /\ row[r].status = "running" /\ row[r].token = w /\ worker[w] # Idle
  BY <1>0, IdleFields DEF Owns, TypeOK
<1>2. /\ faults \in Nat /\ sends[r] \in Nat /\ row[r].attempts \in Nat /\ faults <= MaxFaults
  BY <1>0, <1>1, Numbers DEF TypeOK, RowType
<1>3. /\ worker' \in [Workers -> WorkerType] /\ \A v \in Workers \ {w} : worker'[v] = worker[v]
      /\ worker'[w].pc = "next" /\ worker'[w].row = 0 /\ worker'[w].result = "none"
  BY <1>1, WorkerFields
<1>4. /\ row' \in [Rows -> RowType] /\ \A q \in Rows \ {r} : row'[q] = row[q]
      /\ row'[r].status = s /\ row'[r].attempts = row[r].attempts
  BY <1>1, RowFields, ZenonT(60)
<1>5. s # "running" /\ s # "absent"
  BY DEF TerminalStatuses
<1>6. TypeOK'
  BY <1>0, <1>3, <1>4 DEF TypeOK
<1>7. WorkerAgrees'
  BY <1>0, <1>3 DEF WorkerAgrees
<1>8. ASSUME NEW q \in Rows \ {r} PROVE RowBounded(q)'
  <2>1. worker'[w].row # q /\ worker[w].row # q
    BY <1>3, Numbers DEF Rows
  <2>2. Requesting(q)' \subseteq Requesting(q) /\ Late(q)' \subseteq Late(q) /\ (Alive(q) => Alive(q)')
    BY <1>0, <1>3, <1>4, <2>1, WorkerLeaves
  <2> QED BY <1>0, <1>2, <1>4, <1>6, <2>2, BoundedFrame DEF AttemptsBounded
<1>9. RowBounded(r)'
  <2>1. /\ \A v \in Workers \ {w} : worker[v].row = r => ~Owns(v) /\ ~Owns(v)'
        /\ worker'[w].pc = "next"
    BY <1>1, <1>3, <1>4, <1>5 DEF Owns
  <2>2. Requesting(r)' \subseteq Requesting(r) /\ Late(r)' \subseteq Late(r)
    BY <1>3, <2>1 DEF Requesting, Late
  <2>3. /\ Requesting(r) \in SUBSET Workers /\ Late(r) \in SUBSET Workers
        /\ Requesting(r)' \in SUBSET Workers /\ Late(r)' \in SUBSET Workers
    BY DEF Requesting, Late
  <2>4. /\ Cardinality(Requesting(r)) \in Nat /\ Cardinality(Late(r)) \in Nat
        /\ Cardinality(Requesting(r)') \in Nat /\ Cardinality(Late(r)') \in Nat
        /\ Cardinality(Requesting(r)') <= Cardinality(Requesting(r))
        /\ Cardinality(Late(r)') <= Cardinality(Late(r))
    BY <2>2, <2>3, CountWorkers
  <2>5. /\ row[r].attempts <= MaxAttempts + (MaxFaults - faults)
        /\ sends[r] + Cardinality(Requesting(r)) <= row[r].attempts + (MaxFaults - faults)
        /\ Cardinality(Late(r)) <= MaxFaults - faults
    BY <1>0, <1>1 DEF AttemptsBounded, RowBounded
  <2>6. /\ row'[r].attempts <= MaxAttempts + (MaxFaults - faults')
        /\ row'[r].status = "pending" => row'[r].attempts < MaxAttempts + (MaxFaults - faults')
        /\ sends'[r] + Cardinality(Requesting(r)') <= row'[r].attempts + (MaxFaults - faults')
        /\ Cardinality(Late(r)') <= MaxFaults - faults'
    BY <1>2, <1>4, <2>4, <2>5, Numbers
  <2> QED BY <1>4, <1>5, <2>6 DEF RowBounded
<1>10. ConcurrencyKept'
  <2>1. Running' \subseteq Running
    BY <1>4, <1>5 DEF Running
  <2>2. \A v \in Workers : worker'[v] # Idle => worker[v] # Idle
    BY <1>1, <1>3
  <2>3. \A v \in Workers : worker'[v].pc = "claim" => worker[v].pc = "claim"
    BY <1>3
  <2> QED BY <1>0, <2>1, <2>2, <2>3, ConcurrencyFrame
<1> QED BY <1>6, <1>7, <1>8, <1>9, <1>10 DEF WebhookInv, AttemptsBounded

\* A run with a claim takes its next step on the same row: from the tests of
\* _deliver_claimed to the request, and from the request to its result.
LEMMA AdvanceStep ==
  ASSUME WebhookInv, NEW w \in Workers, UNCHANGED <<row, enabled, overlap, faults>>,
         worker[w].row \in Rows,
         worker' \in [Workers -> WorkerType], \A v \in Workers \ {w} : worker'[v] = worker[v],
         worker'[w].row = worker[w].row,
         \/ /\ worker[w].pc = "recheck" /\ Owns(w) /\ worker'[w].pc = "send" /\ sends' = sends
         \/ /\ worker[w].pc = "send" /\ worker'[w].pc = "mark"
            /\ sends' = [sends EXCEPT ![worker[w].row] = @ + 1]
  PROVE  WebhookInv'
<1>0. TypeOK /\ WorkerAgrees /\ AttemptsBounded /\ ConcurrencyKept
  BY DEF WebhookInv
<1>1. PICK r \in Rows : r = worker[w].row
  OBVIOUS
<1>2. /\ faults \in Nat /\ sends \in [Rows -> Nat] /\ row[r].attempts \in Nat /\ faults <= MaxFaults
      /\ worker[w] # Idle
  BY <1>0, Numbers, IdleFields DEF TypeOK, RowType
<1>3. TypeOK'
  BY <1>0, <1>2 DEF TypeOK
<1>4. WorkerAgrees'
  BY <1>0 DEF WorkerAgrees
<1>5. \A q \in Rows : row[q].status = "running" /\ Alive(q) => Alive(q)'
  BY DEF Alive
<1>6. ASSUME NEW q \in Rows \ {r} PROVE RowBounded(q)'
  <2>1. Requesting(q)' \subseteq Requesting(q) /\ Late(q)' \subseteq Late(q)
    BY <1>0, <1>1, WorkerLeaves
  <2>2. sends'[q] = sends[q]
    BY <1>1, <1>2
  <2> QED BY <1>0, <1>2, <1>3, <1>5, <2>1, <2>2, BoundedFrame DEF AttemptsBounded
<1>7. RowBounded(r)'
  <2>1. CASE worker[w].pc = "recheck" /\ Owns(w) /\ worker'[w].pc = "send" /\ sends' = sends
    <3>1. Requesting(r)' \subseteq Requesting(r)
      BY <1>1, <2>1 DEF Requesting, Owns
    <3>2. Late(r)' \subseteq Late(r)
      BY <1>1, <2>1 DEF Late, Owns
    <3> QED BY <1>0, <1>2, <1>3, <1>5, <2>1, <3>1, <3>2, BoundedFrame DEF AttemptsBounded
  <2>2. CASE /\ worker[w].pc = "send" /\ worker'[w].pc = "mark"
             /\ sends' = [sends EXCEPT ![worker[w].row] = @ + 1]
    <3>1. Requesting(r)' \subseteq Requesting(r) \ {w} /\ w \in Requesting(r)
      BY <1>1, <2>2 DEF Requesting, Owns
    <3>2. Late(r)' \subseteq Late(r)
      BY <1>1, <2>2 DEF Late, Owns
    <3>3. /\ Requesting(r) \in SUBSET Workers /\ Late(r) \in SUBSET Workers
          /\ Requesting(r)' \in SUBSET Workers /\ Late(r)' \in SUBSET Workers
      BY DEF Requesting, Late
    <3>4. /\ Cardinality(Requesting(r)) \in Nat /\ Cardinality(Late(r)) \in Nat
          /\ Cardinality(Requesting(r)') \in Nat /\ Cardinality(Late(r)') \in Nat
          /\ Cardinality(Requesting(r)') + 1 <= Cardinality(Requesting(r))
          /\ Cardinality(Late(r)') <= Cardinality(Late(r))
      BY <3>1, <3>2, <3>3, CountWorkers
    <3>5. /\ row[r].attempts <= MaxAttempts + (MaxFaults - faults)
          /\ row[r].status \in {"absent", "pending"} \/ (row[r].status = "running" /\ ~Alive(r)) =>
               row[r].attempts < MaxAttempts + (MaxFaults - faults)
          /\ sends[r] + Cardinality(Requesting(r)) <= row[r].attempts + (MaxFaults - faults)
          /\ row[r].status # "cancelled" => Cardinality(Late(r)) <= MaxFaults - faults
      BY <1>0 DEF AttemptsBounded, RowBounded
    <3>6. sends'[r] = sends[r] + 1 /\ sends[r] \in Nat
      BY <1>1, <1>2, <2>2
    <3>7. /\ sends'[r] + Cardinality(Requesting(r)') <= row[r].attempts + (MaxFaults - faults)
          /\ row[r].status # "cancelled" => Cardinality(Late(r)') <= MaxFaults - faults
      BY <1>2, <3>4, <3>5, <3>6, Numbers
    <3>8. row[r].status \in {"absent", "pending"} \/ (row[r].status = "running" /\ ~Alive(r)') =>
            row[r].attempts < MaxAttempts + (MaxFaults - faults)
      BY <1>5, <3>5, Zenon
    <3> QED BY <3>5, <3>7, <3>8 DEF RowBounded
  <2> QED BY <2>1, <2>2
<1>8. ConcurrencyKept'
  <2>1. Running' = Running
    BY DEF Running
  <2>2. \A v \in Workers : worker'[v].pc = "claim" => worker[v].pc = "claim"
    OBVIOUS
  <2> QED BY <1>0, <1>2, <2>1, <2>2, ConcurrencyFrame
<1> QED BY <1>3, <1>4, <1>6, <1>7, <1>8 DEF WebhookInv, AttemptsBounded

\* The delivery of a claimed row.
LEMMA DeliverySteps ==
  ASSUME WebhookInv, NEW w \in Workers, Recheck(w) \/ Send(w) \/ Mark(w)
  PROVE  WebhookInv'
<1>0. /\ TypeOK /\ WorkerAgrees /\ worker \in [Workers -> WorkerType] /\ worker[w] \in WorkerType
      /\ faults \in Nat
  BY Numbers DEF WebhookInv, TypeOK
<1>a. PICK r \in Rows : r = worker[w].row
  BY <1>0 DEF WorkerAgrees, Recheck, Send, Mark
<1>b. worker[w].pc \in {"recheck", "send", "mark"} /\ worker[w].pc # "next" /\ worker[w] # Idle
  BY IdleFields DEF Recheck, Send, Mark
<1>c. ASSUME NextCandidate(w), ~Owns(w), UNCHANGED <<row, enabled, sends, overlap, faults>>
      PROVE  WebhookInv'
  <2>1. /\ worker' \in [Workers -> WorkerType] /\ \A v \in Workers \ {w} : worker'[v] = worker[v]
        /\ worker'[w].pc = "next" /\ worker'[w].row = 0 /\ worker'[w].result = "none"
    BY <1>0, <1>c, WorkerFields
  <2> QED BY <1>0, <1>b, <1>c, <2>1, RowFreeSteps
<1>1. CASE Recheck(w)
  <2>1. CASE Owns(w) /\ enabled /\ worker' = [worker EXCEPT ![w].pc = "send"] /\ UNCHANGED row
    <3>1. /\ worker' \in [Workers -> WorkerType] /\ \A v \in Workers \ {w} : worker'[v] = worker[v]
          /\ worker'[w].pc = "send" /\ worker'[w].row = worker[w].row
      BY <1>0, <2>1, WorkerFields
    <3>2. UNCHANGED <<row, enabled, overlap, faults>> /\ sends' = sends /\ worker[w].pc = "recheck"
      BY <1>1, <2>1 DEF Recheck
    <3> QED BY <1>a, <2>1, <3>1, <3>2, AdvanceStep
  <2>2. CASE /\ Owns(w) /\ NextCandidate(w)
             /\ row' = [row EXCEPT ![worker[w].row].status = "cancelled", ![worker[w].row].token = NoToken]
    <3>1. UNCHANGED <<enabled, sends, overlap, faults>>
      BY <1>1 DEF Recheck
    <3>2. "cancelled" \in TerminalStatuses \cup {"pending"}
      BY DEF TerminalStatuses
    <3>3. row' = [row EXCEPT ![r].status = "cancelled", ![r].token = NoToken]
      BY <1>a, <2>2
    <3> QED BY <1>a, <1>b, <2>2, <3>1, <3>2, <3>3, FinishStep
  <2>3. CASE ~Owns(w) /\ NextCandidate(w) /\ UNCHANGED row
    BY <1>1, <1>c, <2>3 DEF Recheck
  <2> QED BY <1>1, <2>1, <2>2, <2>3 DEF Recheck
<1>2. CASE Send(w)
  <2>1. PICK result \in Results : worker' = [worker EXCEPT ![w].pc = "mark", ![w].result = result]
    BY <1>2 DEF Send
  <2>2. /\ worker' \in [Workers -> WorkerType] /\ \A v \in Workers \ {w} : worker'[v] = worker[v]
        /\ worker'[w].pc = "mark" /\ worker'[w].row = worker[w].row
    BY <1>0, <2>1, WorkerFields
  <2>3. /\ UNCHANGED <<row, enabled, overlap, faults>> /\ worker[w].pc = "send"
        /\ sends' = [sends EXCEPT ![worker[w].row] = @ + 1]
    BY <1>2 DEF Send
  <2> QED BY <1>a, <2>2, <2>3, AdvanceStep
<1>3. CASE Mark(w)
  <2>1. NextCandidate(w) /\ UNCHANGED <<enabled, sends, overlap, faults>>
    BY <1>3 DEF Mark
  <2>2. CASE Owns(w)
    <3> DEFINE s == ResultStatus(worker[w].result, row[r].attempts)
    <3>1. s \in TerminalStatuses \cup {"pending"} /\ (s = "pending" => row[r].attempts < MaxAttempts)
      BY DEF ResultStatus, TerminalStatuses
    <3>2. row' = [row EXCEPT ![r].status = s, ![r].token = NoToken]
      BY <1>3, <1>a, <2>2 DEF Mark
    <3> HIDE DEF s
    <3>3. PICK t \in TerminalStatuses \cup {"pending"} :
            /\ t = "pending" => row[r].attempts < MaxAttempts
            /\ row' = [row EXCEPT ![r].status = t, ![r].token = NoToken]
      BY <3>1, <3>2
    <3> QED BY <1>a, <1>b, <2>1, <2>2, <3>3, FinishStep
  <2>3. CASE ~Owns(w)
    BY <1>3, <1>c, <2>1, <2>3 DEF Mark
  <2> QED BY <2>2, <2>3
<1> QED BY <1>1, <1>2, <1>3

\* The start of the job: _requeue_stale_claims takes claims back, and a claim
\* taken from a live worker is paid for by a fault.
LEMMA JobStartStep ==
  ASSUME WebhookInv, NEW w \in Workers, JobStart(w)
  PROVE  WebhookInv'
<1>0. TypeOK /\ WorkerAgrees /\ AttemptsBounded /\ ConcurrencyKept
  BY DEF WebhookInv
<1>1. /\ row \in [Rows -> RowType] /\ worker \in [Workers -> WorkerType] /\ sends \in [Rows -> Nat]
      /\ faults \in Nat /\ faults <= MaxFaults /\ worker[w] = Idle /\ UNCHANGED <<enabled, sends>>
  BY <1>0, Numbers DEF TypeOK, JobStart
<1>2. PICK odd \in SUBSET Stale :
        /\ Cardinality(odd) <= faults
        /\ faults' = faults - Cardinality(odd)
        /\ row' = Requeued({r \in Stale : r \in odd <=> Alive(r)})
  BY DEF JobStart
<1> DEFINE S == {r \in Stale : r \in odd <=> Alive(r)}
<1>3. /\ row' = Requeued(S) /\ worker' = [worker EXCEPT ![w].pc = "select"]
      /\ Cardinality(odd) <= faults /\ faults' = faults - Cardinality(odd)
      /\ overlap' = (overlap \/ \E v \in Workers \ {w} : worker[v] # Idle)
  BY <1>2 DEF JobStart
<1>4. odd \in SUBSET Rows /\ S \in SUBSET Rows /\ \A r \in S : row[r].status = "running"
  BY DEF Stale
<1>5. \A r \in S : (Alive(r) => r \in odd)
  BY DEF Stale
<1>6. Cardinality(odd) \in Nat /\ (odd # {} => Cardinality(odd) >= 1)
  BY <1>4, CountRows
<1>7. faults' \in 0 .. MaxFaults /\ faults' \in Nat /\ faults' <= faults /\ (odd # {} => faults' <= faults - 1)
  BY <1>1, <1>3, <1>6, Numbers
<1>8. /\ worker' \in [Workers -> WorkerType] /\ \A v \in Workers \ {w} : worker'[v] = worker[v]
      /\ worker'[w].pc = "select" /\ worker'[w].row = 0 /\ worker'[w].result = "none"
  BY <1>1, <1>3, WorkerFields, IdleFields
<1> HIDE DEF S
<1>9. ASSUME NEW r \in Rows
      PROVE  /\ row'[r] \in RowType
             /\ r \in S => /\ row'[r].status = "pending" /\ row'[r].attempts = row[r].attempts
             /\ r \notin S => row'[r] = row[r]
  <2> DEFINE new == [row[r] EXCEPT !.status = "pending", !.token = NoToken]
  <2>1. new \in RowType /\ new.status = "pending" /\ new.attempts = row[r].attempts
    <3>1. row[r] \in RowType
      BY <1>1
    <3> QED BY <3>1 DEF RowType
  <2>2. row'[r] = IF r \in S THEN new ELSE row[r]
    BY <1>3 DEF Requeued
  <2> HIDE DEF new
  <2> QED BY <1>1, <2>1, <2>2
<1>10. row' \in [Rows -> RowType]
  <2>1. row' = [r \in Rows |-> row'[r]]
    BY <1>3 DEF Requeued
  <2> QED BY <1>9, <2>1
<1>11. TypeOK'
  <2>1. overlap' \in BOOLEAN
    BY <1>3, Zenon
  <2> QED BY <1>0, <1>1, <1>7, <1>8, <1>10, <2>1 DEF TypeOK
<1>12. WorkerAgrees'
  BY <1>0, <1>8 DEF WorkerAgrees
<1>13. ASSUME NEW r \in Rows, r \notin S PROVE RowBounded(r)'
  <2>1. worker'[w].row # r /\ worker[w].row # r
    BY <1>1, <1>8, IdleFields, Numbers DEF Rows
  <2>2. Requesting(r)' \subseteq Requesting(r) /\ Late(r)' \subseteq Late(r) /\ (Alive(r) => Alive(r)')
    BY <1>0, <1>8, <1>9, <1>13, <2>1, WorkerLeaves
  <2> QED BY <1>0, <1>1, <1>7, <1>9, <1>11, <1>13, <2>2, BoundedFrame DEF AttemptsBounded
<1>14. ASSUME NEW r \in S PROVE RowBounded(r)'
  <2>0. /\ r \in Rows /\ row[r].status = "running" /\ row'[r].status = "pending"
        /\ row'[r].attempts = row[r].attempts /\ row[r].attempts \in Nat /\ sends[r] \in Nat
    BY <1>1, <1>4, <1>9 DEF RowType
  <2>1. worker[w].row # r /\ worker'[w].row # r
    BY <1>1, <1>8, <2>0, IdleFields, Numbers DEF Rows
  <2>2. Requesting(r)' \subseteq Requesting(r)
    BY <1>8, <2>0, <2>1 DEF Requesting, Owns
  <2>3. Late(r)' \subseteq Late(r) \cup {row[r].token}
    BY <1>8, <2>0, <2>1 DEF Late, Owns
  <2>4. ~Alive(r) => Late(r)' \subseteq Late(r)
    BY <1>8, <2>0, <2>1 DEF Late, Owns, Alive
  <2>5. /\ Requesting(r) \in SUBSET Workers /\ Late(r) \in SUBSET Workers
        /\ Requesting(r)' \in SUBSET Workers /\ Late(r)' \in SUBSET Workers
    BY DEF Requesting, Late
  <2>6. /\ Cardinality(Requesting(r)) \in Nat /\ Cardinality(Late(r)) \in Nat
        /\ Cardinality(Requesting(r)') \in Nat /\ Cardinality(Late(r)') \in Nat
        /\ Cardinality(Requesting(r)') <= Cardinality(Requesting(r))
        /\ Cardinality(Late(r)') <= Cardinality(Late(r)) + 1
    BY <2>2, <2>3, <2>5, CountWorkers
  <2>7. /\ row[r].attempts <= MaxAttempts + (MaxFaults - faults)
        /\ ~Alive(r) => row[r].attempts < MaxAttempts + (MaxFaults - faults)
        /\ sends[r] + Cardinality(Requesting(r)) <= row[r].attempts + (MaxFaults - faults)
        /\ Cardinality(Late(r)) <= MaxFaults - faults
    BY <1>0, <2>0 DEF AttemptsBounded, RowBounded
  <2>8. /\ row[r].attempts < MaxAttempts + (MaxFaults - faults')
        /\ Cardinality(Late(r)') <= MaxFaults - faults'
    <3>1. CASE Alive(r)
      <4>1. faults' <= faults - 1
        BY <1>5, <1>7, <3>1
      <4> QED BY <1>1, <1>7, <2>0, <2>6, <2>7, <4>1, Numbers
    <3>2. CASE ~Alive(r)
      <4>1. Cardinality(Late(r)') <= Cardinality(Late(r))
        BY <2>4, <2>5, <3>2, CountWorkers
      <4>2. row[r].attempts < MaxAttempts + (MaxFaults - faults)
        BY <2>7, <3>2
      <4> QED BY <1>1, <1>7, <2>0, <2>6, <2>7, <4>1, <4>2, Numbers
    <3> QED BY <3>1, <3>2
  <2>9. sends[r] + Cardinality(Requesting(r)') <= row[r].attempts + (MaxFaults - faults')
    BY <1>1, <1>7, <2>0, <2>6, <2>7, Numbers
  <2>10. row[r].attempts <= MaxAttempts + (MaxFaults - faults')
    BY <1>1, <1>7, <2>0, <2>7, Numbers
  <2> QED BY <1>1, <2>0, <2>8, <2>9, <2>10 DEF RowBounded
<1>15. ConcurrencyKept'
  <2> SUFFICES ASSUME ~overlap' PROVE ConcurrencyKept'
    BY DEF ConcurrencyKept
  <2>1. ~overlap /\ \A v \in Workers \ {w} : worker[v] = Idle
    BY <1>3, Zenon
  <2>2. Running' \subseteq Running /\ Running \in SUBSET Rows /\ Running' \in SUBSET Rows
    <3>1. \A r \in Rows : row'[r].status = "running" => row[r].status = "running"
      BY <1>9
    <3> QED BY <3>1 DEF Running
  <2>3. /\ Cardinality(Running) \in Nat /\ Cardinality(Running') \in Nat
        /\ Cardinality(Running') <= Cardinality(Running) /\ Cardinality(Running) <= Concurrency
    BY <1>0, <2>1, <2>2, CountRows DEF ConcurrencyKept
  <2>4. \A v \in Workers : worker'[v].pc # "claim"
    BY <1>8, <2>1, IdleFields
  <2>5. \A u, v \in Workers : worker'[u] # Idle /\ worker'[v] # Idle => u = v
    BY <1>8, <2>1
  <2> QED BY <2>3, <2>4, <2>5, Numbers DEF ConcurrencyKept
<1> QED BY <1>11, <1>12, <1>13, <1>14, <1>15 DEF WebhookInv, AttemptsBounded

\* Every step keeps the invariant.
LEMMA WebhookStep == WebhookInv /\ [Next]_vars => WebhookInv'
<1> SUFFICES ASSUME WebhookInv, [Next]_vars PROVE WebhookInv'
  OBVIOUS
<1>1. CASE UNCHANGED <<row, worker, sends, overlap, faults>> /\ enabled' \in BOOLEAN
  <2>0. TypeOK /\ WorkerAgrees /\ AttemptsBounded /\ ConcurrencyKept
    BY DEF WebhookInv
  <2>1. TypeOK' /\ WorkerAgrees'
    BY <1>1, <2>0 DEF TypeOK, WorkerAgrees
  <2>2. ConcurrencyKept'
    BY <1>1, <2>0 DEF ConcurrencyKept, Running, Capacity
  <2>3. AttemptsBounded'
    BY <1>1, <2>0 DEF AttemptsBounded, RowBounded, Requesting, Late, Owns, Alive
  <2> QED BY <2>1, <2>2, <2>3 DEF WebhookInv
<1>2. CASE Disable
  BY <1>1, <1>2 DEF Disable
<1>3. CASE UNCHANGED vars
  BY <1>1, <1>3 DEF vars, WebhookInv, TypeOK
<1>4. ASSUME NEW r \in Rows, Enqueue(r) \/ Cancel(r) \/ RetryFailed(r) PROVE WebhookInv'
  BY <1>4, QueueSteps
<1>5. ASSUME NEW w \in Workers, WorkerStep(w) PROVE WebhookInv'
  BY <1>5, JobStartStep, ClaimStep, DeliverySteps, CandidateSteps DEF WorkerStep
<1>6. ASSUME NEW w \in Workers, Crash(w) PROVE WebhookInv'
  BY <1>6, CandidateSteps
<1>7. ASSUME NEW w \in Workers, NEW r \in Rows, RateSkip(w, r) PROVE WebhookInv'
  BY <1>7, CandidateSteps
<1> QED BY <1>2, <1>3, <1>4, <1>5, <1>6, <1>7 DEF Next

\* The attempt limit and, while no two runs overlap, the concurrency limit of
\* webhooks.py, whatever claims are lost, taken back, cancelled or answered late.
THEOREM WebhookInvariant == Spec => []WebhookInv
BY InitWebhook, WebhookStep, PTL DEF Spec

\* A step leaves a final status alone, but for the operator's retry.
LEMMA FinalStep ==
  ASSUME WebhookInv, [Next]_vars, NEW q \in Rows, row[q].status \in TerminalStatuses
  PROVE  \/ row'[q].status = row[q].status
         \/ row[q].status = "failed" /\ row'[q].status = "pending" /\ row'[q].attempts = 0
<1>0. /\ TypeOK /\ WorkerAgrees /\ row \in [Rows -> RowType]
      /\ row[q].status \notin {"absent", "pending", "running"}
  BY DEF WebhookInv, TypeOK, TerminalStatuses
<1>1. ASSUME NEW r \in Rows, r # q, NEW f, row' = [row EXCEPT ![r] = f]
      PROVE  row'[q] = row[q]
  BY <1>0, <1>1
<1>2. ASSUME NEW r \in Rows, Enqueue(r) \/ Cancel(r) PROVE row'[q] = row[q]
  BY <1>0, <1>2 DEF Enqueue, Cancel
<1>3. ASSUME NEW r \in Rows, RetryFailed(r)
      PROVE  \/ row'[q] = row[q]
             \/ row[q].status = "failed" /\ row'[q].status = "pending" /\ row'[q].attempts = 0
  <2>1. row' = [row EXCEPT ![r].status = "pending", ![r].attempts = 0, ![r].token = NoToken]
    BY <1>3 DEF RetryFailed
  <2>2. /\ \A p \in Rows \ {r} : row'[p] = row[p]
        /\ row'[r].status = "pending" /\ row'[r].attempts = 0
    BY <1>0, <2>1, RowFields
  <2> QED BY <1>3, <2>2 DEF RetryFailed
<1>4. ASSUME NEW w \in Workers, JobStart(w) PROVE row'[q] = row[q]
  BY <1>0, <1>4 DEF JobStart, Requeued, Stale
<1>5. ASSUME NEW w \in Workers, Claim(w) PROVE row'[q] = row[q]
  <2>1. worker[w].row \in Rows
    BY <1>0, <1>5 DEF Claim, WorkerAgrees
  <2> QED BY <1>0, <1>1, <1>5, <2>1 DEF Claim
<1>6. ASSUME NEW w \in Workers, Recheck(w) \/ Mark(w) PROVE row'[q] = row[q]
  <2>1. worker[w].row \in Rows
    BY <1>0, <1>6 DEF Recheck, Mark, WorkerAgrees
  <2>2. Owns(w) => worker[w].row # q
    BY <1>0 DEF Owns
  <2> QED BY <1>0, <1>6, <2>1, <2>2 DEF Recheck, Mark
<1>7. CASE UNCHANGED row
  BY <1>7
<1> QED BY <1>2, <1>3, <1>4, <1>5, <1>6, <1>7
  DEF Next, WorkerStep, SelectDue, Send, Count, RateSkip, Crash, Disable, vars

\* FinalStays for every instance: a run that answers after its claim was taken
\* back, cancelled or finished by another changes no final status.
THEOREM FinalStaysHolds == Spec => FinalStays
<1>1. WebhookInv /\ [Next]_vars =>
        [\A r \in Rows : row[r].status \in TerminalStatuses =>
           \/ row'[r].status = row[r].status
           \/ row[r].status = "failed" /\ row'[r].status = "pending" /\ row'[r].attempts = 0]_vars
  BY FinalStep
<1> QED BY <1>1, WebhookInvariant, PTL DEF Spec, FinalStays

=============================================================================
