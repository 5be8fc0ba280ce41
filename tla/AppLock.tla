------------------------------- MODULE AppLock -------------------------------
(***************************************************************************)
(* The database-backed lock that every scheduler job runs under:           *)
(* app/services/db_lock.py and acquire_lock / release_lock of              *)
(* app/modules/db/locks_repo.py, used by the jobs of                       *)
(* app/services/scheduler.py.                                              *)
(*                                                                         *)
(* One row of the AppLock table is modelled (one lock name, one job).  The *)
(* workers are scheduler processes that run the same job.  The INSERT, the *)
(* SELECT and the conditional UPDATE of acquire_lock are separate          *)
(* statements, so they are separate steps; each reads the clock value that *)
(* acquire_lock took when it was entered.                                  *)
(***************************************************************************)
EXTENDS Naturals

CONSTANTS
  Workers,   \* scheduler processes that run the job
  Owners,    \* lock owner ids (make_owner draws a fresh uuid)
  NoOwner,   \* owner of the row that does not exist
  TTL,       \* Config.SCHEDULER_LOCK_TTL_SECONDS
  MaxTime    \* bound on the clock

ASSUME LockAssumption ==
  /\ NoOwner \notin Owners
  /\ TTL \in Nat
  /\ MaxTime \in Nat

VARIABLES
  now,   \* the clock of utc_now()
  row,   \* the AppLock row: its owner and expires_at
  job    \* per worker: where it is, its owner id, the clock it read

vars == <<now, row, job>>

Stages == {"idle", "insert", "check", "takeover", "run"}

NoRow == [owner |-> NoOwner, expires |-> 0]

IdleJob == [pc |-> "idle", owner |-> NoOwner, at |-> 0]

TypeOK ==
  /\ now \in Nat
  /\ row \in [owner : Owners \cup {NoOwner}, expires : Nat]
  /\ job \in [Workers -> [pc : Stages, owner : Owners \cup {NoOwner}, at : Nat]]

Init ==
  /\ now = 0
  /\ row = NoRow
  /\ job = [w \in Workers |-> IdleJob]

-----------------------------------------------------------------------------

\* The lease a worker asks for: expires_at of the row it would write.
Lease(w) == [owner |-> job[w].owner, expires |-> job[w].at + TTL]

Goto(w, pc) == job' = [job EXCEPT ![w].pc = pc]

Leave(w) == job' = [job EXCEPT ![w] = IdleJob]

\* make_owner() is fresh: no worker and no row carries it.
FreshOwner(o) == o # row.owner /\ \A w \in Workers : job[w].owner # o

\* The job fires; acquire_db_lock draws the owner, acquire_lock reads the clock.
JobStart(w) ==
  /\ job[w].pc = "idle"
  /\ \E o \in Owners :
       /\ FreshOwner(o)
       /\ job' = [job EXCEPT ![w] = [pc |-> "insert", owner |-> o, at |-> now]]
  /\ UNCHANGED <<now, row>>

\* AppLock.create; IntegrityError when the row exists.
Insert(w) ==
  /\ job[w].pc = "insert"
  /\ \/ /\ row.owner = NoOwner
        /\ row' = Lease(w)
        /\ Goto(w, "run")
     \/ /\ row.owner # NoOwner
        /\ Goto(w, "check")
        /\ UNCHANGED row
  /\ UNCHANGED now

\* Defect: every existing row counts as busy, expired or not.
CheckNeverExpired(w) ==
  /\ job[w].pc = "check"
  /\ Leave(w)
  /\ UNCHANGED <<now, row>>

\* AppLock.get_or_none: the lock is busy unless its row is there and expired.
Check(w) ==
  /\ job[w].pc = "check"
  /\ \/ /\ row.owner = NoOwner \/ row.expires > job[w].at
        /\ Leave(w)
     \/ /\ row.owner # NoOwner
        /\ row.expires <= job[w].at
        /\ Goto(w, "takeover")
  /\ UNCHANGED <<now, row>>

\* Defect: an UPDATE without the expiry test lets both contenders win.
ExpiredAtUnchecked(w) == row.owner # NoOwner

\* The UPDATE whose WHERE tests the expiry again.
ExpiredAt(w) == row.owner # NoOwner /\ row.expires <= job[w].at

TakeOver(w) ==
  /\ job[w].pc = "takeover"
  /\ \/ /\ ExpiredAt(w)
        /\ row' = Lease(w)
        /\ Goto(w, "run")
     \/ /\ ~ExpiredAt(w)
        /\ Leave(w)
        /\ UNCHANGED row
  /\ UNCHANGED now

\* Defect: release_lock without the owner test drops a successor's row.
RowAfterReleaseAny(w) == NoRow

\* release_lock deletes the row only when it still carries this owner.
RowAfterRelease(w) == IF row.owner = job[w].owner THEN NoRow ELSE row

\* The job body ends, normally or by an exception: release in `finally`.
Finish(w) ==
  /\ job[w].pc = "run"
  /\ row' = RowAfterRelease(w)
  /\ Leave(w)
  /\ UNCHANGED now

\* The process dies; its row stays.  (Bound: early enough that the row it may
\* leave behind expires before the clock stops.)
Crash(w) ==
  /\ job[w].pc # "idle"
  /\ now + TTL <= MaxTime
  /\ Leave(w)
  /\ UNCHANGED <<now, row>>

Tick ==
  /\ now < MaxTime
  /\ now' = now + 1
  /\ UNCHANGED <<row, job>>

Step(w) == JobStart(w) \/ Insert(w) \/ Check(w) \/ TakeOver(w) \/ Finish(w)

Next == Tick \/ \E w \in Workers : Step(w) \/ Crash(w)

Spec == Init /\ [][Next]_vars

\* The clock runs and the interval trigger keeps firing the job on each worker.
FairSpec == Spec /\ WF_vars(Tick) /\ \A w \in Workers : WF_vars(Step(w))

-----------------------------------------------------------------------------

Running(w) == job[w].pc = "run"

LeaseLive(w) == now < job[w].at + TTL

(* The job bodies of two processes overlap only after the lease of one of  *)
(* them ran out: acquire_lock never gives the lock away while a live lease *)
(* is being used (scheduler.py runs every job body under this lock).       *)
NoOverlapWithinLease ==
  \A v, w \in Workers :
    v # w /\ Running(v) /\ Running(w) => ~(LeaseLive(v) /\ LeaseLive(w))

(* Why that holds: a worker inside its lease owns the row, and nobody else *)
(* carries its owner id.                                                   *)
LeaseOwned ==
  \A w \in Workers : Running(w) /\ LeaseLive(w) => row = Lease(w)

OwnersDistinct ==
  /\ \A w \in Workers : job[w].pc # "idle" => job[w].owner \in Owners
  /\ \A v, w \in Workers :
       v # w /\ job[v].pc # "idle" => job[v].owner # job[w].owner

ClockNotAhead == \A w \in Workers : job[w].at <= now

LockInv == TypeOK /\ ClockNotAhead /\ OwnersDistinct /\ LeaseOwned

(* A lock left behind by a dead process is taken over or removed: the next *)
(* runs of the job find it expired.                                        *)
OrphanRecovered ==
  \A o \in Owners :
    (row.owner = o /\ \A w \in Workers : job[w].owner # o) ~> row.owner # o

=============================================================================
