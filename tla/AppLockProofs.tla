---------------------------- MODULE AppLockProofs ----------------------------
(***************************************************************************)
(* The scheduler lock, for every set of workers, every TTL and every clock *)
(* bound.                                                                  *)
(***************************************************************************)
EXTENDS AppLock, TLAPS

(* Initially no job holds anything (start_scheduler on an empty table).    *)
LEMMA InitLockInv == Init => LockInv
  BY LockAssumption
     DEF Init, LockInv, TypeOK, ClockNotAhead, OwnersDistinct, LeaseOwned,
         NoRow, IdleJob, Stages, Running

(* Every statement of acquire_lock and release_lock, a crash and the clock *)
(* keep the invariant.                                                     *)
LEMMA NextLockInv == LockInv /\ [Next]_vars => LockInv'
<1> SUFFICES ASSUME LockInv, [Next]_vars
             PROVE  LockInv'
  OBVIOUS
<1> USE LockAssumption
    DEF LockInv, TypeOK, ClockNotAhead, OwnersDistinct, LeaseOwned,
        Running, LeaseLive, Lease, Stages, NoRow, IdleJob, Goto, Leave
<1>1. CASE Tick
  BY <1>1 DEF Tick
<1>2. ASSUME NEW w \in Workers, JobStart(w) PROVE LockInv'
  BY <1>2 DEF JobStart, FreshOwner
<1>3. ASSUME NEW w \in Workers, Insert(w) PROVE LockInv'
  BY <1>3 DEF Insert
<1>4. ASSUME NEW w \in Workers, Check(w) PROVE LockInv'
  BY <1>4 DEF Check
<1>5. ASSUME NEW w \in Workers, TakeOver(w) PROVE LockInv'
  BY <1>5 DEF TakeOver, ExpiredAt
<1>6. ASSUME NEW w \in Workers, Finish(w) PROVE LockInv'
  BY <1>6 DEF Finish, RowAfterRelease
<1>7. ASSUME NEW w \in Workers, Crash(w) PROVE LockInv'
  BY <1>7 DEF Crash
<1>8. CASE UNCHANGED vars
  BY <1>8 DEF vars
<1> QED
  BY <1>1, <1>2, <1>3, <1>4, <1>5, <1>6, <1>7, <1>8 DEF Next, Step

(* The lock invariant holds throughout: a worker inside its lease owns the *)
(* row (acquire_lock, release_lock).                                       *)
THEOREM LockInvariant == Spec => []LockInv
  BY InitLockInv, NextLockInv, PTL DEF Spec

(* Two processes never run the body of one scheduler job inside two live   *)
(* leases of its lock.                                                     *)
THEOREM NoOverlap == Spec => []NoOverlapWithinLease
<1>1. LockInv => NoOverlapWithinLease
  BY DEF LockInv, TypeOK, LeaseOwned, OwnersDistinct, NoOverlapWithinLease,
         Running, Lease, Stages
<1> QED
  BY <1>1, LockInvariant, PTL
=============================================================================
