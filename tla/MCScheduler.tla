---------------------------- MODULE MCScheduler ----------------------------
(***************************************************************************)
(* Instances for TLC of three parts of scheduler.py, side by side: the     *)
(* lock every job runs under (AppLock), and the jobs of the paused events  *)
(* and of the overdue heartbeats with the requests they meet.  They share  *)
(* no variable, so a step of one can neither enable nor disable a step of  *)
(* another: only one of them moves in a behaviour and reaches the states   *)
(* it reaches alone.                                                       *)
(***************************************************************************)
EXTENDS AppLock, FiniteSets

CONSTANTS
  Tokens, None, \* claim tokens, NULL
  Checks        \* heartbeat checks

VARIABLES
  part,                                                       \* the part that moves
  rows, outcome, activated, worker, intake, events, crashes,  \* PendingEvent
  check, alert, ping, sweep, counts                           \* Heartbeat

\* One job against one request and the clock, for liveness
P == INSTANCE PendingEvent WITH
       alert <- outcome,
       Keys <- {"key"}, Rows <- 1..2, Workers <- {"job"}, Intakes <- {"request"},
       MaxAttempts <- 2, RetryBase <- 1, RetryCap <- 2, ClaimTTL <- 1, Pause <- 1,
       Limit <- 2, StoreTries <- 2, MayRaise <- TRUE, PauseResolves <- TRUE,
       MaxEvents <- 2, MaxCrashes <- 1

\* A batch smaller than the checks that may be due
H == INSTANCE Heartbeat WITH
       row <- check, job <- sweep,
       AutoResolve <- {CHOOSE c \in Checks : TRUE}, Limit <- 1,
       MaxPings <- 1, MaxCommands <- 1, MaxFailures <- 1

pausedVars == <<rows, outcome, activated, worker, intake, events, crashes>>
heartbeatVars == <<check, alert, ping, sweep, counts>>
allVars == <<part, vars, pausedVars, heartbeatVars>>

-----------------------------------------------------------------------------

MCInit ==
  /\ part \in {"lock", "paused", "heartbeats"}
  /\ Init /\ P!Init /\ H!Init

Locking(A) ==
  part = "lock" /\ A /\ UNCHANGED <<part, pausedVars, heartbeatVars>>
Pausing(A) ==
  part = "paused" /\ A /\ UNCHANGED <<part, vars, heartbeatVars>>
Watching(A) ==
  part = "heartbeats" /\ A /\ UNCHANGED <<part, vars, pausedVars>>

MCNext ==
  \/ Locking(Next)
  \/ Pausing(P!Next)
  \/ Watching(H!Next)

\* The fairness of AppLock, PendingEvent and Heartbeat
MCFairness ==
  /\ WF_allVars(Locking(Tick))
  /\ \A w \in Workers : WF_allVars(Locking(Step(w)))
  /\ WF_allVars(Pausing(P!Tick))
  /\ WF_allVars(Pausing(P!WorkerStep("job")))
  /\ WF_allVars(Pausing(P!IntakeStep("request")))
  /\ WF_allVars(Watching(H!JobStep))
  /\ \A c \in Checks : WF_allVars(Watching(H!Expire(c))) /\ WF_allVars(Watching(H!PingStep(c)))

MCSpec == MCInit /\ [][MCNext]_allVars /\ MCFairness

-----------------------------------------------------------------------------
(* Properties; those of the lock are AppLock's own *)

\* PendingEvent!PausedEventSettles: an event that is due is activated, resolved,
\* cancelled or parked as failed, whatever crashes and failures pending.py meets.
PausedEventSettles == P!PausedEventSettles

\* Heartbeat!DeadIsReported: a check nobody pings any more has an open alert in
\* the end, unless the checks before it fill the batch of the overdue job.
DeadIsReported == H!DeadIsReported
=============================================================================
