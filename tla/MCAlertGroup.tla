---------------------------- MODULE MCAlertGroup ----------------------------
(***************************************************************************)
(* Two instances of AlertGroup for TLC, side by side: handlers that run    *)
(* one at a time, for what lifecycle.py keeps to between handlers, and     *)
(* handlers that overlap, for what its locks and its queue keep to in      *)
(* spite of that.  They share no variable; only one of them moves in a     *)
(* behaviour and reaches the states it reaches alone.                      *)
(***************************************************************************)
EXTENDS AlertGroup

CONSTANTS Requests, MaxPayloads  \* web workers and payloads of the second instance

VARIABLES
  part,                                                    \* the instance that moves
  alerts, groups, handlers, selected, payloads, ackedOnce  \* the second instance

O == INSTANCE AlertGroup WITH
       alert <- alerts, group <- groups, proc <- handlers, todo <- selected,
       events <- payloads, acked <- ackedOnce,
       Keys <- {CHOOSE k \in Keys : TRUE}, Intakes <- Requests, Payloads <- {"firing"},
       Reopen <- TRUE, Failures <- {"no target", "raise"},
       AloneActs <- TRUE, MaxInFlight <- 3, MaxEvents <- MaxPayloads

overlapVars == <<alerts, groups, handlers, selected, payloads, ackedOnce>>
allVars == <<part, vars, overlapVars>>

MCInit == part \in {"alone", "overlap"} /\ Init /\ O!Init

Alone(A) == part = "alone" /\ A /\ UNCHANGED <<part, overlapVars>>
Overlapping(A) == part = "overlap" /\ A /\ UNCHANGED <<part, vars>>

MCNext == Alone(Next) \/ Overlapping(O!Next)

\* The fairness of AlertGroup
MCSpec ==
  /\ MCInit /\ [][MCNext]_allVars
  /\ \A i \in Intakes : WF_allVars(Alone(IntakeStep(i)))
  /\ SF_allVars(Alone(QueueStep))
  /\ WF_allVars(Alone(ReminderRuns))
  /\ \A i \in Requests : WF_allVars(Overlapping(O!IntakeStep(i)))
  /\ SF_allVars(Overlapping(O!QueueStep))
  /\ WF_allVars(Overlapping(O!ReminderRuns))

-----------------------------------------------------------------------------
(* Properties; those of handlers that run alone are AlertGroup's own *)

\* AlertGroup!NoDuplicates: overlapping handlers that hold the identity lock of
\* lifecycle.py leave one open alert of a key and one open group.
NoDuplicatesInOverlap == O!NoDuplicates

\* AlertGroup!QueueDrains: a queued notification leaves the queue of
\* notification_queue.py, whatever the handlers overlap.
QueueDrainsInOverlap == O!QueueDrains
=============================================================================
