----------------------------- MODULE MCDelivery -----------------------------
(***************************************************************************)
(* The two queues a recovery message passes, side by side: the recovery    *)
(* ledger of an alert group (Recovery) and the deliveries to its assignee  *)
(* (UserDelivery).  To the ledger the user rules are one target among      *)
(* others, so the two share no variable; only one of them moves in a       *)
(* behaviour and reaches the states it reaches alone.                      *)
(***************************************************************************)
EXTENDS Recovery

CONSTANTS Users, Requests, Senders, MaxRows, MaxResolutions, MaxFaults, MaxStalls

VARIABLES
  part,                                             \* the queue that moves
  alert, delivery, actor, told, faults, stalls      \* UserDelivery

D == INSTANCE UserDelivery WITH
       Workers <- Senders, MaxCycles <- MaxResolutions,
       group <- alert, row <- delivery, sends <- told

ASSUME SendersAssumption == D!UserDeliveryAssumption

userVars == <<alert, delivery, actor, told, faults, stalls>>
allVars == <<part, vars, userVars>>

MCInit ==
  /\ part \in {"ledger", "users"}
  /\ Init /\ D!Init
  /\ part = "users" => group = Firing("none")
  /\ part = "ledger" => alert.assignee = CHOOSE u \in Users : TRUE

Ledger(A) == part = "ledger" /\ A /\ UNCHANGED <<part, userVars>>
ToUsers(A) == part = "users" /\ A /\ UNCHANGED <<part, vars>>

MCNext == Ledger(Next) \/ ToUsers(D!Next)

\* The fairness of Recovery and of UserDelivery
MCSpec ==
  /\ MCInit /\ [][MCNext]_allVars
  /\ WF_allVars(Ledger(Tick))
  /\ \A w \in Workers : WF_allVars(Ledger(WorkerStep(w)))
  /\ \A q \in Requests : WF_allVars(ToUsers(D!SendStep(q)))
  /\ \A w \in Senders : WF_allVars(ToUsers(D!WorkerStep(w)))
  /\ \A r \in 1 .. MaxRows : WF_allVars(ToUsers(D!Reclaim(r)))

-----------------------------------------------------------------------------
(* Properties; those of the ledger are Recovery's own *)

\* UserDelivery!DeliveryInv: the claims and leases of rules.py bound how often a
\* delivery is sent.
DeliveryInv == D!DeliveryInv

\* UserDelivery!ResolvedFenced: a resolved message never leaves for an older
\* resolution, after the reopen, or to someone the group has been taken from.
ResolvedFenced == D!ResolvedFenced

\* UserDelivery!ResolvedSettles: a resolved row reaches its final status,
\* whatever dies on the way.
ResolvedSettles == D!ResolvedSettles
=============================================================================
