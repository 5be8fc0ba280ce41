--------------------------- MODULE RecoveryPromise ---------------------------
(***************************************************************************)
(* What delayed recovery delivery promises (docs/incidents/                *)
(* recovery-delivery-2.4.md), whatever statements it is made of: while the *)
(* recovery of a resolution is open its recipients are fixed once and each *)
(* of them is told at most once; nobody is told when it is not open.       *)
(***************************************************************************)
CONSTANTS Resolutions, Targets, NoResolution

VARIABLES
  open,     \* the resolution whose recovery is open, or NoResolution
  roster,   \* the recipients of each resolution's recovery
  reached   \* those recorded as told

vars == <<open, roster, reached>>

Init ==
  /\ open = NoResolution
  /\ roster = [c \in Resolutions |-> {}]
  /\ reached = [c \in Resolutions |-> {}]

Open(c) ==
  /\ open = NoResolution
  /\ open' = c
  /\ UNCHANGED <<roster, reached>>

\* Some recipients are told; the recovery may be complete.
Tell(c, R, S) ==
  /\ open = c
  /\ roster' = [roster EXCEPT ![c] = R]
  /\ roster[c] # {} => R = roster[c]
  /\ S \subseteq R \ reached[c]
  /\ reached' = [reached EXCEPT ![c] = @ \cup S]
  /\ open' \in {c, NoResolution}

\* The group is reopened.
Withdraw ==
  /\ open # NoResolution
  /\ open' = NoResolution
  /\ UNCHANGED <<roster, reached>>

Next ==
  \/ \E c \in Resolutions : Open(c)
  \/ \E c \in Resolutions, R, S \in SUBSET Targets : Tell(c, R, S)
  \/ Withdraw

Spec == Init /\ [][Next]_vars

=============================================================================
