----------------------------- MODULE MCIncident -----------------------------
(***************************************************************************)
(* Incident for TLC: the requests are interchangeable, and nobody asks for *)
(* two of the seven statuses.  To links, locks and resumptions identified  *)
(* is the same as investigating, and cancelled the same as a closed        *)
(* incident that nobody opens again.                                       *)
(***************************************************************************)
EXTENDS Incident, TLC

Symmetry == Permutations(Requests)

\* Bound: the statuses a transition may ask for
Asked == \A p \in Requests : proc'[p].arg \notin {"identified", "cancelled"}

MCSpec == Init /\ [][Next /\ Asked]_vars

=============================================================================
