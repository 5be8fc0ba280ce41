---------------------------- MODULE MCPendingEvent ----------------------------
(* Instances of PendingEvent for TLC.                                      *)
EXTENDS PendingEvent, TLC

\* Claim tokens, workers and requests are interchangeable.
Symmetry == Permutations(Tokens) \cup Permutations(Workers) \cup Permutations(Intakes)

=============================================================================
