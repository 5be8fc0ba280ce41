--------------------------- MODULE MCAlertContext ---------------------------
(***************************************************************************)
(* Small catalogues of four services for AlertContext: a diamond, a cycle  *)
(* of two with a way out longer than the depth limit, and a ring with a    *)
(* short cut, under strong and weak dependencies, with an impaired or a    *)
(* disabled service in the middle and a dependency left out of             *)
(* correlations.                                                           *)
(***************************************************************************)
EXTENDS AlertContext, TLC

Components ==
    [b \in Businesses |-> IF b = "b1" THEN (1 :> 100) ELSE (2 :> 75 @@ 4 :> 40)]

GroupService == [g \in Groups |-> IF g = "g1" THEN 3 ELSE 1]
GroupSeverity == [g \in Groups |-> IF g = "g1" THEN "critical" ELSE "warning"]

Strong == <<"hard", "required">>
Middle == <<"soft", "important">>
Weak == <<"hard", "optional">>

\* The first dependency is of one kind, the others of another; one of them may be
\* left out of correlations.
Catalog(edges, status, enabled, first, others, uncorrelated) ==
    [service |-> [s \in Services |->
                    IF s = 2 THEN [status |-> status, enabled |-> enabled]
                    ELSE [status |-> "operational", enabled |-> TRUE]],
     deps |-> [i \in DOMAIN edges |->
                 LET kind == IF i = 1 THEN first ELSE others
                 IN  [from |-> edges[i][1], to |-> edges[i][2],
                      type |-> kind[1], criticality |-> kind[2],
                      correlation |-> i # uncorrelated]]]

Diamond == << <<1, 2>>, <<1, 3>>, <<2, 4>>, <<3, 4>> >>
Pair == << <<1, 2>>, <<2, 1>>, <<2, 3>>, <<3, 4>> >>
Ring == << <<1, 2>>, <<2, 3>>, <<1, 3>>, <<3, 1>> >>

SmallCatalogs ==
    {Catalog(Diamond, "operational", FALSE, Strong, Middle, 2),
     Catalog(Pair, "operational", TRUE, Weak, Strong, 0),
     Catalog(Ring, "partial_outage", TRUE, Strong, Middle, 0)}

\* Requests are interchangeable.
Symmetry == Permutations(Requests)
=============================================================================
