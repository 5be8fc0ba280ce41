------------------------------- MODULE MCHold -------------------------------
(* Two windows over a group that is not shelved again, or one window and a   *)
(* group that is: the two kinds of overlap, each on its own.  The windows    *)
(* are interchangeable, so of two starts that differ in their names only one *)
(* is kept.                                                                  *)
EXTENDS Hold

First == CHOOSE w \in Windows : TRUE

MCInit ==
    /\ Init
    /\ \A w \in Windows \ {First} :
         <<window[First].behaviour, window[w].behaviour>>
             \in {<<Suppress, PauseOnly>>, <<PauseOnly, Incident>>, <<Incident, Suppress>>}
    /\ \/ shelf.no = MaxShelves /\ \A w \in Windows : ~window[w].deleted
       \/ shelf.no = 0 /\ \A w \in Windows : window[w].deleted <=> w # First

MCSpec == MCInit /\ [][Next]_vars /\ Fairness
=============================================================================
