--------------------------- MODULE MCRecommendations ---------------------------
(* A small instance of Recommendations for TLC: e1 and e2 share a title, e1  *)
(* has a second spelling x1.                                                 *)
EXTENDS Recommendations, TLC

CONSTANTS e1, e2, e3, e4, x1

MCDenotes == [n \in Names |-> IF n = x1 THEN e1 ELSE n]
MCTitleOf == [e \in Events |-> IF e \in {e1, e2} THEN "jazz" ELSE "chess"]
MCStartOf == [e \in Events |-> IF e = e1 THEN 2 ELSE 1]

(* Users of the start are alike, and so are request slots.                   *)
Symmetry == Permutations(OldUsers) \cup Permutations(Requests)

(* No step depends on what a cached list holds, only on whether there is one. *)
Condensed == <<accounts, events, rows, graph, [u \in Users |-> cache[u] = None], req,
               made, lost>>
=============================================================================
