------------------------------ MODULE MCReviews ------------------------------
(* Small instances of Reviews for TLC: the events of Twins share title tA,  *)
(* the others have title tB; e1 has a second spelling x1.                   *)
EXTENDS Reviews, TLC

CONSTANTS Twins, tA, tB, e1, x1

MCDenotes == [n \in Names |-> IF n = x1 THEN e1 ELSE n]
MCTitles == {tA, tB}
MCTitleOf == [e \in Events |-> IF e \in Twins THEN tA ELSE tB]

(* With one comment text it makes no difference which requests bring it,    *)
(* nor what an update that has found its review was looking for.            *)
Remembered(r) ==
  IF req[r].pc \in {"read", "write"} THEN [req[r] EXCEPT !.comment = None, !.review = None]
                                     ELSE [req[r] EXCEPT !.comment = None]
Condensed ==
  <<events, rows, cache, [r \in Requests |-> Remembered(r)], given, tainted>>

Symmetry == Permutations(Users) \cup Permutations(Requests) \cup Permutations(Ids) \cup Permutations(Comments)
=============================================================================
