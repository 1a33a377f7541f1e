----------------------------- MODULE MCReactions -----------------------------
(* Small instances of Reactions for TLC: the events of Twins share title    *)
(* tA, the others have title tB; e1 has a second spelling x1.               *)
EXTENDS Reactions, TLC

CONSTANTS Twins, tA, tB, e1, x1

MCDenotes == [n \in Names |-> IF n = x1 THEN e1 ELSE n]
MCTitles == {tA, tB}
MCTitleOf == [e \in Events |-> IF e \in Twins THEN tA ELSE tB]

(* Once its reaction is stored and in the graph, nothing reads the user and *)
(* the name of a request, nor which of the two kinds it is: states that     *)
(* differ only there are identified.                                        *)
Remembered(r) ==
  IF req[r].pc \in {"list", "count", "set"}
  THEN [req[r] EXCEPT !.user = None, !.name = None,
                      !.op = IF @ \in Kinds THEN "Like" ELSE @]
  ELSE req[r]
Condensed == <<events, rows, liked, cache, [r \in Requests |-> Remembered(r)], tainted>>

(* Nor does a guard read liked: a run whose properties do not either can    *)
(* ignore it too.                                                           *)
WithoutGraph == <<events, rows, cache, [r \in Requests |-> Remembered(r)], tainted>>

Symmetry == Permutations(Users) \cup Permutations(Requests)
=============================================================================
