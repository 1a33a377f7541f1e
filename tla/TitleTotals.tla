----------------------------- MODULE TitleTotals -----------------------------
(***************************************************************************)
(* What the per-title caches of the event hub promise, whatever they count *)
(* (reactions in internal/service/event.go, reviews in                     *)
(* internal/service/review.go): for each title a total that only grows,    *)
(* and a shown number that may lag behind it, down to zero, or be absent,  *)
(* but was filled with no more than the total of its time.                 *)
(*                                                                         *)
(* The total is over the rows that a count can find, those stored under    *)
(* the ids of the title's events as MongoDB returns them.                  *)
(***************************************************************************)
EXTENDS Naturals

CONSTANTS Titles, Absent

VARIABLES
  total,    \* rows stored under the ids of the events of a title
  shown     \* the number in the cache, or Absent

vars == <<total, shown>>

Init == total = [t \in Titles |-> 0] /\ shown = [t \in Titles |-> Absent]

(* A row is stored.                                                        *)
Grow(t) ==
  /\ total' = [total EXCEPT ![t] = @ + 1]
  /\ UNCHANGED shown

(* The cache is filled with what a count found.  A count takes time: rows  *)
(* stored meanwhile may be missing from it.                                *)
Fill(t) ==
  /\ \E n \in 0 .. total[t] : shown' = [shown EXCEPT ![t] = n]
  /\ UNCHANGED total

(* The entry expires.                                                      *)
Drop(t) ==
  /\ shown' = [shown EXCEPT ![t] = Absent]
  /\ UNCHANGED total

Next == \E t \in Titles : Grow(t) \/ Fill(t) \/ Drop(t)

Spec == Init /\ [][Next]_vars
=============================================================================
