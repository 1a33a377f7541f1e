---------------------------- MODULE ReviewsProofs ----------------------------
(***************************************************************************)
(* Proofs about Reviews, for every finite set of events and users and any  *)
(* number of concurrent requests.                                          *)
(*                                                                         *)
(* The cache is argued about as in ReactionsProofs: what a running count   *)
(* has counted is no more than what is stored (CountBound), and it is      *)
(* exactly what is stored as long as no review of the title overtakes the  *)
(* count (StatsExact); a finished count hands both on to the entry.  That  *)
(* the sums of ratings add up event by event is proved in Sums.            *)
(*                                                                         *)
(* What concerns single reviews needs users that wait for the answer to    *)
(* one request before they send the next: the second part of the module    *)
(* assumes it, and proves that between the look and the store of a request *)
(* nobody else writes its row.                                             *)
(***************************************************************************)
EXTENDS Reviews, Sums

(* The parts of the invariant take the state they speak of as arguments: a *)
(* slot q of req, the events ev, the table tb.                             *)
Table == [Keys -> Review \cup {None}]

RowsIn(tb, E) == {p \in E \X Users : tb[p] # None}
Of(ev, t) == {e \in ev : TitleOf[e] = t}

RatingSum(tb, S) == SumFunction([p \in S |-> tb[p].rating])
StatsIn(tb, E) == [count |-> Cardinality(RowsIn(tb, E)), sum |-> RatingSum(tb, RowsIn(tb, E))]
Zero == [count |-> 0, sum |-> 0]

Writes == {"Create", "Update"}
Counting(q) == q.pc \in {"count", "set"}
Storing(q) == q.op \in Writes /\ q.pc \in {"list", "count", "set"}

(* What the fields of a slot mean at each step.                            *)
SlotOK(q, ev) ==
  /\ q.pc = "idle" => q = Idle
  /\ q.pc # "idle" => q.title \in Titles
  /\ q.pc \in {"look", "insert", "find", "read", "write"} =>
       /\ q.user \in Users /\ q.op \in Writes
       /\ q.name \in Names /\ Denotes[q.name] \in ev /\ q.title = TitleOf[Denotes[q.name]]
  /\ q.pc \in {"look", "insert"} => q.rating # None /\ q.comment # None
  /\ q.pc = "write" => q.seen # None
  /\ q.pc = "get" => q.op = "Read"
  /\ Storing(q) => q.user \in Users
  /\ ~Counting(q) => q.sum = Zero /\ ~q.late /\ q.todo = {}
  /\ q.pc = "set" => q.todo = {}
  /\ q.todo \subseteq Of(ev, q.title)

Counted(q, ev) == Of(ev, q.title) \ q.todo

CountBound(q, ev, tb) ==
  Counting(q) => q.sum.count <= Cardinality(RowsIn(tb, Counted(q, ev)))

StatsExact(q, ev, tb) ==
  Counting(q) /\ ~q.late => q.sum = StatsIn(tb, Counted(q, ev))

SlotInv(q, ev, tb) ==
  SlotOK(q, ev) /\ CountBound(q, ev, tb) /\ StatsExact(q, ev, tb)

(* An event that was not created has no reviews.                           *)
NoOrphans(ev, tb) == \A p \in Keys : Denotes[p[1]] \notin ev => tb[p] = None

(* What may be in the cache of title t.                                    *)
Plausible(c, t, ev, tb) ==
  c # None => c.count <= Cardinality(RowsIn(tb, Of(ev, t)))

TrueEntry(c, t, ev, tb) == c \in {None, Summarise(StatsIn(tb, Of(ev, t)))}

Caused(t) == t \in tainted \/ \E r \in Requests : Storing(req[r]) /\ req[r].title = t

Inv ==
  /\ TypeOK
  /\ NoOrphans(events, rows)
  /\ \A r \in Requests : SlotInv(req[r], events, rows)
  /\ \A t \in Titles : Plausible(cache[t], t, events, rows)
  /\ \A t \in Titles : TrueEntry(cache[t], t, events, rows) \/ Caused(t)

-----------------------------------------------------------------------------
(* Numbers.                                                                *)

(* int8(n) is a byte, and an average of ratings a number, as Average       *)
(* divides by a count that is not zero only.                               *)
LEMMA Bytes == \A n \in Int : Int8(n) \in -128 .. 127
  BY DEF Int8

LEMMA Averages == ASSUME NEW s \in Stats PROVE Summarise(s) \in Summary
  <1>1. s.count \in Nat /\ s.sum \in Int
    BY DEF Stats
  <1>2. \A a \in Int : s.count > 0 => (20 * a + s.count) \div (2 * s.count) \in Int
    <2> TAKE a \in Int
    <2> HAVE s.count > 0
    <2>1. 20 * a + s.count \in Int /\ 2 * s.count \in Int /\ 2 * s.count > 0
      BY <1>1
    <2>2. \A m, k \in Int : k > 0 => m \div k \in Int
      OBVIOUS
    <2> QED BY <2>1, <2>2
  <1>3. Average(s) \in Int
    BY <1>1, <1>2 DEF Average
  <1> QED BY <1>1, <1>3 DEF Summarise, Summary

LEMMA PlusTyped == \A c, d \in Stats : Plus(c, d) \in Stats
  BY DEF Plus, Stats

-----------------------------------------------------------------------------
(* Counting rows.                                                          *)

(* Finitely many events and users have finitely many rows.                 *)
LEMMA FiniteRows ==
  ASSUME NEW tb, NEW E \in SUBSET Events
  PROVE  IsFiniteSet(RowsIn(tb, E)) /\ Cardinality(RowsIn(tb, E)) \in Nat
  <1>1. IsFiniteSet(E \X Users)
    BY FS_Subset, FS_Product, ReviewsAssumption
  <1>2. RowsIn(tb, E) \in SUBSET (E \X Users)
    BY DEF RowsIn
  <1> QED BY <1>1, <1>2, FS_Subset, FS_CardinalityType

(* The rows are reviews, and a review has a rating.                        *)
LEMMA RatedRows ==
  ASSUME NEW tb \in Table, NEW E \in SUBSET Events
  PROVE  \A p \in RowsIn(tb, E) : tb[p] \in Review /\ tb[p].rating \in Int
  BY ReviewsAssumption DEF RowsIn, Table, Keys, Review

(* The sum of the ratings of some rows, as a sum over them.                *)
LEMMA RatingSumIsSum ==
  ASSUME NEW tb, NEW S, IsFiniteSet(S), NEW w, \A p \in S : w[p] = tb[p].rating
  PROVE  RatingSum(tb, S) = SumOver(w, S)
  <1> DEFINE v == [p \in S |-> tb[p].rating]
  <1>1. RatingSum(tb, S) = SumOver(v, S)
    BY DEF RatingSum, SumOver, SumFunction
  <1>2. \A p \in S : v[p] = w[p]
    OBVIOUS
  <1> HIDE DEF v
  <1>3. SumOver(v, S) = SumOver(w, S)
    BY <1>2, SumOfSame
  <1> QED BY <1>1, <1>3

LEMMA StatsTyped ==
  ASSUME NEW tb \in Table, NEW E \in SUBSET Events
  PROVE  StatsIn(tb, E) \in Stats
  <1> DEFINE K == RowsIn(tb, E)
             w == [p \in K |-> tb[p].rating]
  <1>1. IsFiniteSet(K) /\ \A p \in K : w[p] \in Int /\ w[p] = tb[p].rating
    BY FiniteRows, RatedRows
  <1> HIDE DEF w
  <1>2. RatingSum(tb, K) \in Int
    BY <1>1, RatingSumIsSum, SumIsInt
  <1> QED BY <1>2, FiniteRows DEF StatsIn, Stats

(* Counting event after event.                                             *)
LEMMA StatsSplit ==
  ASSUME NEW tb \in Table, NEW E \in SUBSET Events, NEW F \in SUBSET Events, E \cap F = {}
  PROVE  StatsIn(tb, E \cup F) = Plus(StatsIn(tb, E), StatsIn(tb, F))
  <1> DEFINE K == RowsIn(tb, E)
             M == RowsIn(tb, F)
  <1>1. IsFiniteSet(K) /\ IsFiniteSet(M) /\ Cardinality(K) \in Nat /\ Cardinality(M) \in Nat
    BY FiniteRows
  <1>2. RowsIn(tb, E \cup F) = K \cup M /\ K \cap M = {}
    BY DEF RowsIn
  <1>3. \A p \in K \cup M : tb[p].rating \in Int
    BY RatedRows
  <1> HIDE DEF K, M
  <1>4. Cardinality(K \cup M) = Cardinality(K) + Cardinality(M)
    <2>1. Cardinality(K \cup M) = Cardinality(K) + Cardinality(M) - Cardinality(K \cap M)
      BY <1>1, FS_Union
    <2>2. Cardinality(K \cap M) = 0
      BY <1>2, FS_EmptySet
    <2> QED BY <1>1, <2>1, <2>2
  <1>5. RatingSum(tb, K \cup M) = RatingSum(tb, K) + RatingSum(tb, M)
    <2> DEFINE w == [p \in K \cup M |-> tb[p].rating]
    <2>1. \A p \in K \cup M : w[p] = tb[p].rating /\ w[p] \in Int
      BY <1>3
    <2>2. IsFiniteSet(K \cup M)
      BY <1>1, FS_Union
    <2> HIDE DEF w
    <2>3. /\ RatingSum(tb, K \cup M) = SumOver(w, K \cup M)
          /\ RatingSum(tb, K) = SumOver(w, K) /\ RatingSum(tb, M) = SumOver(w, M)
      BY <1>1, <2>1, <2>2, RatingSumIsSum
    <2>4. SumOver(w, K \cup M) = SumOver(w, K) + SumOver(w, M)
      BY <1>1, <1>2, <2>1, SumOfUnion
    <2> QED BY <2>3, <2>4
  <1>6. StatsIn(tb, E \cup F) = [count |-> Cardinality(K \cup M), sum |-> RatingSum(tb, K \cup M)]
    BY <1>2, Zenon DEF StatsIn
  <1>7. /\ StatsIn(tb, E) = [count |-> Cardinality(K), sum |-> RatingSum(tb, K)]
        /\ StatsIn(tb, F) = [count |-> Cardinality(M), sum |-> RatingSum(tb, M)]
    BY DEF StatsIn, K, M
  <1> QED BY <1>4, <1>5, <1>6, <1>7 DEF Plus

(* More events, or more rows, are at least as many rows.                   *)
LEMMA RowsGrow ==
  ASSUME NEW tb, NEW tc, NEW E \in SUBSET Events, NEW F \in SUBSET Events, E \subseteq F,
         \A p \in E \X Users : tb[p] # None => tc[p] # None
  PROVE  Cardinality(RowsIn(tb, E)) <= Cardinality(RowsIn(tc, F))
  <1>1. RowsIn(tb, E) \in SUBSET RowsIn(tc, F)
    BY DEF RowsIn
  <1> QED BY <1>1, FiniteRows, FS_Subset

(* Rows elsewhere do not matter.                                           *)
LEMMA StatsSame ==
  ASSUME NEW tb, NEW tc, NEW E \in SUBSET Events, NEW F \in SUBSET Events,
         \A p \in E \X Users : tb[p] # None => p \in F \X Users /\ tc[p] = tb[p],
         \A p \in F \X Users : tc[p] # None => p \in E \X Users /\ tb[p] = tc[p]
  PROVE  StatsIn(tb, E) = StatsIn(tc, F)
  <1> DEFINE K == RowsIn(tb, E)
  <1>1. RowsIn(tc, F) = K
    BY DEF RowsIn
  <1>2. \A p \in K : tb[p].rating = tc[p].rating
    BY DEF RowsIn
  <1>3. RatingSum(tb, K) = RatingSum(tc, K)
    <2>1. IsFiniteSet(K)
      BY FiniteRows
    <2> HIDE DEF K
    <2> DEFINE w == [p \in K |-> tb[p].rating]
    <2>2. \A p \in K : w[p] = tb[p].rating /\ w[p] = tc[p].rating
      BY <1>2
    <2> HIDE DEF w
    <2> QED BY <2>1, <2>2, RatingSumIsSum
  <1>4. StatsIn(tc, F) = [count |-> Cardinality(K), sum |-> RatingSum(tc, K)]
    BY <1>1, Zenon DEF StatsIn
  <1> QED BY <1>3, <1>4 DEF StatsIn

(* No events, no reviews.                                                  *)
LEMMA StatsOfNone == \A tb : StatsIn(tb, {}) = Zero /\ Cardinality(RowsIn(tb, {})) = 0
  <1> TAKE tb
  <1>1. RowsIn(tb, {}) = {}
    BY DEF RowsIn
  <1>2. Cardinality({}) = 0 /\ RatingSum(tb, {}) = 0
    BY FS_EmptySet, SumOfNone DEF RatingSum, SumFunction, SumOver
  <1> QED BY <1>1, <1>2, Zenon DEF StatsIn, Zero

-----------------------------------------------------------------------------
(* What the invariant says in the words of Reviews.                        *)
LEMMA ModelWords ==
  /\ \A t : EventsOf(t) = Of(events, t)
  /\ \A E : Rows(E) = RowsIn(rows, E) /\ StatsOf(E) = StatsIn(rows, E)
  BY DEF EventsOf, Of, Rows, RowsIn, StatsOf, StatsIn, RatingSum

LEMMA InvImplies == Inv => TypeOK /\ NeverOvercounts /\ StaleHasCause
  <1> SUFFICES ASSUME Inv PROVE NeverOvercounts /\ StaleHasCause
    BY DEF Inv
  <1>1. NeverOvercounts
    BY ModelWords DEF Inv, Plausible, NeverOvercounts
  <1>2. \A r \in Requests : Storing(req[r]) <=> Refreshing(r)
    BY DEF Storing, Refreshing, Writes
  <1>3. ASSUME NEW t \in Titles, Uncounted(t) = {}
        PROVE  StatsOf(NamesOf(t)) = StatsOf(EventsOf(t))
    <2> DEFINE E == NamesOf(t)
               F == EventsOf(t)
    <2>1. events \in SUBSET Events
      BY DEF Inv, TypeOK
    <2>2. E \in SUBSET Names /\ F \in SUBSET Names /\ F \subseteq E
      BY <2>1, ReviewsAssumption DEF NamesOf, EventsOf
    <2>3. \A n \in E : n \in Events => n \in F
      BY ReviewsAssumption DEF NamesOf
    <2>4. \A p \in E \X Users : rows[p] # None => p[1] \in Events
      BY <1>3 DEF Uncounted, Rows
    <2>5. \A p \in E \X Users : rows[p] # None => p \in F \X Users
      BY <2>3, <2>4
    <2> HIDE DEF E, F
    <2>6. RowsIn(rows, E) = RowsIn(rows, F)
      BY <2>2, <2>5 DEF RowsIn
    <2>7. StatsIn(rows, E) = StatsIn(rows, F)
      BY <2>6, Zenon DEF StatsIn
    <2> QED BY <2>7, ModelWords DEF E, F
  <1>4. ASSUME NEW t \in Titles, TrueEntry(cache[t], t, events, rows)
        PROVE  \/ cache[t] \in {None, Summarise(StatsOf(NamesOf(t)))}
               \/ Uncounted(t) # {} /\ cache[t] = Summarise(StatsOf(EventsOf(t)))
    <2>1. cache[t] \in {None, Summarise(StatsOf(EventsOf(t)))}
      BY <1>4, ModelWords DEF TrueEntry
    <2> QED BY <1>3, <2>1, Zenon
  <1>5. StaleHasCause
    <2> SUFFICES ASSUME NEW t \in Titles,
                        ~(\/ cache[t] \in {None, Summarise(StatsOf(NamesOf(t)))}
                          \/ Uncounted(t) # {} /\ cache[t] = Summarise(StatsOf(EventsOf(t))))
                 PROVE  t \in tainted \/ \E r \in Requests : Refreshing(r) /\ req[r].title = t
      BY Zenon DEF StaleHasCause
    <2>1. Caused(t)
      BY <1>4 DEF Inv
    <2> QED BY <1>2, <2>1 DEF Caused
  <1> QED BY <1>1, <1>5

-----------------------------------------------------------------------------
(* What other steps do to a slot and to an entry.                          *)

(* A new event has no rows, so no count and no entry changes its meaning.  *)
LEMMA NewEventKeeps ==
  ASSUME NEW tb \in Table, NEW ev \in SUBSET Events, NEW more \in SUBSET Events,
         ev \subseteq more, NoOrphans(ev, tb)
  PROVE  /\ \A q \in RequestType : SlotInv(q, ev, tb) => SlotInv(q, more, tb)
         /\ \A c \in Summary \cup {None}, t \in Titles :
              /\ Plausible(c, t, ev, tb) => Plausible(c, t, more, tb)
              /\ TrueEntry(c, t, ev, tb) => TrueEntry(c, t, more, tb)
  <1>1. ASSUME NEW t, NEW X
        PROVE  /\ Cardinality(RowsIn(tb, Of(ev, t) \ X)) <= Cardinality(RowsIn(tb, Of(more, t) \ X))
               /\ Cardinality(RowsIn(tb, Of(ev, t) \ X)) \in Nat
               /\ Cardinality(RowsIn(tb, Of(more, t) \ X)) \in Nat
               /\ StatsIn(tb, Of(ev, t) \ X) = StatsIn(tb, Of(more, t) \ X)
    <2> DEFINE E == Of(ev, t) \ X
               F == Of(more, t) \ X
    <2>1. E \in SUBSET Events /\ F \in SUBSET Events /\ E \subseteq F
      BY DEF Of
    <2>2. \A p \in F \X Users : tb[p] # None => p \in E \X Users
      BY ReviewsAssumption DEF Of, NoOrphans, Keys
    <2>3. \A p \in E \X Users : p \in F \X Users
      BY <2>1
    <2> HIDE DEF E, F
    <2>4. Cardinality(RowsIn(tb, E)) <= Cardinality(RowsIn(tb, F))
      BY <2>1, RowsGrow
    <2>5. StatsIn(tb, E) = StatsIn(tb, F)
      BY <2>1, <2>2, <2>3, StatsSame
    <2>6. Cardinality(RowsIn(tb, E)) \in Nat /\ Cardinality(RowsIn(tb, F)) \in Nat
      BY <2>1, FiniteRows
    <2> QED BY <2>4, <2>5, <2>6 DEF E, F
  <1>2. \A t : /\ Cardinality(RowsIn(tb, Of(ev, t))) <= Cardinality(RowsIn(tb, Of(more, t)))
               /\ Cardinality(RowsIn(tb, Of(ev, t))) \in Nat
               /\ Cardinality(RowsIn(tb, Of(more, t))) \in Nat
               /\ StatsIn(tb, Of(ev, t)) = StatsIn(tb, Of(more, t))
    <2> TAKE t
    <2>1. Of(ev, t) \ {} = Of(ev, t) /\ Of(more, t) \ {} = Of(more, t)
      OBVIOUS
    <2>2. /\ Cardinality(RowsIn(tb, Of(ev, t) \ {})) <= Cardinality(RowsIn(tb, Of(more, t) \ {}))
          /\ Cardinality(RowsIn(tb, Of(ev, t) \ {})) \in Nat
          /\ Cardinality(RowsIn(tb, Of(more, t) \ {})) \in Nat
          /\ StatsIn(tb, Of(ev, t) \ {}) = StatsIn(tb, Of(more, t) \ {})
      BY <1>1
    <2> QED BY <2>1, <2>2, Zenon
  <1>3. ASSUME NEW q \in RequestType, SlotInv(q, ev, tb)
        PROVE  SlotInv(q, more, tb)
    <2>1. SlotOK(q, more)
      BY <1>3 DEF SlotInv, SlotOK, Of
    <2>3. StatsExact(q, more, tb)
      BY <1>3, <1>1 DEF SlotInv, StatsExact, Counted
    <2>4. q.sum.count \in Nat
      BY DEF RequestType, Stats
    <2>5. CountBound(q, more, tb)
      <3>1. /\ Cardinality(RowsIn(tb, Counted(q, ev))) <= Cardinality(RowsIn(tb, Counted(q, more)))
            /\ Cardinality(RowsIn(tb, Counted(q, ev))) \in Nat
            /\ Cardinality(RowsIn(tb, Counted(q, more))) \in Nat
        BY <1>1 DEF Counted
      <3> QED BY <1>3, <2>4, <3>1 DEF SlotInv, CountBound
    <2> QED BY <2>1, <2>3, <2>5 DEF SlotInv
  <1>4. ASSUME NEW c, NEW t, TrueEntry(c, t, ev, tb)
        PROVE  TrueEntry(c, t, more, tb)
    BY <1>4, <1>2 DEF TrueEntry
  <1>5. ASSUME NEW c \in Summary \cup {None}, NEW t, Plausible(c, t, ev, tb)
        PROVE  Plausible(c, t, more, tb)
    <2>1. c # None => c.count \in Nat
      BY DEF Summary
    <2> QED BY <1>5, <1>2, <2>1 DEF Plausible
  <1> QED BY <1>3, <1>4, <1>5

(* Storing a row.                                                          *)
Stored(tb, n, u, row) == [tb EXCEPT ![<<n, u>>] = row]
StoredBelow(tb, tc) == \A p \in Keys : tb[p] # None => tc[p] # None
SameElsewhere(tb, tc, n) == \A p \in Keys : p[1] # n => tc[p] = tb[p]

LEMMA StoredTable ==
  ASSUME NEW tb \in Table, NEW tc, NEW ev \in SUBSET Events, NEW n \in Names,
         Denotes[n] \in ev, NEW u \in Users, NEW row \in Review, tc = Stored(tb, n, u, row)
  PROVE  /\ tc \in Table
         /\ tc[<<n, u>>] = row /\ row # None
         /\ \A p \in Keys : p # <<n, u>> => tc[p] = tb[p]
         /\ StoredBelow(tb, tc) /\ SameElsewhere(tb, tc, n)
         /\ NoOrphans(ev, tb) => NoOrphans(ev, tc)
  <1>1. <<n, u>> \in Keys
    BY DEF Keys
  <1>2. tc \in Table /\ tc[<<n, u>>] = row
    BY <1>1 DEF Table, Stored
  <1>3. \A p \in Keys : p # <<n, u>> => tc[p] = tb[p]
    BY DEF Table, Stored
  <1>4. \A p \in Keys : p[1] # n => tc[p] = tb[p]
    BY <1>3
  <1>5. row # None
    BY NoneAssumption
  <1>6. NoOrphans(ev, tb) => NoOrphans(ev, tc)
    BY <1>4 DEF NoOrphans
  <1> QED BY <1>2, <1>3, <1>4, <1>5, <1>6 DEF StoredBelow, SameElsewhere

(* A stored row leaves the counts of other titles alone, and those of its  *)
(* own title, t, lower bounds.                                             *)
Late(q) == [q EXCEPT !.late = TRUE]

LEMMA LateTyped ==
  ASSUME NEW q \in RequestType
  PROVE  /\ Late(q) \in RequestType /\ Late(q).pc = q.pc /\ Late(q).op = q.op
         /\ Late(q).title = q.title
  <1>1. Late(q) \in RequestType
    BY DEF RequestType, Late
  <1> QED BY <1>1 DEF RequestType, Late

SlotsKept(tb, tc, ev, t) ==
  \A q \in RequestType : SlotInv(q, ev, tb) =>
    IF Counting(q) /\ q.title = t THEN SlotInv(Late(q), ev, tc) ELSE SlotInv(q, ev, tc)

EntriesKept(tb, tc, ev, t) ==
  \A c \in Summary \cup {None}, s \in Titles :
    /\ Plausible(c, s, ev, tb) => Plausible(c, s, ev, tc)
    /\ s # t /\ TrueEntry(c, s, ev, tb) => TrueEntry(c, s, ev, tc)

LEMMA StoreKeeps ==
  ASSUME NEW tb \in Table, NEW tc, NEW ev \in SUBSET Events, NEW n \in Names,
         Denotes[n] \in ev, NEW u \in Users, NEW row \in Review, tc = Stored(tb, n, u, row)
  PROVE  SlotsKept(tb, tc, ev, TitleOf[Denotes[n]]) /\ EntriesKept(tb, tc, ev, TitleOf[Denotes[n]])
  <1>0. tc \in Table /\ StoredBelow(tb, tc) /\ SameElsewhere(tb, tc, n)
    BY StoredTable
  <1>1. /\ \A p \in Keys : tb[p] # None => tc[p] # None
        /\ \A p \in Keys : p[1] # n => tc[p] = tb[p]
    BY <1>0 DEF StoredBelow, SameElsewhere
  <1>2. ASSUME NEW E \in SUBSET Events
        PROVE  /\ Cardinality(RowsIn(tb, E)) <= Cardinality(RowsIn(tc, E))
               /\ Cardinality(RowsIn(tb, E)) \in Nat /\ Cardinality(RowsIn(tc, E)) \in Nat
               /\ n \notin E => StatsIn(tb, E) = StatsIn(tc, E)
    <2>0. \A p \in E \X Users : p \in Keys
      BY ReviewsAssumption DEF Keys
    <2>1. Cardinality(RowsIn(tb, E)) <= Cardinality(RowsIn(tc, E))
      <3>1. \A p \in E \X Users : tb[p] # None => tc[p] # None
        BY <1>1, <2>0
      <3> QED BY <3>1, RowsGrow
    <2>2. Cardinality(RowsIn(tb, E)) \in Nat /\ Cardinality(RowsIn(tc, E)) \in Nat
      BY FiniteRows
    <2>3. ASSUME n \notin E PROVE StatsIn(tb, E) = StatsIn(tc, E)
      <3>1. /\ \A p \in E \X Users : tb[p] # None => p \in E \X Users /\ tc[p] = tb[p]
            /\ \A p \in E \X Users : tc[p] # None => p \in E \X Users /\ tb[p] = tc[p]
        BY <1>1, <2>0, <2>3
      <3> QED BY <3>1, StatsSame
    <2> QED BY <2>1, <2>2, <2>3
  <1>3. ASSUME NEW c \in Summary \cup {None}, NEW t \in Titles
        PROVE  /\ Plausible(c, t, ev, tb) => Plausible(c, t, ev, tc)
               /\ t # TitleOf[Denotes[n]] /\ TrueEntry(c, t, ev, tb) => TrueEntry(c, t, ev, tc)
    <2>1. Of(ev, t) \in SUBSET Events /\ (t # TitleOf[Denotes[n]] => n \notin Of(ev, t))
      BY ReviewsAssumption DEF Of
    <2>2. /\ Cardinality(RowsIn(tb, Of(ev, t))) <= Cardinality(RowsIn(tc, Of(ev, t)))
          /\ Cardinality(RowsIn(tb, Of(ev, t))) \in Nat /\ Cardinality(RowsIn(tc, Of(ev, t))) \in Nat
          /\ t # TitleOf[Denotes[n]] => StatsIn(tb, Of(ev, t)) = StatsIn(tc, Of(ev, t))
      BY <2>1, <1>2
    <2>3. c # None => c.count \in Nat
      BY DEF Summary
    <2> QED BY <2>2, <2>3 DEF Plausible, TrueEntry
  <1>4. ASSUME NEW q \in RequestType, SlotInv(q, ev, tb)
        PROVE  /\ SlotOK(q, ev) /\ CountBound(q, ev, tc)
               /\ ~(Counting(q) /\ q.title = TitleOf[Denotes[n]]) => StatsExact(q, ev, tc)
    <2>1. Counted(q, ev) \in SUBSET Events /\ (q.title # TitleOf[Denotes[n]] => n \notin Counted(q, ev))
      BY ReviewsAssumption DEF Counted, Of
    <2>3. CountBound(q, ev, tc)
      <3>1. q.sum.count \in Nat
        BY DEF RequestType, Stats
      <3>2. /\ Cardinality(RowsIn(tb, Counted(q, ev))) <= Cardinality(RowsIn(tc, Counted(q, ev)))
            /\ Cardinality(RowsIn(tb, Counted(q, ev))) \in Nat
            /\ Cardinality(RowsIn(tc, Counted(q, ev))) \in Nat
        BY <2>1, <1>2
      <3> QED BY <3>1, <3>2, <1>4 DEF SlotInv, CountBound
    <2>4. ~(Counting(q) /\ q.title = TitleOf[Denotes[n]]) => StatsExact(q, ev, tc)
      <3>1. q.title # TitleOf[Denotes[n]] => StatsIn(tb, Counted(q, ev)) = StatsIn(tc, Counted(q, ev))
        BY <2>1, <1>2
      <3> QED BY <3>1, <1>4 DEF SlotInv, StatsExact
    <2> QED BY <1>4, <2>3, <2>4 DEF SlotInv
  <1>5. ASSUME NEW q \in RequestType, SlotInv(q, ev, tb), Counting(q)
        PROVE  SlotInv(Late(q), ev, tc)
    <2> DEFINE z == Late(q)
    <2>1. /\ z.pc = q.pc /\ z.op = q.op /\ z.user = q.user /\ z.name = q.name
          /\ z.title = q.title /\ z.todo = q.todo /\ z.sum = q.sum /\ z.late
      BY DEF RequestType, Late
    <2> HIDE DEF z
    <2>2. SlotOK(z, ev)
      BY <1>4, <1>5, <2>1 DEF SlotOK, Counting, Storing
    <2>3. CountBound(z, ev, tc)
      BY <1>4, <1>5, <2>1 DEF CountBound, Counting, Counted
    <2>4. StatsExact(z, ev, tc)
      BY <2>1 DEF StatsExact
    <2> QED BY <2>2, <2>3, <2>4 DEF SlotInv, z
  <1>6. SlotsKept(tb, tc, ev, TitleOf[Denotes[n]])
    BY <1>4, <1>5 DEF SlotsKept, SlotInv
  <1>7. EntriesKept(tb, tc, ev, TitleOf[Denotes[n]])
    BY <1>3 DEF EntriesKept
  <1> QED BY <1>6, <1>7

-----------------------------------------------------------------------------
(* The steps.                                                              *)

(* What the variables and the fields of a slot are.                        *)
LEMMA SlotTyped ==
  ASSUME Inv, NEW r \in Requests
  PROVE  /\ req \in [Requests -> RequestType] /\ req[r] \in RequestType
         /\ SlotInv(req[r], events, rows)
         /\ tainted \in SUBSET Titles /\ given \in [Keys -> SUBSET Ids]
         /\ cache \in [Titles -> Summary \cup {None}]
         /\ rows \in Table /\ events \in SUBSET Events /\ NoOrphans(events, rows)
  BY DEF Inv, TypeOK, Table

(* A slot that is free holds nothing.                                      *)
LEMMA IdleSlot == Idle \in RequestType /\ \A ev, tb : SlotInv(Idle, ev, tb)
  BY DEF Idle, RequestType, Stats, SlotInv, SlotOK, CountBound, StatsExact, Counting,
         Storing, Zero, Writes

LEMMA InitInv == Init => Inv
  <1> SUFFICES ASSUME Init PROVE Inv
    OBVIOUS
  <1>1. \A r \in Requests : req[r] = Idle
    BY DEF Init
  <1>2. Idle.todo = {}
    BY DEF Idle
  <1>3. TypeOK
    BY <1>1, <1>2, IdleSlot DEF Init, TypeOK
  <1>4. NoOrphans(events, rows)
    BY DEF Init, NoOrphans
  <1>5. \A t \in Titles : Plausible(cache[t], t, events, rows) /\ TrueEntry(cache[t], t, events, rows)
    BY DEF Init, Plausible, TrueEntry
  <1> QED BY <1>1, <1>3, <1>4, <1>5, IdleSlot DEF Inv

(* A step that moves one request and touches neither rows, events nor the  *)
(* cache keeps the invariant, if the slot is right where it arrives and    *)
(* the cause it may have been of a stale entry is not forgotten.           *)
LEMMA QuietStep ==
  ASSUME Inv, NEW r \in Requests, NEW z \in RequestType, req' = [req EXCEPT ![r] = z],
         UNCHANGED <<events, rows, cache>>, given' \in [Keys -> SUBSET Ids],
         tainted' \in SUBSET Titles, tainted \subseteq tainted',
         Storing(req[r]) => req[r].title \in tainted' \/ (Storing(z) /\ z.title = req[r].title),
         SlotInv(z, events, rows)
  PROVE  Inv'
  <1>1. /\ req' \in [Requests -> RequestType] /\ req'[r] = z
        /\ \A q \in Requests : q # r => req'[q] = req[q]
    BY DEF Inv, TypeOK
  <1>2. \A q \in Requests : SlotInv(req'[q], events', rows')
    BY <1>1 DEF Inv
  <1>3. \A e \in z.todo : e \in events /\ TitleOf[e] = z.title
    BY DEF SlotInv, SlotOK, Of
  <1>4. TypeOK'
    <2>1. \A q \in Requests : \A e \in req'[q].todo : e \in events' /\ TitleOf[e] = req'[q].title
      BY <1>1, <1>3 DEF Inv, TypeOK
    <2> QED BY <1>1, <2>1 DEF Inv, TypeOK
  <1>5. ASSUME NEW t \in Titles, Caused(t) PROVE Caused(t)'
    <2>1. CASE t \in tainted
      BY <2>1 DEF Caused
    <2>2. ASSUME NEW q \in Requests, Storing(req[q]), req[q].title = t PROVE Caused(t)'
      BY <2>2, <1>1 DEF Caused
    <2> QED BY <1>5, <2>1, <2>2 DEF Caused
  <1> QED BY <1>2, <1>4, <1>5 DEF Inv

LEMMA CreateEventInv == ASSUME Inv, NEW e \in Events, CreateEvent(e) PROVE Inv'
  <1> USE DEF CreateEvent
  <1>1. /\ rows \in Table /\ events \in SUBSET Events /\ events' \in SUBSET Events
        /\ events \subseteq events' /\ NoOrphans(events, rows)
    BY DEF Inv, TypeOK, Table
  <1>2. \A q \in RequestType : SlotInv(q, events, rows) => SlotInv(q, events', rows)
    BY <1>1, NewEventKeeps
  <1>3. \A c \in Summary \cup {None}, t \in Titles :
          /\ Plausible(c, t, events, rows) => Plausible(c, t, events', rows)
          /\ TrueEntry(c, t, events, rows) => TrueEntry(c, t, events', rows)
    BY <1>1, NewEventKeeps
  <1>4. TypeOK'
    BY DEF Inv, TypeOK
  <1>5. NoOrphans(events', rows')
    BY DEF Inv, NoOrphans
  <1>6. \A q \in Requests : SlotInv(req'[q], events', rows')
    BY <1>2 DEF Inv, TypeOK
  <1>7. \A t \in Titles : Caused(t)' <=> Caused(t)
    BY DEF Caused
  <1>8. \A t \in Titles : /\ Plausible(cache'[t], t, events', rows')
                          /\ TrueEntry(cache'[t], t, events', rows') \/ Caused(t)'
    BY <1>3, <1>7 DEF Inv, TypeOK
  <1> QED BY <1>4, <1>5, <1>6, <1>8 DEF Inv

(* The slot a request begins with.                                         *)
Begun(q, u, n) == [q EXCEPT !.user = u, !.name = n, !.title = TitleOf[Denotes[n]]]

LEMMA BegunTyped ==
  ASSUME NEW q \in RequestType, NEW u \in Users, NEW n \in Names, NEW z, z = Begun(q, u, n)
  PROVE  /\ z \in RequestType /\ z.user = u /\ z.name = n /\ z.title = TitleOf[Denotes[n]]
         /\ z.pc = q.pc /\ z.op = q.op /\ z.rating = q.rating /\ z.comment = q.comment
         /\ z.todo = q.todo /\ z.sum = q.sum /\ z.late = q.late
  <1>1. TitleOf[Denotes[n]] \in Titles
    BY ReviewsAssumption
  <1> DEFINE y == [q EXCEPT !.user = u, !.name = n, !.title = TitleOf[Denotes[n]]]
  <1>2. y \in RequestType
    BY <1>1 DEF RequestType
  <1>3. /\ y.user = u /\ y.name = n /\ y.title = TitleOf[Denotes[n]]
        /\ y.pc = q.pc /\ y.op = q.op /\ y.rating = q.rating /\ y.comment = q.comment
        /\ y.todo = q.todo /\ y.sum = q.sum /\ y.late = q.late
    BY <1>2 DEF RequestType
  <1> QED BY <1>2, <1>3 DEF Begun

(* A request begins in a free slot, with nothing counted yet.              *)
LEMMA BeginInv ==
  ASSUME Inv, NEW r \in Requests, NEW u \in Users, NEW n \in Names, NEW q \in RequestType,
         Begin(r, u, n, q), q.pc \in {"look", "find"}, q.op \in Writes,
         q.pc = "look" => q.rating # None /\ q.comment # None,
         q.sum = Zero, ~q.late, q.todo = {}
  PROVE  Inv'
  <1> DEFINE z == Begun(q, u, n)
  <1>1. /\ z \in RequestType /\ z.user = u /\ z.name = n /\ z.title = TitleOf[Denotes[n]]
        /\ z.pc = q.pc /\ z.op = q.op /\ z.rating = q.rating /\ z.comment = q.comment
        /\ z.todo = q.todo /\ z.sum = q.sum /\ z.late = q.late
    BY BegunTyped
  <1>2. req' = [req EXCEPT ![r] = z] /\ Denotes[n] \in events
    BY DEF Begin, Begun
  <1> HIDE DEF z
  <1>3. SlotInv(z, events, rows)
    BY <1>1, <1>2, ReviewsAssumption
    DEF SlotInv, SlotOK, CountBound, StatsExact, Counting, Storing
  <1>4. ~Storing(req[r])
    BY DEF Begin, Active, Storing
  <1> QED BY <1>1, <1>2, <1>3, <1>4, QuietStep, SlotTyped DEF Begin

(* What a creation and an update ask for.                                  *)
Asked(q) ==
  /\ q.pc \in {"look", "find"} /\ q.op \in Writes
  /\ q.pc = "look" => q.rating # None /\ q.comment # None
  /\ q.sum = Zero /\ ~q.late /\ q.todo = {}

LEMMA CreateBegins ==
  ASSUME Inv, NEW r \in Requests, NEW u \in Users, NEW n \in Names, Create(r, u, n)
  PROVE  \E q \in RequestType : Begin(r, u, n, q) /\ Asked(q)
  <1>1. PICK stars \in Ratings, text \in Comments :
          Begin(r, u, n, [Idle EXCEPT !.pc = "look", !.op = "Create", !.rating = Int8(stars),
                                      !.comment = text])
    BY DEF Create
  <1> DEFINE q == [Idle EXCEPT !.pc = "look", !.op = "Create", !.rating = Int8(stars),
                               !.comment = text]
  <1>2. Int8(stars) \in -128 .. 127 /\ Int8(stars) # None /\ text # None
    BY Bytes, ReviewsAssumption
  <1>3. /\ q.pc = "look" /\ q.op = "Create" /\ q.rating = Int8(stars) /\ q.comment = text
        /\ q.sum = Zero /\ ~q.late /\ q.todo = {}
    BY DEF Idle, Zero
  <1>4. q \in RequestType
    BY <1>2, IdleSlot DEF RequestType
  <1>5. Begin(r, u, n, q)
    BY <1>1
  <1> HIDE DEF q
  <1> QED BY <1>2, <1>3, <1>4, <1>5 DEF Asked, Writes

LEMMA UpdateBegins ==
  ASSUME Inv, NEW r \in Requests, NEW u \in Users, NEW n \in Names, Update(r, u, n)
  PROVE  \E q \in RequestType : Begin(r, u, n, q) /\ Asked(q)
  <1>1. PICK id \in UNION {given[p] : p \in {p \in Keys : Denotes[p[1]] = Denotes[n]}},
             stars \in Ratings \cup {None}, text \in Comments \cup {None} :
          Begin(r, u, n, [Idle EXCEPT !.pc = "find", !.op = "Update", !.review = id,
                                      !.rating = IF stars = None THEN None ELSE Int8(stars),
                                      !.comment = text])
    BY DEF Update
  <1>2. id \in Ids
    <2>1. PICK k \in Keys : id \in given[k]
      OBVIOUS
    <2> QED BY <2>1, SlotTyped
  <1>3. PICK k \in -128 .. 127 \cup {None} : k = IF stars = None THEN None ELSE Int8(stars)
    BY Bytes, ReviewsAssumption
  <1> DEFINE q == [Idle EXCEPT !.pc = "find", !.op = "Update", !.review = id, !.rating = k,
                               !.comment = text]
  <1>4. /\ q.pc = "find" /\ q.op = "Update" /\ q.sum = Zero /\ ~q.late /\ q.todo = {}
    BY DEF Idle, Zero
  <1>5. q \in RequestType
    <2>1. Idle \in RequestType /\ id \in Ids \cup {None} /\ text \in Comments \cup {None}
      BY <1>2, IdleSlot
    <2>2. k \in -128 .. 127 \cup {None}
      OBVIOUS
    <2> DEFINE w == [Idle EXCEPT !.pc = "find", !.op = "Update", !.review = id]
               x == [w EXCEPT !.rating = k]
               y == [x EXCEPT !.comment = text]
    <2>3. w \in RequestType
      BY <2>1 DEF RequestType
    <2>4. y = q
      BY DEF Idle
    <2> HIDE DEF w, q
    <2>5. x \in RequestType
      BY <2>2, <2>3 DEF RequestType
    <2> HIDE DEF x
    <2>6. y \in RequestType
      BY <2>1, <2>5 DEF RequestType
    <2> QED BY <2>4, <2>6
  <1>6. Begin(r, u, n, q)
    BY <1>1, <1>3, Zenon
  <1> HIDE DEF q
  <1> QED BY <1>4, <1>5, <1>6 DEF Asked, Writes

LEMMA CreateInv ==
  ASSUME Inv, NEW r \in Requests, NEW u \in Users, NEW n \in Names, Create(r, u, n)
  PROVE  Inv'
  BY CreateBegins, BeginInv DEF Asked

LEMMA UpdateInv ==
  ASSUME Inv, NEW r \in Requests, NEW u \in Users, NEW n \in Names, Update(r, u, n)
  PROVE  Inv'
  BY UpdateBegins, BeginInv DEF Asked

LEMMA ReadInv ==
  ASSUME Inv, NEW r \in Requests, NEW e \in Events, Read(r, e)
  PROVE  Inv'
  <1> DEFINE z == [Idle EXCEPT !.pc = "get", !.title = TitleOf[e]]
  <1>1. /\ z.pc = "get" /\ z.op = "Read" /\ z.title = TitleOf[e]
        /\ z.todo = {} /\ z.sum = Zero /\ ~z.late
    BY DEF Idle, Zero
  <1>2. z \in RequestType
    BY IdleSlot, ReviewsAssumption DEF RequestType
  <1>3. req' = [req EXCEPT ![r] = z] /\ ~Storing(req[r])
    BY DEF Read, Active, Storing
  <1> HIDE DEF z
  <1>4. SlotInv(z, events, rows)
    BY <1>1, ReviewsAssumption
    DEF SlotInv, SlotOK, CountBound, StatsExact, Counting, Storing, Writes
  <1> QED BY <1>2, <1>3, <1>4, QuietStep, SlotTyped DEF Read

(* The end of a request, its slot free, tells the title if it was storing. *)
LEMMA EndInv ==
  ASSUME Inv, NEW r \in Requests, Done(r), UNCHANGED <<events, rows, cache>>,
         given' \in [Keys -> SUBSET Ids], tainted' \in SUBSET Titles, tainted \subseteq tainted',
         Storing(req[r]) => req[r].title \in tainted'
  PROVE  Inv'
  BY IdleSlot, QuietStep, SlotTyped DEF Done

LEMMA FailInv ==
  ASSUME Inv, NEW r \in Requests, Fail(r), UNCHANGED <<events, rows, cache, given>>
  PROVE  Inv'
  <1>1. Storing(req[r]) <=> Refreshing(r)
    BY DEF Storing, Refreshing, Writes
  <1>2. Refreshing(r) => req[r].title \in Titles
    BY <1>1, SlotTyped DEF SlotInv, SlotOK, Storing
  <1> QED BY <1>1, <1>2, EndInv, SlotTyped DEF Fail

(* Slots that differ in pc only.                                           *)
MovedTo(q, z, label) ==
  /\ z.pc = label /\ z.op = q.op /\ z.user = q.user /\ z.name = q.name /\ z.title = q.title
  /\ z.review = q.review /\ z.rating = q.rating /\ z.comment = q.comment /\ z.seen = q.seen
  /\ z.todo = q.todo /\ z.sum = q.sum /\ z.late = q.late

LEMMA Moved ==
  ASSUME Inv, NEW r \in Requests, NEW label \in {"insert", "read", "list", "set"}, Goto(r, label)
  PROVE  \E z \in RequestType : req' = [req EXCEPT ![r] = z] /\ MovedTo(req[r], z, label)
  <1> DEFINE z == [req[r] EXCEPT !.pc = label]
  <1>1. req[r] \in RequestType
    BY SlotTyped
  <1>2. z \in RequestType /\ MovedTo(req[r], z, label)
    BY <1>1 DEF RequestType, MovedTo
  <1>3. req' = [req EXCEPT ![r] = z]
    BY DEF Goto
  <1> QED BY <1>2, <1>3

(* A request that has not stored yet takes another step before its store.  *)
LEMMA GotoInv ==
  ASSUME Inv, NEW r \in Requests, NEW label \in {"insert", "read"}, Goto(r, label),
         req[r].pc = IF label = "insert" THEN "look" ELSE "find",
         UNCHANGED <<events, rows, cache, given, tainted>>
  PROVE  Inv'
  <1>1. PICK z \in RequestType : req' = [req EXCEPT ![r] = z] /\ MovedTo(req[r], z, label)
    BY Moved
  <1>2. SlotInv(z, events, rows) /\ ~Storing(req[r])
    BY <1>1, SlotTyped
    DEF SlotInv, SlotOK, CountBound, StatsExact, Counting, Storing, MovedTo
  <1> QED BY <1>1, <1>2, QuietStep, SlotTyped

LEMMA LookInv == ASSUME Inv, NEW r \in Requests, Look(r) PROVE Inv'
  <1>1. req[r].pc = "look" /\ ~Storing(req[r])
    BY DEF Look, Storing
  <1>2. CASE Done(r)
    BY <1>1, <1>2, EndInv, SlotTyped DEF Look
  <1>3. CASE Goto(r, "insert")
    BY <1>1, <1>3, GotoInv DEF Look
  <1> QED BY <1>2, <1>3 DEF Look

LEMMA FindInv == ASSUME Inv, NEW r \in Requests, Find(r) PROVE Inv'
  <1>1. req[r].pc = "find" /\ ~Storing(req[r])
    BY DEF Find, Storing
  <1>2. CASE Done(r) /\ UNCHANGED tainted
    BY <1>1, <1>2, EndInv, SlotTyped DEF Find
  <1>3. CASE Goto(r, "read") /\ UNCHANGED tainted
    BY <1>1, <1>3, GotoInv DEF Find
  <1>4. CASE Fail(r)
    BY <1>4, FailInv DEF Find
  <1> QED BY <1>2, <1>3, <1>4 DEF Find

(* UpdateReview goes on with the row it read.                              *)
WriteSlot(q, row) == [q EXCEPT !.pc = "write", !.seen = row]

LEMMA WriteSlotTyped ==
  ASSUME NEW q \in RequestType, NEW row \in Review, NEW z, z = WriteSlot(q, row)
  PROVE  /\ z \in RequestType /\ z.pc = "write" /\ z.seen = row
         /\ z.op = q.op /\ z.user = q.user /\ z.name = q.name /\ z.title = q.title
         /\ z.review = q.review /\ z.todo = q.todo /\ z.sum = q.sum /\ z.late = q.late
  <1>1. row \in Review \cup {None}
    OBVIOUS
  <1> DEFINE y == [q EXCEPT !.pc = "write", !.seen = row]
  <1>2. y \in RequestType
    BY <1>1 DEF RequestType
  <1>3. /\ y.pc = "write" /\ y.seen = row
        /\ y.op = q.op /\ y.user = q.user /\ y.name = q.name /\ y.title = q.title
        /\ y.review = q.review /\ y.todo = q.todo /\ y.sum = q.sum /\ y.late = q.late
    BY <1>2 DEF RequestType
  <1> QED BY <1>2, <1>3 DEF WriteSlot

(* A count goes on to the next event.                                      *)
CountSlot(q, todo, sum) == [q EXCEPT !.todo = todo, !.sum = sum]

LEMMA CountSlotTyped ==
  ASSUME NEW q \in RequestType, NEW todo \in SUBSET Events, NEW sum \in Stats, NEW z,
         z = CountSlot(q, todo, sum)
  PROVE  /\ z \in RequestType /\ z.todo = todo /\ z.sum = sum /\ z.pc = q.pc
         /\ z.op = q.op /\ z.user = q.user /\ z.name = q.name /\ z.title = q.title
         /\ z.late = q.late
  <1> DEFINE y == [q EXCEPT !.todo = todo, !.sum = sum]
  <1>1. y \in RequestType
    BY DEF RequestType
  <1>2. /\ y.todo = todo /\ y.sum = sum /\ y.pc = q.pc
        /\ y.op = q.op /\ y.user = q.user /\ y.name = q.name /\ y.title = q.title
        /\ y.late = q.late
    BY <1>1 DEF RequestType
  <1> QED BY <1>1, <1>2 DEF CountSlot

LEMMA ReadRowInv == ASSUME Inv, NEW r \in Requests, ReadRow(r) PROVE Inv'
  <1>1. req[r].pc = "read" /\ ~Storing(req[r])
    BY DEF ReadRow, Storing
  <1>2. CASE Done(r) /\ UNCHANGED tainted
    BY <1>1, <1>2, EndInv, SlotTyped DEF ReadRow
  <1>3. CASE Fail(r)
    BY <1>3, FailInv DEF ReadRow
  <1>4. CASE /\ rows[Key(r)] # None
             /\ req' = [req EXCEPT ![r].pc = "write", ![r].seen = rows[Key(r)]]
             /\ UNCHANGED tainted
    <2> DEFINE q == req[r]
    <2>1. q \in RequestType /\ SlotInv(q, events, rows) /\ Key(r) \in Keys
      BY <1>1, SlotTyped DEF SlotInv, SlotOK, Key, Keys
    <2>2. PICK row \in Review : row = rows[Key(r)]
      BY <1>4, <2>1, SlotTyped DEF Table
    <2> DEFINE z == WriteSlot(q, row)
    <2>3. /\ z \in RequestType /\ z.pc = "write" /\ z.seen = row
          /\ z.op = q.op /\ z.user = q.user /\ z.name = q.name /\ z.title = q.title
          /\ z.todo = q.todo /\ z.sum = q.sum /\ z.late = q.late
      BY <2>1, WriteSlotTyped
    <2>4. req' = [req EXCEPT ![r] = z]
      BY <1>4, <2>2 DEF WriteSlot
    <2> HIDE DEF z
    <2>5. SlotInv(z, events, rows)
      BY <1>1, <1>4, <2>1, <2>2, <2>3
      DEF SlotInv, SlotOK, CountBound, StatsExact, Counting, Storing
    <2> QED BY <1>1, <1>4, <2>3, <2>4, <2>5, QuietStep, SlotTyped DEF ReadRow
  <1> QED BY <1>2, <1>3, <1>4 DEF ReadRow

LEMMA GetCachedInv == ASSUME Inv, NEW r \in Requests, GetCached(r) PROVE Inv'
  <1>1. req[r].op = "Read" /\ req[r].pc = "get" /\ ~Storing(req[r])
    BY SlotTyped DEF GetCached, Hit, SlotInv, SlotOK, Storing, Writes
  <1>2. CASE Done(r) /\ UNCHANGED tainted
    BY <1>1, <1>2, EndInv, SlotTyped DEF GetCached, Hit
  <1>3. CASE Goto(r, "list") /\ UNCHANGED tainted
    <2>1. PICK z \in RequestType : req' = [req EXCEPT ![r] = z] /\ MovedTo(req[r], z, "list")
      BY <1>3, Moved
    <2>2. SlotInv(z, events, rows)
      BY <1>1, <2>1, SlotTyped
      DEF SlotInv, SlotOK, CountBound, StatsExact, Counting, Storing, Writes, MovedTo
    <2> QED BY <1>1, <1>3, <2>1, <2>2, QuietStep, SlotTyped DEF GetCached, Hit
  <1>4. CASE Fail(r)
    BY <1>4, FailInv DEF GetCached, Hit
  <1> QED BY <1>2, <1>3, <1>4 DEF GetCached, Hit

LEMMA ListEventsInv == ASSUME Inv, NEW r \in Requests, ListEvents(r) PROVE Inv'
  <1>1. CASE Fail(r)
    BY <1>1, FailInv DEF ListEvents
  <1>2. CASE /\ req' = [req EXCEPT ![r].pc = "count", ![r].todo = EventsOf(req[r].title)]
             /\ UNCHANGED tainted
    <2> DEFINE q == req[r]
               z == [q EXCEPT !.pc = "count", !.todo = EventsOf(q.title)]
    <2>1. q \in RequestType /\ q.pc = "list" /\ SlotInv(q, events, rows)
      BY SlotTyped DEF ListEvents
    <2>2. EventsOf(q.title) = Of(events, q.title) /\ EventsOf(q.title) \subseteq Events
      BY SlotTyped DEF EventsOf, Of
    <2>3. z \in RequestType
      BY <2>1, <2>2 DEF RequestType
    <2>4. /\ z.pc = "count" /\ z.op = q.op /\ z.user = q.user /\ z.name = q.name
          /\ z.title = q.title /\ z.todo = Of(events, q.title) /\ z.sum = Zero /\ ~z.late
      BY <2>1, <2>2 DEF RequestType, SlotInv, SlotOK, Counting
    <2>5. req' = [req EXCEPT ![r] = z]
      BY <1>2
    <2> HIDE DEF z
    <2>6. SlotOK(z, events)
      BY <2>1, <2>4 DEF SlotInv, SlotOK, Counting, Storing
    <2>8. CountBound(z, events, rows) /\ StatsExact(z, events, rows)
      <3>1. Counted(z, events) = {}
        BY <2>4 DEF Counted
      <3>2. /\ Cardinality(RowsIn(rows, Counted(z, events))) = 0
            /\ StatsIn(rows, Counted(z, events)) = Zero
        BY <3>1, StatsOfNone, Zenon
      <3> QED BY <2>4, <3>2 DEF CountBound, StatsExact, Zero
    <2>9. Storing(q) => Storing(z)
      BY <2>4 DEF Storing
    <2> QED BY <1>2, <2>3, <2>4, <2>5, <2>6, <2>8, <2>9, QuietStep, SlotTyped
            DEF ListEvents, SlotInv
  <1> QED BY <1>1, <1>2 DEF ListEvents

LEMMA CountEventInv == ASSUME Inv, NEW r \in Requests, NEW e \in Events, CountEvent(r, e) PROVE Inv'
  <1>1. CASE Fail(r)
    BY <1>1, FailInv DEF CountEvent
  <1>2. CASE /\ req' = [req EXCEPT ![r].todo = @ \ {e}, ![r].sum = Plus(@, StatsOf({e}))]
             /\ UNCHANGED tainted
    <2> DEFINE q == req[r]
    <2>1. q \in RequestType /\ q.pc = "count" /\ e \in q.todo /\ SlotInv(q, events, rows)
      BY SlotTyped DEF CountEvent
    <2>2. PICK one \in Stats : one = StatsIn(rows, {e})
      BY StatsTyped, SlotTyped
    <2> DEFINE z == CountSlot(q, q.todo \ {e}, Plus(q.sum, one))
    <2>3. StatsOf({e}) = one
      BY <2>2, ModelWords
    <2>4. req' = [req EXCEPT ![r] = z]
      BY <1>2, <2>3 DEF CountSlot
    <2>5. /\ Plus(q.sum, one) \in Stats /\ Plus(q.sum, one).count = q.sum.count + one.count
          /\ q.sum.count \in Nat /\ one.count \in Nat
      BY <2>1, PlusTyped DEF Plus, Stats, RequestType
    <2>6. q.todo \ {e} \in SUBSET Events
      BY <2>1 DEF RequestType
    <2>7. /\ z \in RequestType /\ z.pc = "count" /\ z.op = q.op /\ z.user = q.user
          /\ z.name = q.name /\ z.title = q.title /\ z.todo = q.todo \ {e}
          /\ z.sum = Plus(q.sum, one) /\ z.late = q.late
      BY <2>1, <2>5, <2>6, CountSlotTyped
    <2>8. one.count = Cardinality(RowsIn(rows, {e}))
      BY <2>2 DEF StatsIn
    <2> HIDE DEF z
    <2>9. SlotOK(z, events)
      BY <2>1, <2>7 DEF SlotInv, SlotOK, Counting, Storing
    <2>11. /\ Counted(z, events) = Counted(q, events) \cup {e}
           /\ Counted(q, events) \cap {e} = {}
           /\ Counted(q, events) \in SUBSET Events
      BY <2>1, <2>7, SlotTyped DEF Counted, SlotInv, SlotOK, Of
    <2>12. StatsIn(rows, Counted(z, events)) = Plus(StatsIn(rows, Counted(q, events)), one)
      <3>1. StatsIn(rows, Counted(q, events) \cup {e}) =
              Plus(StatsIn(rows, Counted(q, events)), StatsIn(rows, {e}))
        BY <2>11, StatsSplit, SlotTyped
      <3> QED BY <2>2, <2>11, <3>1, Zenon
    <2>13. CountBound(z, events, rows)
      <3>1. q.sum.count <= Cardinality(RowsIn(rows, Counted(q, events)))
        BY <2>1 DEF SlotInv, CountBound, Counting
      <3>2. /\ Cardinality(RowsIn(rows, Counted(z, events))) =
                 Cardinality(RowsIn(rows, Counted(q, events))) + one.count
            /\ Cardinality(RowsIn(rows, Counted(q, events))) \in Nat
        BY <2>11, <2>12, FiniteRows DEF StatsIn, Plus
      <3> QED BY <3>1, <3>2, <2>5, <2>7 DEF CountBound
    <2>14. StatsExact(z, events, rows)
      <3>1. ~q.late => q.sum = StatsIn(rows, Counted(q, events))
        BY <2>1 DEF SlotInv, StatsExact, Counting
      <3> QED BY <3>1, <2>7, <2>12 DEF StatsExact
    <2>15. Storing(q) => Storing(z)
      BY <2>1, <2>7 DEF Storing
    <2> QED BY <1>2, <2>4, <2>7, <2>9, <2>13, <2>14, <2>15, QuietStep, SlotTyped
            DEF CountEvent, SlotInv
  <1> QED BY <1>1, <1>2 DEF CountEvent

LEMMA CountEndsInv == ASSUME Inv, NEW r \in Requests, CountEnds(r) PROVE Inv'
  <1> DEFINE q == req[r]
  <1>1. /\ q.pc = "count" /\ q.todo = {} /\ SlotInv(q, events, rows) /\ q \in RequestType
        /\ q.sum \in Stats
    BY SlotTyped DEF CountEnds, RequestType
  <1>2. CASE Fills(r)
    <2>1. PICK z \in RequestType : req' = [req EXCEPT ![r] = z] /\ MovedTo(q, z, "set")
      BY <1>2, Moved DEF CountEnds
    <2>3. SlotOK(z, events)
      BY <1>1, <2>1 DEF SlotInv, SlotOK, Counting, Storing, MovedTo
    <2>5. Counted(z, events) = Counted(q, events)
      BY <2>1 DEF Counted, MovedTo
    <2>6. CountBound(z, events, rows) /\ StatsExact(z, events, rows)
      BY <1>1, <2>1, <2>5 DEF SlotInv, CountBound, StatsExact, Counting, MovedTo
    <2>7. Storing(q) => Storing(z) /\ z.title = q.title
      BY <2>1 DEF Storing, MovedTo
    <2> QED BY <2>1, <2>3, <2>6, <2>7, QuietStep, SlotTyped DEF CountEnds, SlotInv
  <1>3. CASE ~Fills(r)
    <2>1. ~Storing(q)
      BY <1>3 DEF Fills, Storing, Writes
    <2> QED BY <1>3, <2>1, EndInv, SlotTyped DEF CountEnds
  <1> QED BY <1>2, <1>3

(* Storing a row in the middle of a request: whatever the slot z the       *)
(* request goes on with, the other slots and the cache stay right, and the *)
(* request or tainted answers for an entry that no longer is the truth.    *)
LEMMA StoreStep ==
  ASSUME Inv, NEW r \in Requests, req[r].pc \in {"insert", "write"}, NEW row \in Review,
         NEW z \in RequestType, StoreRow(r, row), MarkLate(r, z),
         UNCHANGED <<events, cache>>, given' \in [Keys -> SUBSET Ids],
         tainted' \in SUBSET Titles, tainted \subseteq tainted',
         SlotInv(z, events, rows'),
         req[r].title \in tainted' \/ (Storing(z) /\ z.title = req[r].title)
  PROVE  Inv'
  <1> DEFINE q == req[r]
  <1>1. /\ q.user \in Users /\ q.name \in Names /\ Denotes[q.name] \in events
        /\ q.title \in Titles /\ q.title = TitleOf[Denotes[q.name]]
    BY SlotTyped DEF SlotInv, SlotOK
  <1>2. rows' = Stored(rows, q.name, q.user, row)
    BY DEF StoreRow, Stored, Key
  <1>3. rows \in Table /\ events \in SUBSET Events /\ NoOrphans(events, rows)
    BY SlotTyped
  <1>4. /\ rows' \in Table /\ NoOrphans(events, rows')
        /\ SlotsKept(rows, rows', events, q.title) /\ EntriesKept(rows, rows', events, q.title)
    <2> DEFINE tc == rows'
               n == q.name
               u == q.user
    <2>1. /\ tc = Stored(rows, n, u, row) /\ n \in Names /\ Denotes[n] \in events
          /\ u \in Users
      BY <1>1, <1>2
    <2>2. q.title = TitleOf[Denotes[n]]
      BY <1>1
    <2> HIDE DEF tc, n, u, q
    <2>3. tc \in Table /\ NoOrphans(events, tc)
      BY <1>3, <2>1, StoredTable
    <2>4. /\ SlotsKept(rows, tc, events, TitleOf[Denotes[n]])
          /\ EntriesKept(rows, tc, events, TitleOf[Denotes[n]])
      BY <1>3, <2>1, StoreKeeps
    <2> QED BY <2>2, <2>3, <2>4 DEF tc
  <1>5. ASSUME NEW p \in Requests, p # r
        PROVE  /\ req'[p] \in RequestType /\ SlotInv(req'[p], events, rows')
               /\ req'[p].title = req[p].title
               /\ Storing(req[p]) => Storing(req'[p])
    <2>1. req[p] \in RequestType /\ SlotInv(req[p], events, rows)
      BY SlotTyped
    <2>2. CASE Counting(req[p]) /\ req[p].title = q.title
      <3> DEFINE y == Late(req[p])
      <3>1. req'[p] = y
        BY <1>5, <2>2 DEF MarkLate, Listed, Counting, Late
      <3>2. SlotInv(y, events, rows')
        BY <1>4, <2>1, <2>2 DEF SlotsKept
      <3>3. /\ y \in RequestType /\ y.pc = req[p].pc /\ y.op = req[p].op
            /\ y.title = req[p].title
        BY <2>1, LateTyped
      <3> HIDE DEF y
      <3> QED BY <3>1, <3>2, <3>3 DEF Storing
    <2>3. CASE ~(Counting(req[p]) /\ req[p].title = q.title)
      <3>1. req'[p] = req[p]
        BY <1>5, <2>3 DEF MarkLate, Listed, Counting
      <3>2. SlotInv(req[p], events, rows')
        BY <1>4, <2>1, <2>3 DEF SlotsKept
      <3> QED BY <2>1, <3>1, <3>2
    <2> QED BY <2>2, <2>3
  <1>6. req'[r] = z
    BY DEF MarkLate
  <1>7. req' \in [Requests -> RequestType] /\ \A p \in Requests : SlotInv(req'[p], events, rows')
    BY <1>5, <1>6 DEF MarkLate
  <1>8. TypeOK'
    <2>1. \A p \in Requests : \A e \in req'[p].todo : e \in events /\ TitleOf[e] = req'[p].title
      BY <1>7 DEF SlotInv, SlotOK, Of
    <2> QED BY <1>4, <1>7, <2>1 DEF Inv, TypeOK, Table
  <1>9. ASSUME NEW t \in Titles, t # q.title, Caused(t) PROVE Caused(t)'
    BY <1>5, <1>9 DEF Caused
  <1>10. ASSUME NEW t \in Titles, t = q.title PROVE Caused(t)'
    BY <1>6, <1>10 DEF Caused
  <1>11. \A t \in Titles : /\ Plausible(cache[t], t, events, rows')
                           /\ TrueEntry(cache[t], t, events, rows') \/ Caused(t)'
    <2> TAKE t \in Titles
    <2>1. /\ cache[t] \in Summary \cup {None} /\ Plausible(cache[t], t, events, rows)
          /\ TrueEntry(cache[t], t, events, rows) \/ Caused(t)
      BY DEF Inv, TypeOK
    <2>2. t # q.title /\ Caused(t) => Caused(t)'
      BY <1>9
    <2>3. t = q.title => Caused(t)'
      BY <1>10
    <2> QED BY <2>1, <2>2, <2>3, <1>4 DEF EntriesKept
  <1> QED BY <1>4, <1>7, <1>8, <1>11 DEF Inv

(* Storing a row leads a request on to the refresh of the cache, or ends   *)
(* it.                                                                     *)
LEMMA StoreInv ==
  ASSUME Inv, NEW r \in Requests, req[r].pc \in {"insert", "write"}, NEW row \in Review,
         Store(r, row), UNCHANGED <<events, cache>>, given' \in [Keys -> SUBSET Ids]
  PROVE  Inv'
  <1> DEFINE q == req[r]
  <1>1. /\ q \in RequestType /\ SlotInv(q, events, rows) /\ ~Storing(q)
        /\ q.user \in Users /\ q.op \in Writes /\ q.title \in Titles
    BY SlotTyped DEF SlotInv, SlotOK, Storing
  <1>2. CASE StoreRow(r, row) /\ MarkLate(r, Refresh(r)) /\ UNCHANGED tainted
    <2> DEFINE z == Refresh(r)
    <2>1. z \in RequestType
      <3>1. ASSUME NEW op \in Writes, NEW u \in Users, NEW t \in Titles
            PROVE  [Idle EXCEPT !.pc = "list", !.op = op, !.user = u, !.title = t] \in RequestType
        BY IdleSlot DEF RequestType, Writes
      <3> QED BY <1>1, <3>1, Zenon DEF Refresh
    <2>2. /\ z.pc = "list" /\ z.op = q.op /\ z.user = q.user /\ z.title = q.title
          /\ z.todo = {} /\ z.sum = Zero /\ ~z.late
      BY DEF Idle, Zero, Refresh
    <2> HIDE DEF z
    <2>5. SlotInv(z, events, rows') /\ Storing(z)
      BY <1>1, <2>2
      DEF SlotInv, SlotOK, CountBound, StatsExact, Counting, Storing, Writes
    <2> QED BY <1>1, <1>2, <2>1, <2>2, <2>5, StoreStep, SlotTyped DEF z
  <1>3. CASE StoreRow(r, row) /\ MarkLate(r, Idle) /\ tainted' = tainted \cup {q.title}
    BY <1>1, <1>3, IdleSlot, StoreStep, SlotTyped
  <1>4. CASE Done(r) /\ UNCHANGED <<rows, tainted>>
    BY <1>1, <1>4, EndInv, SlotTyped
  <1> QED BY <1>2, <1>3, <1>4 DEF Store

LEMMA InsertInv == ASSUME Inv, NEW r \in Requests, Insert(r) PROVE Inv'
  <1>1. PICK id \in FreshIds :
          /\ Store(r, [id |-> id, rating |-> req[r].rating, comment |-> req[r].comment])
          /\ given' = [given EXCEPT ![Key(r)] = @ \cup {id}]
    BY DEF Insert
  <1>2. /\ req[r] \in RequestType /\ SlotInv(req[r], events, rows) /\ req[r].pc = "insert"
        /\ id \in Ids
    BY SlotTyped DEF Insert, FreshIds
  <1>3. [id |-> id, rating |-> req[r].rating, comment |-> req[r].comment] \in Review
    BY <1>2 DEF Review, RequestType, SlotInv, SlotOK
  <1>4. given' \in [Keys -> SUBSET Ids]
    BY <1>1, <1>2, SlotTyped
  <1> QED BY <1>1, <1>2, <1>3, <1>4, StoreInv DEF Insert

LEMMA MergedTyped ==
  ASSUME NEW q \in RequestType, q.seen # None
  PROVE  Merged(q) \in Review
  BY DEF RequestType, Review, Merged

LEMMA WriteRowInv == ASSUME Inv, NEW r \in Requests, WriteRow(r) PROVE Inv'
  <1>1. /\ req[r] \in RequestType /\ SlotInv(req[r], events, rows) /\ req[r].pc = "write"
        /\ given \in [Keys -> SUBSET Ids]
    BY SlotTyped DEF WriteRow
  <1>2. Merged(req[r]) \in Review
    BY <1>1, MergedTyped DEF SlotInv, SlotOK
  <1> QED BY <1>1, <1>2, StoreInv DEF WriteRow

(* The cache of the title of a request is replaced, or not at all.         *)
LEMMA SetInv == ASSUME Inv, NEW r \in Requests, Set(r) PROVE Inv'
  <1> DEFINE q == req[r]
             c == Entry(r)
  <1>1. /\ q \in RequestType /\ q.pc = "set" /\ q.todo = {} /\ q.title \in Titles
        /\ SlotInv(q, events, rows) /\ q.sum \in Stats
    BY SlotTyped DEF Set, SlotInv, SlotOK, RequestType
  <1>2. /\ req' \in [Requests -> RequestType] /\ req'[r] = Idle
        /\ \A p \in Requests : p # r => req'[p] = req[p]
    BY IdleSlot, SlotTyped DEF Set, Done
  <1>3. c \in Summary /\ c = Summarise(q.sum) /\ c.count = q.sum.count
    BY <1>1, Averages DEF Entry, Summarise
  <1> HIDE DEF c
  <1>4. cache' \in [Titles -> Summary \cup {None}] /\ tainted' \in SUBSET Titles
    BY <1>1, <1>3, SlotTyped DEF Set, c
  <1>5. TypeOK' /\ \A p \in Requests : SlotInv(req'[p], events', rows')
    <2>1. Idle.todo = {} /\ SlotInv(Idle, events, rows)
      BY IdleSlot DEF Idle
    <2>2. \A p \in Requests : \A e \in req'[p].todo : e \in events' /\ TitleOf[e] = req'[p].title
      BY <1>2, <2>1 DEF Set, Inv, TypeOK
    <2>3. TypeOK'
      BY <1>2, <1>4, <2>2 DEF Set, Inv, TypeOK
    <2> QED BY <1>2, <2>1, <2>3 DEF Set, Inv
  <1>6. ASSUME NEW t \in Titles, t # q.title
        PROVE  cache'[t] = cache[t] /\ (Caused(t) => Caused(t)')
    <2>1. cache'[t] = cache[t]
      BY <1>6, SlotTyped DEF Set
    <2>2. t \in tainted => t \in tainted'
      BY <1>6 DEF Set
    <2>3. ASSUME NEW p \in Requests, Storing(req[p]), req[p].title = t
          PROVE  Storing(req'[p]) /\ req'[p].title = t
      BY <1>2, <1>6, <2>3
    <2> QED BY <2>1, <2>2, <2>3 DEF Caused
  <1>7. /\ Plausible(c, q.title, events, rows)
        /\ ~q.late => TrueEntry(c, q.title, events, rows)
    <2>1. Counted(q, events) = Of(events, q.title)
      BY <1>1 DEF Counted
    <2>2. Plausible(c, q.title, events, rows)
      BY <1>1, <1>3, <2>1 DEF SlotInv, CountBound, Counting, Plausible
    <2>3. ~q.late => q.sum = StatsIn(rows, Of(events, q.title))
      BY <1>1, <2>1 DEF SlotInv, StatsExact, Counting
    <2> QED BY <1>3, <2>2, <2>3, Zenon DEF TrueEntry
  <1>8. /\ cache'[q.title] = cache[q.title] \/ cache'[q.title] = c
        /\ q.title \in tainted' \/ (cache'[q.title] = c /\ ~q.late)
    BY <1>1, SlotTyped DEF Set, c
  <1>9. \A t \in Titles : /\ Plausible(cache'[t], t, events, rows)
                          /\ TrueEntry(cache'[t], t, events, rows) \/ Caused(t)'
    <2> TAKE t \in Titles
    <2>1. /\ Plausible(cache[t], t, events, rows)
          /\ TrueEntry(cache[t], t, events, rows) \/ Caused(t)
      BY DEF Inv
    <2>2. CASE t # q.title
      BY <2>1, <2>2, <1>6
    <2>3. CASE t = q.title
      BY <2>1, <2>3, <1>7, <1>8 DEF Caused
    <2> QED BY <2>2, <2>3
  <1> QED BY <1>5, <1>9, SlotTyped DEF Inv, Set

(* An expired entry has nothing left to be wrong about.                    *)
LEMMA ExpireInv == ASSUME Inv, NEW t \in Titles, Expire(t) PROVE Inv'
  <1> USE DEF Expire
  <1>1. /\ cache'[t] = None
        /\ \A s \in Titles : s # t => cache'[s] = cache[s] /\ (Caused(s) => Caused(s)')
    BY DEF Inv, TypeOK, Caused
  <1>2. TypeOK' /\ NoOrphans(events', rows')
    BY DEF Inv, TypeOK
  <1>3. \A s \in Titles : /\ Plausible(cache'[s], s, events', rows')
                          /\ TrueEntry(cache'[s], s, events', rows') \/ Caused(s)'
    BY <1>1 DEF Inv, Plausible, TrueEntry
  <1> QED BY <1>2, <1>3 DEF Inv

(* Nothing happens.                                                        *)
LEMMA StutterInv == ASSUME Inv, UNCHANGED vars PROVE Inv'
  BY DEF Inv, TypeOK, Caused, vars

LEMMA NextInv == Inv /\ [Next]_vars => Inv'
  <1> SUFFICES ASSUME Inv, [Next]_vars PROVE Inv'
    OBVIOUS
  <1>1. ASSUME NEW r \in Requests, Step(r) PROVE Inv'
    BY <1>1, LookInv, InsertInv, FindInv, ReadRowInv, WriteRowInv, GetCachedInv, ListEventsInv,
       CountEventInv, CountEndsInv, SetInv
    DEF Step
  <1>2. ASSUME NEW r \in Requests, NEW u \in Users, NEW n \in Names,
               Create(r, u, n) \/ Update(r, u, n)
        PROVE  Inv'
    BY <1>2, CreateInv, UpdateInv
  <1>3. ASSUME NEW r \in Requests, NEW e \in Events, Read(r, e) PROVE Inv'
    BY <1>3, ReadInv
  <1>4. ASSUME NEW e \in Events, CreateEvent(e) PROVE Inv'
    BY <1>4, CreateEventInv
  <1>5. ASSUME NEW t \in Titles, Expire(t) PROVE Inv'
    BY <1>5, ExpireInv
  <1>6. CASE UNCHANGED vars
    BY <1>6, StutterInv
  <1> QED BY <1>1, <1>2, <1>3, <1>4, <1>5, <1>6 DEF Next

-----------------------------------------------------------------------------
(* The invariant holds of every state the program reaches, whatever the    *)
(* number of events, users and requests, and whichever calls fail.         *)
THEOREM InvInvariant == Spec => []Inv
  BY InitInv, NextInv, PTL DEF Spec

(* Type correctness: whatever ratings the clients send, what is stored     *)
(* fits its column; a count visits events of its own title only.           *)
THEOREM TypeCorrect == Spec => []TypeOK
  BY InvInvariant, InvImplies, PTL

(* However the counts and the writers of a title overlap and fail, its     *)
(* cache shows no more reviews than there are.                             *)
THEOREM CacheNeverOvercounts == Spec => []NeverOvercounts
  BY InvInvariant, InvImplies, PTL

(* A cached count or average that is not that of all reviews of the title  *)
(* leaves out exactly those that were stored under another spelling of an  *)
(* event's id, or it is on its way to be corrected, or was left by a late  *)
(* count or a failed request.                                              *)
THEOREM StalenessHasCause == Spec => []StaleHasCause
  BY InvInvariant, InvImplies, PTL

-----------------------------------------------------------------------------
(* The refinement: the stored rows per title and the shown totals, as      *)
(* functions of the state, step as TitleTotals says.                       *)
CountsOf(tb, ev) == [t \in Titles |-> Cardinality(RowsIn(tb, Of(ev, t)))]
ShownOf(c) == [t \in Titles |-> IF c[t] = None THEN None ELSE c[t].count]

LEMMA Mapped ==
  /\ [t \in Titles |-> Cardinality(Rows(EventsOf(t)))] = CountsOf(rows, events)
  /\ [t \in Titles |-> Cardinality(Rows(EventsOf(t)))]' = CountsOf(rows', events')
  BY DEF CountsOf, Rows, RowsIn, EventsOf, Of

(* A row stored is one more or replaces one.                               *)
LEMMA StoreGrows ==
  ASSUME NEW tb \in Table, NEW ev \in SUBSET Events, NEW n \in Names,
         Denotes[n] \in ev, NEW u \in Users, NEW row \in Review, NEW tc, tc = Stored(tb, n, u, row)
  PROVE  \/ CountsOf(tc, ev) = CountsOf(tb, ev)
         \/ CountsOf(tc, ev) = [CountsOf(tb, ev) EXCEPT ![TitleOf[Denotes[n]]] = @ + 1]
  <1> DEFINE p == <<n, u>>
  <1>1. /\ tc[p] # None /\ p \in Keys
        /\ \A k \in Keys : k # p => tc[k] = tb[k]
    BY NoneAssumption DEF Stored, Table, Keys
  <1>2. TitleOf[Denotes[n]] \in Titles
    BY ReviewsAssumption
  <1>3. ASSUME NEW t \in Titles, t # TitleOf[Denotes[n]]
        PROVE  RowsIn(tc, Of(ev, t)) = RowsIn(tb, Of(ev, t))
    BY <1>1, <1>3, ReviewsAssumption DEF RowsIn, Of, Keys
  <1>4. CASE tb[p] # None \/ n \notin Events
    <2>1. \A t \in Titles : RowsIn(tc, Of(ev, t)) = RowsIn(tb, Of(ev, t))
      BY <1>1, <1>4, ReviewsAssumption DEF RowsIn, Of, Keys
    <2> QED BY <2>1, Zenon DEF CountsOf
  <1>5. CASE tb[p] = None /\ n \in Events
    <2> DEFINE E == Of(ev, TitleOf[Denotes[n]])
               K == RowsIn(tb, E)
    <2>1. RowsIn(tc, E) = K \cup {p} /\ p \notin K
      BY <1>1, <1>5, ReviewsAssumption DEF RowsIn, Of, Keys
    <2>2. IsFiniteSet(K) /\ Cardinality(K) \in Nat
      BY FiniteRows DEF Of
    <2>3. Cardinality(K \cup {p}) = Cardinality(K) + 1
      <3> HIDE DEF K
      <3> QED BY <2>1, <2>2, FS_AddElement
    <2>4. Cardinality(RowsIn(tc, E)) = Cardinality(K) + 1
      BY <2>1, <2>3, Zenon
    <2>5. CountsOf(tb, ev)[TitleOf[Denotes[n]]] = Cardinality(K)
      BY <1>2 DEF CountsOf
    <2>6. \A t \in Titles : t # TitleOf[Denotes[n]] =>
            Cardinality(RowsIn(tc, Of(ev, t))) = Cardinality(RowsIn(tb, Of(ev, t)))
      BY <1>3, Zenon
    <2> HIDE DEF K
    <2>7. \A t \in Titles : Cardinality(RowsIn(tc, Of(ev, t))) =
            IF t = TitleOf[Denotes[n]] THEN CountsOf(tb, ev)[t] + 1 ELSE CountsOf(tb, ev)[t]
      BY <2>4, <2>5, <2>6 DEF CountsOf
    <2> QED BY <1>2, <2>7 DEF CountsOf
  <1> QED BY <1>4, <1>5

(* A row is stored for an event that exists.                               *)
StoresARow ==
  \E n \in Names, u \in Users, row \in Review :
    Denotes[n] \in events /\ rows' = Stored(rows, n, u, row)

(* What a step does to the table, the events and the cache.                *)
LEMMA WhatChanges ==
  ASSUME Inv, Inv', [Next]_vars
  PROVE  \/ UNCHANGED <<events, rows, cache>>
         \/ events \subseteq events' /\ UNCHANGED <<rows, cache>>
         \/ /\ StoresARow
            /\ UNCHANGED <<events, cache>>
         \/ /\ \E t \in Titles, c \in Summary \cup {None} : cache' = [cache EXCEPT ![t] = c]
            /\ UNCHANGED <<events, rows>>
  <1>1. ASSUME NEW r \in Requests, Insert(r) \/ WriteRow(r)
        PROVE  \/ UNCHANGED <<events, rows, cache>>
               \/ /\ StoresARow
                  /\ UNCHANGED <<events, cache>>
    <2>1. /\ req[r].name \in Names /\ Denotes[req[r].name] \in events
          /\ req[r].user \in Users /\ req[r] \in RequestType
      BY <1>1, SlotTyped DEF Insert, WriteRow, SlotInv, SlotOK
    <2>2. \A row \in Review : StoreRow(r, row) => StoresARow
      BY <2>1 DEF StoreRow, Stored, Key, StoresARow
    <2>3. CASE Insert(r)
      <3>1. PICK id \in FreshIds :
              Store(r, [id |-> id, rating |-> req[r].rating, comment |-> req[r].comment])
        BY <2>3 DEF Insert
      <3>2. [id |-> id, rating |-> req[r].rating, comment |-> req[r].comment] \in Review
        BY <2>1, <2>3, SlotTyped DEF Insert, FreshIds, Review, RequestType, SlotInv, SlotOK
      <3> QED BY <2>1, <2>2, <2>3, <3>1, <3>2 DEF Insert, Store
    <2>4. CASE WriteRow(r)
      <3>1. Merged(req[r]) \in Review
        BY <2>1, <2>4, MergedTyped, SlotTyped DEF WriteRow, SlotInv, SlotOK
      <3> QED BY <2>1, <2>2, <2>4, <3>1 DEF WriteRow, Store
    <2> QED BY <1>1, <2>3, <2>4
  <1>2. ASSUME NEW r \in Requests, Set(r)
        PROVE  /\ \/ UNCHANGED cache
                  \/ \E t \in Titles, c \in Summary \cup {None} : cache' = [cache EXCEPT ![t] = c]
               /\ UNCHANGED <<events, rows>>
    <2>1. req[r].title \in Titles /\ req[r].sum \in Stats
      BY <1>2, SlotTyped DEF Set, SlotInv, SlotOK, RequestType
    <2>2. Entry(r) \in Summary
      BY <2>1, Averages DEF Entry
    <2> QED BY <1>2, <2>1, <2>2 DEF Set
  <1>3. ASSUME NEW r \in Requests, Step(r), ~(Insert(r) \/ WriteRow(r)), ~Set(r)
        PROVE  UNCHANGED <<events, rows, cache>>
    BY <1>3 DEF Step, Look, Find, ReadRow, GetCached, ListEvents, CountEvent, CountEnds
  <1>4. ASSUME NEW r \in Requests, NEW u \in Users, NEW n \in Names, Create(r, u, n) \/ Update(r, u, n)
        PROVE  UNCHANGED <<events, rows, cache>>
    BY <1>4 DEF Create, Update, Begin
  <1>5. ASSUME NEW r \in Requests, NEW e \in Events, Read(r, e)
        PROVE  UNCHANGED <<events, rows, cache>>
    BY <1>5 DEF Read
  <1>6. ASSUME NEW e \in Events, CreateEvent(e)
        PROVE  events \subseteq events' /\ UNCHANGED <<rows, cache>>
    BY <1>6 DEF CreateEvent
  <1>7. ASSUME NEW t \in Titles, Expire(t)
        PROVE  cache' = [cache EXCEPT ![t] = None] /\ UNCHANGED <<events, rows>>
    BY <1>7 DEF Expire
  <1>8. CASE UNCHANGED vars
    BY <1>8 DEF vars
  <1>9. CASE \E r \in Requests : Step(r)
    BY <1>1, <1>2, <1>3, <1>9
  <1> QED BY <1>4, <1>5, <1>6, <1>7, <1>8, <1>9 DEF Next

LEMMA StepRefines == ASSUME Inv, Inv', [Next]_vars PROVE [Totals!Next]_Totals!vars
  <1>1. /\ rows \in Table /\ events \in SUBSET Events /\ NoOrphans(events, rows)
        /\ cache \in [Titles -> Summary \cup {None}]
    BY DEF Inv, TypeOK, Table
  <1>2. CASE UNCHANGED <<events, rows, cache>>
    BY <1>2, Mapped DEF Totals!vars
  <1>3. CASE events \subseteq events' /\ UNCHANGED <<rows, cache>>
    <2>1. \A t \in Titles : RowsIn(rows', Of(events', t)) = RowsIn(rows, Of(events, t))
      <3>1. events' \in SUBSET Events
        BY DEF Inv, TypeOK
      <3> QED BY <1>1, <1>3, <3>1, ReviewsAssumption DEF RowsIn, Of, NoOrphans, Keys
    <2>2. CountsOf(rows', events') = CountsOf(rows, events)
      BY <2>1, Zenon DEF CountsOf
    <2> QED BY <1>3, <2>2, Mapped DEF Totals!vars
  <1>4. CASE /\ StoresARow
             /\ UNCHANGED <<events, cache>>
    <2>1. PICK n \in Names, u \in Users, row \in Review :
                 Denotes[n] \in events /\ rows' = Stored(rows, n, u, row)
      BY <1>4 DEF StoresARow
    <2>2. \/ CountsOf(rows', events) = CountsOf(rows, events)
          \/ CountsOf(rows', events) = [CountsOf(rows, events) EXCEPT ![TitleOf[Denotes[n]]] = @ + 1]
      <3> DEFINE tc == rows'
      <3>1. tc = Stored(rows, n, u, row)
        BY <2>1
      <3> HIDE DEF tc
      <3>2. \/ CountsOf(tc, events) = CountsOf(rows, events)
            \/ CountsOf(tc, events) = [CountsOf(rows, events) EXCEPT ![TitleOf[Denotes[n]]] = @ + 1]
        BY <1>1, <2>1, <3>1, StoreGrows
      <3> QED BY <3>2 DEF tc
    <2>3. TitleOf[Denotes[n]] \in Titles
      BY <1>1, ReviewsAssumption
    <2>4. CASE CountsOf(rows', events) = CountsOf(rows, events)
      BY <1>4, <2>4, Mapped DEF Totals!vars
    <2>5. CASE CountsOf(rows', events) = [CountsOf(rows, events) EXCEPT ![TitleOf[Denotes[n]]] = @ + 1]
      <3>1. Totals!Grow(TitleOf[Denotes[n]])
        BY <1>4, <2>5, Mapped DEF Totals!Grow
      <3> QED BY <2>3, <3>1 DEF Totals!Next
    <2> QED BY <2>2, <2>4, <2>5
  <1>5. CASE /\ \E t \in Titles, c \in Summary \cup {None} : cache' = [cache EXCEPT ![t] = c]
             /\ UNCHANGED <<events, rows>>
    <2>1. PICK t \in Titles, c \in Summary \cup {None} : cache' = [cache EXCEPT ![t] = c]
      BY <1>5
    <2>2. /\ cache'[t] = c /\ Plausible(c, t, events, rows)
          /\ ShownOf(cache') = [ShownOf(cache) EXCEPT ![t] = IF c = None THEN None ELSE c.count]
      BY <1>1, <1>5, <2>1 DEF Inv, ShownOf
    <2>3. CASE c = None
      <3>1. Totals!Drop(t)
        BY <1>5, <2>2, <2>3, Mapped DEF Totals!Drop, ShownOf
      <3> QED BY <3>1 DEF Totals!Next
    <2>4. CASE c # None
      <3>1. c.count \in 0 .. CountsOf(rows, events)[t]
        <4>1. c.count \in Nat
          BY <2>4 DEF Summary
        <4>2. CountsOf(rows, events)[t] = Cardinality(RowsIn(rows, Of(events, t)))
          BY DEF CountsOf
        <4>3. Cardinality(RowsIn(rows, Of(events, t))) \in Nat
          BY <1>1, FiniteRows DEF Of
        <4> QED BY <2>2, <2>4, <4>1, <4>2, <4>3 DEF Plausible
      <3>2. ShownOf(cache') = [ShownOf(cache) EXCEPT ![t] = c.count]
        BY <2>2, <2>4
      <3>3. Totals!Fill(t)
        BY <1>5, <3>1, <3>2, Mapped DEF Totals!Fill, ShownOf
      <3> QED BY <3>3 DEF Totals!Next
    <2> QED BY <2>3, <2>4
  <1> QED BY <1>2, <1>3, <1>4, <1>5, WhatChanges

LEMMA InitRefines == Init => Totals!Init
  <1> SUFFICES ASSUME Init PROVE Totals!Init
    OBVIOUS
  <1>1. \A t : RowsIn(rows, Of(events, t)) = {}
    BY DEF Init, RowsIn, Of
  <1>2. \A t \in Titles : Cardinality(RowsIn(rows, Of(events, t))) = 0
    BY <1>1, FS_EmptySet, Zenon
  <1> QED BY <1>2, Mapped DEF Init, Totals!Init, CountsOf

(* The cache implements TitleTotals: what it shows of a title was, when it *)
(* was filled, no more than the number of its reviews under the events'    *)
(* ids, which never decreases: updates, concurrent creations and other     *)
(* spellings included.                                                     *)
THEOREM CacheRefinesTotals == Spec => ImplementsTotals
  <1>1. Inv /\ Inv' /\ [Next]_vars => [Totals!Next]_Totals!vars
    BY StepRefines
  <1> QED BY <1>1, InitRefines, InvInvariant, PTL DEF Spec, ImplementsTotals, Totals!Spec

-----------------------------------------------------------------------------
(* From here on users wait for an answer before they send again: ~Pipelined *)
(* is the hypothesis of each theorem.                                      *)

(* What a request knows of its row holds until it stores: an update has    *)
(* the row it found, a creation, if no call failed, still has none.        *)
Fresh(q, tb) ==
  LET row == tb[<<q.name, q.user>>] IN
  /\ q.pc = "read" => row # None /\ row.id = q.review
  /\ q.pc = "write" => row # None /\ row = q.seen /\ row.id = q.review
  /\ q.pc = "insert" /\ ~Faults => row = None

(* Requests in flight have users of their own.                             *)
OneAtATime ==
  \A p, q \in Requests : req[p].user = req[q].user /\ req[p].user # None => p = q

SeqInv ==
  /\ OneAtATime
  /\ \A r \in Requests : Fresh(req[r], rows)
  /\ ~Faults => OneReviewPerUser

(* Slots that hold nothing of a row.                                       *)
Blank(q) == q.pc \notin {"insert", "read", "write"}

(* What a step of request r does: to the other slots, at most mark a count *)
(* late; to the table, at most store a row under the key of r; and only to *)
(* look, find and read does r learn something of its row.                  *)
LEMMA OthersWait ==
  ASSUME Inv, NEW r \in Requests, Step(r), NEW p \in Requests, p # r
  PROVE  \/ req'[p] = req[p]
         \/ Blank(req[p]) /\ Blank(req'[p]) /\ req'[p].user = req[p].user
  <1>1. req \in [Requests -> RequestType] /\ req[p] \in RequestType
    BY SlotTyped
  <1>2. \A z : req' = [req EXCEPT ![r] = z] => req'[p] = req[p]
    BY <1>1
  <1>3. \A z : MarkLate(r, z) =>
          \/ req'[p] = req[p]
          \/ Listed(p) /\ req'[p] = Late(req[p])
    BY DEF MarkLate, Late
  <1>4. Listed(p) /\ req'[p] = Late(req[p]) =>
          Blank(req[p]) /\ Blank(req'[p]) /\ req'[p].user = req[p].user
    BY <1>1 DEF Listed, Late, RequestType, Blank
  <1>5. Done(r) \/ (\E label : Goto(r, label)) => req'[p] = req[p]
    BY <1>1 DEF Done, Goto
  <1>6. ASSUME NEW row, Store(r, row)
        PROVE  \/ req'[p] = req[p]
               \/ Listed(p) /\ req'[p] = Late(req[p])
    BY <1>3, <1>5, <1>6 DEF Store
  <1>7. CASE Insert(r) \/ WriteRow(r)
    BY <1>4, <1>6, <1>7 DEF Insert, WriteRow
  <1>8. CASE \/ Look(r) \/ Find(r) \/ ReadRow(r) \/ GetCached(r) \/ ListEvents(r) \/ CountEnds(r)
             \/ Set(r) \/ \E e \in Events : CountEvent(r, e)
    BY <1>1, <1>5, <1>8
    DEF Look, Find, ReadRow, GetCached, ListEvents, CountEvent, CountEnds, Set, Fail
  <1> QED BY <1>7, <1>8 DEF Step

LEMMA RowsMove ==
  ASSUME Inv, NEW r \in Requests, Step(r)
  PROVE  \/ UNCHANGED <<rows, given>>
         \/ Insert(r)
         \/ /\ req[r].pc = "write" /\ StoreRow(r, Merged(req[r])) /\ UNCHANGED given
  BY DEF Step, Look, WriteRow, Store, Find, ReadRow, GetCached, ListEvents, CountEvent, CountEnds, Set

SameRequest(q, z) == z.name = q.name /\ z.user = q.user /\ z.review = q.review

Learns(r, q, z) ==
  /\ SameRequest(q, z)
  /\ \/ z.pc = "insert" /\ (Faults \/ rows[Key(r)] = None)
     \/ z.pc = "read" /\ OwnReview(r)
     \/ z.pc = "write" /\ q.pc = "read" /\ z.seen = rows[Key(r)] /\ rows[Key(r)] # None

LEMMA WhatItLearns ==
  ASSUME Inv, NEW r \in Requests, Step(r)
  PROVE  /\ req'[r].user \in {req[r].user, None}
         /\ Blank(req'[r]) \/ (Learns(r, req[r], req'[r]) /\ UNCHANGED rows)
  <1> DEFINE q == req[r]
  <1>1. req \in [Requests -> RequestType] /\ q \in RequestType
    BY SlotTyped
  <1>2. Idle.user = None /\ Blank(Idle)
    BY DEF Idle, Blank
  <1>3. ASSUME Done(r) PROVE req'[r].user \in {q.user, None} /\ Blank(req'[r])
    BY <1>1, <1>2, <1>3 DEF Done
  <1>4. ASSUME NEW label \in {"list", "set"}, Goto(r, label)
        PROVE  req'[r].user = q.user /\ Blank(req'[r])
    <2>1. PICK z \in RequestType : req' = [req EXCEPT ![r] = z] /\ MovedTo(q, z, label)
      BY <1>4, Moved
    <2> QED BY <1>1, <2>1 DEF MovedTo, Blank
  <1>5. ASSUME NEW label \in {"insert", "read"}, Goto(r, label)
        PROVE  SameRequest(q, req'[r]) /\ req'[r].pc = label
    <2>1. PICK z \in RequestType : req' = [req EXCEPT ![r] = z] /\ MovedTo(q, z, label)
      BY <1>5, Moved
    <2> QED BY <1>1, <2>1 DEF MovedTo, SameRequest
  <1>6. CASE Look(r)
    BY <1>3, <1>5, <1>6 DEF Look, Exists, Learns, SameRequest
  <1>7. CASE Find(r)
    BY <1>3, <1>5, <1>7 DEF Find, Fail, Learns, SameRequest
  <1>8. CASE ReadRow(r)
    <2>1. CASE Done(r)
      BY <1>3, <2>1
    <2>2. CASE /\ rows[Key(r)] # None
               /\ req' = [req EXCEPT ![r].pc = "write", ![r].seen = rows[Key(r)]]
      <3>1. PICK row \in Review : row = rows[Key(r)]
        BY <1>8, <2>2, SlotTyped DEF ReadRow, SlotInv, SlotOK, Key, Keys, Table
      <3> DEFINE z == WriteSlot(q, row)
      <3>2. z.pc = "write" /\ z.seen = row /\ SameRequest(q, z)
        BY <1>1, WriteSlotTyped DEF SameRequest
      <3>3. req'[r] = z
        BY <1>1, <2>2, <3>1 DEF WriteSlot
      <3> HIDE DEF z
      <3> QED BY <1>8, <2>2, <3>1, <3>2, <3>3 DEF ReadRow, Learns, SameRequest
    <2> QED BY <1>8, <2>1, <2>2 DEF ReadRow, Fail
  <1>9. ASSUME NEW row, Store(r, row) PROVE req'[r].user \in {q.user, None} /\ Blank(req'[r])
    <2>1. Refresh(r).user = q.user /\ Blank(Refresh(r))
      BY DEF Refresh, Idle, Blank
    <2>2. \A z : MarkLate(r, z) => req'[r] = z
      BY DEF MarkLate
    <2> QED BY <1>2, <1>3, <1>9, <2>1, <2>2 DEF Store
  <1>10. CASE Insert(r) \/ WriteRow(r)
    BY <1>9, <1>10 DEF Insert, WriteRow
  <1>11. CASE GetCached(r) \/ CountEnds(r) \/ Set(r)
    BY <1>3, <1>4, <1>11 DEF GetCached, CountEnds, Set, Fail
  <1>12. CASE ListEvents(r)
    BY <1>1, <1>3, <1>12 DEF ListEvents, Fail, RequestType, Blank
  <1>13. ASSUME NEW e \in Events, CountEvent(r, e)
         PROVE  req'[r].user \in {q.user, None} /\ Blank(req'[r])
    <2>1. CASE Done(r)
      BY <1>3, <2>1
    <2>2. CASE req' = [req EXCEPT ![r].todo = @ \ {e}, ![r].sum = Plus(@, StatsOf({e}))]
      <3>1. PICK todo \in SUBSET Events : todo = q.todo \ {e}
        BY <1>1 DEF RequestType
      <3>2. PICK sum \in Stats : sum = Plus(q.sum, StatsOf({e}))
        BY <1>1, ModelWords, StatsTyped, PlusTyped, SlotTyped DEF RequestType
      <3>3. req'[r].user = q.user /\ req'[r].pc = q.pc
        <4> DEFINE z == CountSlot(q, todo, sum)
        <4>1. req'[r] = z
          BY <1>1, <2>2, <3>1, <3>2 DEF CountSlot
        <4> HIDE DEF z
        <4>2. z.user = q.user /\ z.pc = q.pc
          BY <1>1, CountSlotTyped DEF z
        <4> QED BY <4>1, <4>2
      <3> QED BY <1>13, <3>3 DEF CountEvent, Blank
    <2> QED BY <1>13, <2>1, <2>2 DEF CountEvent, Fail
  <1> QED BY <1>6, <1>7, <1>8, <1>10, <1>11, <1>12, <1>13 DEF Step

(* The invariant of sequential users survives a step of request r.         *)
LEMMA StepSeq ==
  ASSUME Inv, Inv', SeqInv, NEW r \in Requests, Step(r)
  PROVE  SeqInv'
  <1> DEFINE q == req[r]
  <1>1. /\ req'[r].user \in {q.user, None}
        /\ Blank(req'[r]) \/ (Learns(r, q, req'[r]) /\ UNCHANGED rows)
    BY WhatItLearns
  <1>2. ASSUME NEW p \in Requests, p # r
        PROVE  /\ req'[p].user = req[p].user
               /\ req'[p] = req[p] \/ Blank(req'[p])
    BY <1>2, OthersWait
  <1>3. OneAtATime'
    BY <1>1, <1>2 DEF SeqInv, OneAtATime
  <1>4. ASSUME NEW p \in Requests, p # r, ~Blank(req[p]), q.pc \in {"insert", "write"}
        PROVE  Key(p) # Key(r)
    <2>1. req[p].user \in Users /\ q.user \in Users
      BY <1>4, SlotTyped DEF SlotInv, SlotOK, Blank
    <2> QED BY <1>4, <2>1, ReviewsAssumption DEF SeqInv, OneAtATime, Key
  <1>5. \/ UNCHANGED <<rows, given>>
        \/ Insert(r)
        \/ q.pc = "write" /\ StoreRow(r, Merged(q)) /\ UNCHANGED given
    BY RowsMove
  <1>6. \/ UNCHANGED rows
        \/ q.pc \in {"insert", "write"} /\ \E row : StoreRow(r, row)
    BY <1>5 DEF Insert, Store
  <1>7. ASSUME NEW p \in Requests, p # r, ~Blank(req[p]) PROVE rows'[Key(p)] = rows[Key(p)]
    <2>1. \A k, row : k # Key(p) => [rows EXCEPT ![k] = row][Key(p)] = rows[Key(p)]
      <3>1. Key(p) \in Keys /\ rows \in Table
        BY <1>7, SlotTyped DEF SlotInv, SlotOK, Blank, Key, Keys
      <3> QED BY <3>1 DEF Table
    <2> QED BY <1>4, <1>6, <1>7, <2>1 DEF StoreRow
  <1>8. ASSUME NEW p \in Requests PROVE Fresh(req[p], rows)'
    <2>1. CASE p # r
      BY <1>2, <1>7, <2>1 DEF SeqInv, Fresh, Blank, Key
    <2>2. CASE p = r
      <3>1. Blank(req'[r]) => Fresh(req'[r], rows')
        BY DEF Blank, Fresh
      <3>2. Learns(r, q, req'[r]) /\ UNCHANGED rows => Fresh(req'[r], rows')
        BY DEF SeqInv, Learns, SameRequest, Fresh, Key, OwnReview
      <3> QED BY <1>1, <2>2, <3>1, <3>2
    <2> QED BY <2>1, <2>2
  <1>9. ASSUME ~Faults PROVE OneReviewPerUser'
    <2>1. OneReviewPerUser
      BY <1>9 DEF SeqInv
    <2>2. /\ rows \in Table /\ given \in [Keys -> SUBSET Ids]
          /\ q.pc \in {"insert", "write"} => Key(r) \in Keys
      BY SlotTyped DEF SlotInv, SlotOK, Key, Keys
    <2>3. CASE UNCHANGED <<rows, given>>
      BY <2>1, <2>3 DEF OneReviewPerUser
    <2>4. CASE Insert(r)
      <3>1. PICK id \in FreshIds :
              /\ Store(r, [id |-> id, rating |-> q.rating, comment |-> q.comment])
              /\ given' = [given EXCEPT ![Key(r)] = @ \cup {id}]
        BY <2>4 DEF Insert
      <3>2. PICK row \in Review : row.id = id /\ rows' = [rows EXCEPT ![Key(r)] = row]
        <4> DEFINE row == [id |-> id, rating |-> q.rating, comment |-> q.comment]
        <4>1. row.id = id /\ rows' = [rows EXCEPT ![Key(r)] = row]
          BY <3>1, <1>9 DEF Store, StoreRow
        <4>2. row \in Review
          <5>1. /\ q \in RequestType /\ SlotInv(q, events, rows) /\ q.pc = "insert" /\ id \in Ids
            BY <2>4, SlotTyped DEF Insert, FreshIds
          <5> QED BY <5>1 DEF Review, RequestType, SlotInv, SlotOK
        <4> QED BY <4>1, <4>2
      <3>3. q.pc = "insert" /\ rows[Key(r)] = None /\ given[Key(r)] = {}
        BY <1>9, <2>1, <2>2, <2>4 DEF Insert, SeqInv, Fresh, Key, OneReviewPerUser
      <3>4. Key(r) \in Keys
        BY <2>2, <3>3
      <3>5. rows'[Key(r)] = row /\ given'[Key(r)] = {id}
        <4>1. rows'[Key(r)] = row
          BY <2>2, <3>2, <3>4 DEF Table
        <4>2. given'[Key(r)] = given[Key(r)] \cup {id}
          BY <2>2, <3>1, <3>4
        <4> QED BY <3>3, <4>1, <4>2
      <3>6. row # None
        BY NoneAssumption
      <3>7. \A p \in Keys : p # Key(r) => rows'[p] = rows[p] /\ given'[p] = given[p]
        BY <2>2, <3>1, <3>2
      <3> QED BY <2>1, <3>2, <3>5, <3>6, <3>7 DEF OneReviewPerUser
    <2>5. CASE q.pc = "write" /\ StoreRow(r, Merged(q)) /\ UNCHANGED given
      <3>1. Key(r) \in Keys /\ rows[Key(r)] # None /\ rows[Key(r)] = q.seen
        BY <2>2, <2>5 DEF SeqInv, Fresh, Key
      <3>2. rows'[Key(r)] = Merged(q) /\ Merged(q).id = rows[Key(r)].id
        <4>1. rows'[Key(r)] = Merged(q)
          BY <2>2, <2>5, <3>1 DEF StoreRow, Table
        <4>2. Merged(q).id = q.seen.id
          BY DEF Merged
        <4> QED BY <3>1, <4>1, <4>2
      <3>3. Merged(q) # None
        BY <3>1, MergedTyped, NoneAssumption, SlotTyped
      <3>4. \A p \in Keys : p # Key(r) => rows'[p] = rows[p]
        BY <2>2, <2>5 DEF StoreRow
      <3> QED BY <2>1, <2>5, <3>1, <3>2, <3>3, <3>4 DEF OneReviewPerUser
    <2> QED BY <1>5, <2>3, <2>4, <2>5
  <1> QED BY <1>3, <1>8, <1>9 DEF SeqInv

(* A request begins: it knows nothing of its row yet, and its user waits   *)
(* for no other.                                                           *)
LEMMA BeginSeq ==
  ASSUME Inv, SeqInv, NEW r \in Requests, NEW z, req' = [req EXCEPT ![r] = z], Blank(z),
         z.user # None => \A p \in Requests : req[p].user # z.user,
         UNCHANGED <<rows, given>>
  PROVE  SeqInv'
  <1>1. /\ req'[r] = z
        /\ \A p \in Requests : p # r => req'[p] = req[p]
    BY SlotTyped
  <1>2. OneAtATime'
    BY <1>1 DEF SeqInv, OneAtATime
  <1>3. \A p \in Requests : Fresh(req[p], rows)'
    BY <1>1 DEF SeqInv, Fresh, Blank
  <1>4. ~Faults => OneReviewPerUser'
    BY DEF SeqInv, OneReviewPerUser
  <1> QED BY <1>2, <1>3, <1>4 DEF SeqInv

LEMMA InitSeq == Init => SeqInv
  <1> SUFFICES ASSUME Init PROVE SeqInv
    OBVIOUS
  <1>1. \A r \in Requests : req[r].user = None /\ Blank(req[r])
    BY DEF Init, Idle, Blank
  <1> QED BY <1>1 DEF Init, SeqInv, OneAtATime, Fresh, Blank, OneReviewPerUser

LEMMA NextSeq == ASSUME ~Pipelined, Inv, Inv', SeqInv, [Next]_vars PROVE SeqInv'
  <1>1. ASSUME NEW r \in Requests, Step(r) PROVE SeqInv'
    BY <1>1, StepSeq
  <1>2. ASSUME NEW r \in Requests, NEW u \in Users, NEW n \in Names, NEW q \in RequestType,
               Begin(r, u, n, q), Blank(q)
        PROVE  SeqInv'
    <2> DEFINE z == Begun(q, u, n)
    <2>1. z.user = u /\ z.pc = q.pc
      BY BegunTyped
    <2>2. req' = [req EXCEPT ![r] = z]
      BY <1>2 DEF Begin, Begun
    <2> HIDE DEF z
    <2>3. Blank(z)
      BY <1>2, <2>1 DEF Blank
    <2> QED BY <1>2, <2>1, <2>2, <2>3, BeginSeq DEF Begin
  <1>3. ASSUME NEW r \in Requests, NEW u \in Users, NEW n \in Names,
               Create(r, u, n) \/ Update(r, u, n)
        PROVE  \E q \in RequestType : Begin(r, u, n, q) /\ Blank(q)
    BY <1>3, CreateBegins, UpdateBegins DEF Asked, Blank
  <1>6. ASSUME NEW r \in Requests, NEW u \in Users, NEW n \in Names,
               Create(r, u, n) \/ Update(r, u, n)
        PROVE  SeqInv'
    BY <1>2, <1>3, <1>6
  <1>4. ASSUME NEW r \in Requests, NEW e \in Events, Read(r, e) PROVE SeqInv'
    <2> DEFINE z == [Idle EXCEPT !.pc = "get", !.title = TitleOf[e]]
    <2>1. z.user = None /\ Blank(z)
      BY DEF Idle, Blank
    <2> HIDE DEF z
    <2> QED BY <1>4, <2>1, BeginSeq DEF Read, z
  <1>5. CASE (\E e \in Events : CreateEvent(e)) \/ (\E t \in Titles : Expire(t)) \/ UNCHANGED vars
    BY <1>5 DEF CreateEvent, Expire, vars, SeqInv, OneAtATime, Fresh, OneReviewPerUser
  <1> QED BY <1>1, <1>4, <1>5, <1>6 DEF Next

-----------------------------------------------------------------------------
(* Users that wait for their answers: between the look and the store of a  *)
(* request its row stays as the request saw it.                            *)
THEOREM SeqInvariant == ~Pipelined => (Spec => []SeqInv)
  <1> SUFFICES ASSUME ~Pipelined PROVE Spec => []SeqInv
    OBVIOUS
  <1>1. Inv /\ Inv' /\ SeqInv /\ [Next]_vars => SeqInv'
    BY NextSeq
  <1> QED BY <1>1, InitSeq, InvInvariant, PTL DEF Spec

(* "review already exists": if the users wait for their answers and no     *)
(* call to a store fails, a user has one review under each spelling of an  *)
(* event's id and it keeps the id it was created with.                     *)
THEOREM ReviewsAreUnique == ~Pipelined /\ ~Faults => (Spec => []OneReviewPerUser)
  <1> SUFFICES ASSUME ~Pipelined, ~Faults PROVE Spec => []OneReviewPerUser
    OBVIOUS
  <1>1. SeqInv => OneReviewPerUser
    BY DEF SeqInv
  <1> QED BY <1>1, SeqInvariant, PTL

(* Which step leaves the row of a request that is about to write it.       *)
LEMMA RowOfWriter ==
  ASSUME Inv, SeqInv, ~Pipelined, [Next]_vars, NEW r \in Requests, req[r].pc = "write"
  PROVE  /\ rows[Key(r)] = req[r].seen /\ rows[Key(r)].id = req[r].review
         /\ \/ rows'[Key(r)] = rows[Key(r)] /\ req'[r].pc # "list"
            \/ rows'[Key(r)] = Merged(req[r])
            \/ rows' = rows /\ req'[r].pc # "list"
  <1>1. rows[Key(r)] = req[r].seen /\ rows[Key(r)].id = req[r].review
    BY DEF SeqInv, Fresh, Key
  <1>2. /\ req \in [Requests -> RequestType] /\ rows \in Table /\ Key(r) \in Keys
        /\ req[r].user \in Users
    BY SlotTyped DEF SlotInv, SlotOK, Key, Keys
  <1>3. ASSUME Step(r)
        PROVE  \/ rows'[Key(r)] = Merged(req[r])
               \/ rows' = rows /\ req'[r].pc # "list"
    <2>1. WriteRow(r)
      BY <1>3 DEF Step, Look, Insert, Find, ReadRow, WriteRow, GetCached, ListEvents, CountEvent,
                  CountEnds, Set
    <2>2. StoreRow(r, Merged(req[r])) => rows'[Key(r)] = Merged(req[r])
      BY <1>2 DEF StoreRow, Table
    <2>3. Done(r) => req'[r].pc # "list"
      BY <1>2 DEF Done, Idle
    <2> QED BY <2>1, <2>2, <2>3 DEF WriteRow, Store
  <1>4. ASSUME NEW p \in Requests, Step(p), p # r
        PROVE  rows'[Key(r)] = rows[Key(r)] /\ req'[r].pc # "list"
    <2>1. req'[r].pc # "list"
      <3>1. req'[r] = req[r]
        BY <1>4, OthersWait DEF Blank
      <3> QED BY <3>1
    <2>2. \A k, row : k # Key(r) => [rows EXCEPT ![k] = row][Key(r)] = rows[Key(r)]
      BY <1>2 DEF Table
    <2>3. \/ UNCHANGED rows
          \/ req[p].pc \in {"insert", "write"} /\ \E row : StoreRow(p, row)
      BY <1>4, RowsMove DEF Insert, Store
    <2>4. req[p].user # req[r].user
      BY <1>2, <1>4, ReviewsAssumption DEF SeqInv, OneAtATime
    <2>5. Key(p) # Key(r)
      BY <2>4 DEF Key
    <2> QED BY <2>1, <2>2, <2>3, <2>5 DEF StoreRow
  <1>5. ASSUME UNCHANGED rows, NEW p \in Requests, NEW z, req' = [req EXCEPT ![p] = z], ~Active(p)
        PROVE  rows' = rows /\ req'[r].pc # "list"
    <2>1. p # r
      BY <1>5 DEF Active
    <2> QED BY <1>2, <1>5, <2>1
  <1>6. ASSUME (\E e \in Events : CreateEvent(e)) \/ (\E t \in Titles : Expire(t)) \/ UNCHANGED vars
        PROVE  rows' = rows /\ req'[r].pc # "list"
    BY <1>6 DEF CreateEvent, Expire, vars
  <1>7. ASSUME NEW p \in Requests, NEW u \in Users, NEW n \in Names, Create(p, u, n) \/ Update(p, u, n)
        PROVE  rows' = rows /\ req'[r].pc # "list"
    BY <1>5, <1>7 DEF Create, Update, Begin
  <1>8. ASSUME NEW p \in Requests, NEW e \in Events, Read(p, e)
        PROVE  rows' = rows /\ req'[r].pc # "list"
    BY <1>5, <1>8 DEF Read
  <1> QED BY <1>1, <1>3, <1>4, <1>6, <1>7, <1>8 DEF Next

(* If the users wait for their answers, an update changes what its body    *)
(* contains and leaves the rest of the stored review alone, whoever else   *)
(* reviews the event and whichever calls fail.                             *)
THEOREM UpdatesArePartial == ~Pipelined => (Spec => PartialUpdate)
  <1> SUFFICES ASSUME ~Pipelined PROVE Spec => PartialUpdate
    OBVIOUS
  <1>1. ASSUME Inv, SeqInv, [Next]_vars
        PROVE  [\A r \in Requests : req[r].pc = "write" /\ rows' # rows =>
                 /\ req[r].rating = None => rows'[Key(r)].rating = rows[Key(r)].rating
                 /\ req[r].comment = None => rows'[Key(r)].comment = rows[Key(r)].comment]_vars
    <2>1. ASSUME NEW r \in Requests, req[r].pc = "write", rows' # rows
          PROVE  /\ req[r].rating = None => rows'[Key(r)].rating = rows[Key(r)].rating
                 /\ req[r].comment = None => rows'[Key(r)].comment = rows[Key(r)].comment
      <3>1. /\ Merged(req[r]).id = req[r].seen.id
            /\ req[r].rating = None => Merged(req[r]).rating = req[r].seen.rating
            /\ req[r].comment = None => Merged(req[r]).comment = req[r].seen.comment
        BY DEF Merged
      <3>2. /\ rows[Key(r)] = req[r].seen /\ rows[Key(r)].id = req[r].review
            /\ \/ rows'[Key(r)] = rows[Key(r)] /\ req'[r].pc # "list"
               \/ rows'[Key(r)] = Merged(req[r])
               \/ rows' = rows /\ req'[r].pc # "list"
        BY <1>1, <2>1, RowOfWriter
      <3> QED BY <2>1, <3>1, <3>2
    <2> QED BY <2>1
  <1> QED BY <1>1, InvInvariant, SeqInvariant, PTL DEF Spec, PartialUpdate

(* The same for the review that an update names by its id: it is the one   *)
(* that is found by event and user when the update is written.             *)
THEOREM UpdatesHitTheirReview == ~Pipelined => (Spec => UpdateHitsNamedReview)
  <1> SUFFICES ASSUME ~Pipelined PROVE Spec => UpdateHitsNamedReview
    OBVIOUS
  <1>1. ASSUME Inv, SeqInv, [Next]_vars
        PROVE  [\A r \in Requests : req[r].pc = "write" /\ req'[r].pc = "list" =>
                 rows[Key(r)].id = req[r].review /\ rows'[Key(r)].id = req[r].review]_vars
    <2>1. ASSUME NEW r \in Requests, req[r].pc = "write", req'[r].pc = "list"
          PROVE  rows[Key(r)].id = req[r].review /\ rows'[Key(r)].id = req[r].review
      <3>1. /\ Merged(req[r]).id = req[r].seen.id
            /\ req[r].rating = None => Merged(req[r]).rating = req[r].seen.rating
            /\ req[r].comment = None => Merged(req[r]).comment = req[r].seen.comment
        BY DEF Merged
      <3>2. /\ rows[Key(r)] = req[r].seen /\ rows[Key(r)].id = req[r].review
            /\ \/ rows'[Key(r)] = rows[Key(r)] /\ req'[r].pc # "list"
               \/ rows'[Key(r)] = Merged(req[r])
               \/ rows' = rows /\ req'[r].pc # "list"
        BY <1>1, <2>1, RowOfWriter
      <3> QED BY <2>1, <3>1, <3>2
    <2> QED BY <2>1
  <1> QED BY <1>1, InvInvariant, SeqInvariant, PTL DEF Spec, UpdateHitsNamedReview
=============================================================================
