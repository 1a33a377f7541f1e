--------------------------- MODULE ReactionsProofs ---------------------------
(***************************************************************************)
(* Proofs about Reactions, for every finite set of events and users and    *)
(* any number of concurrent requests.                                      *)
(*                                                                         *)
(* The heart of the argument is what a count knows while it runs.  Rows    *)
(* are never removed, so what has been counted stays a lower bound on what *)
(* is stored (TallyBound); as long as no reaction to the title overtakes   *)
(* it, it is exactly what is stored (TallyExact).  What a finished count   *)
(* writes to the cache inherits both.                                      *)
(***************************************************************************)
EXTENDS Reactions, FiniteSetTheorems, TLAPS

(* The parts of the invariant take the state they speak of as arguments: a *)
(* slot q of req, the events ev, the table tb.  A fact about them holds of *)
(* the state before a step and of the one after.                           *)
Table == [Names \X Users -> Kinds \cup {None}]

RowsIn(tb, E) == {p \in E \X Users : tb[p] # None}
KindIn(tb, E, kind) == {p \in E \X Users : tb[p] = kind}
Of(ev, t) == {e \in ev : TitleOf[e] = t}

TallyIn(tb, E) == [likes    |-> Cardinality(KindIn(tb, E, "Like")),
                   dislikes |-> Cardinality(KindIn(tb, E, "Dislike"))]

Zero == [likes |-> 0, dislikes |-> 0]

Counting(q) == q.pc \in {"count", "set"}
Storing(q) == q.op \in Kinds /\ q.pc \in {"graph", "list", "count", "set"}

(* What the fields of a slot mean at each step.                            *)
SlotOK(q, ev) ==
  /\ q.pc = "idle" => q = Idle
  /\ q.pc # "idle" => q.title \in Titles
  /\ q.pc # "idle" /\ q.op \in Kinds =>
       q.user \in Users /\ q.name \in Names /\ Denotes[q.name] \in ev
         /\ q.title = TitleOf[Denotes[q.name]]
  /\ q.pc \in {"upsert", "graph"} => q.op \in Kinds
  /\ q.pc = "get" => q.op = "Read"
  /\ ~Counting(q) => q.sum = Zero /\ ~q.late /\ q.todo = {}
  /\ q.pc = "set" => q.todo = {}
  /\ q.todo \subseteq Of(ev, q.title)

(* A reaction past its upsert has its row, and its count will include it   *)
(* unless it is under another spelling; a reader does not set a zero.      *)
OwnRow(q, tb) ==
  /\ Storing(q) => tb[<<q.name, q.user>>] # None
  /\ Counting(q) /\ q.op \in Kinds /\ q.name \in Events => q.name \in q.todo \/ Total(q.sum) > 0
  /\ q.pc = "set" => Total(q.sum) > 0 \/ (q.op \in Kinds /\ q.name \notin Events)

Counted(q, ev) == Of(ev, q.title) \ q.todo

TallyBound(q, ev, tb) ==
  Counting(q) => Total(q.sum) <= Cardinality(RowsIn(tb, Counted(q, ev)))

TallyExact(q, ev, tb) ==
  Counting(q) /\ ~q.late => q.sum = TallyIn(tb, Counted(q, ev))

SlotInv(q, ev, tb) ==
  SlotOK(q, ev) /\ OwnRow(q, tb) /\ TallyBound(q, ev, tb) /\ TallyExact(q, ev, tb)

(* An event that was not created has no reactions.                         *)
NoOrphans(ev, tb) == \A p \in Names \X Users : Denotes[p[1]] \notin ev => tb[p] = None

(* A reaction to title t was stored under another spelling.                *)
Misspelt(t, ev, tb) ==
  \E p \in (Names \ Events) \X Users :
    Denotes[p[1]] \in ev /\ TitleOf[Denotes[p[1]]] = t /\ tb[p] # None

(* What may be in the cache of title t.                                    *)
Plausible(c, t, ev, tb) ==
  c # None => (Total(c) > 0 \/ Misspelt(t, ev, tb)) /\ Total(c) <= Cardinality(RowsIn(tb, Of(ev, t)))

TrueEntry(c, t, ev, tb) == c \in {None, TallyIn(tb, Of(ev, t))}

Caused(t) == t \in tainted \/ \E r \in Requests : Storing(req[r]) /\ req[r].title = t

Inv ==
  /\ TypeOK
  /\ GraphBacked
  /\ NoOrphans(events, rows)
  /\ \A r \in Requests : SlotInv(req[r], events, rows)
  /\ \A t \in Titles : Plausible(cache[t], t, events, rows)
  /\ \A t \in Titles : TrueEntry(cache[t], t, events, rows) \/ Caused(t)

-----------------------------------------------------------------------------
(* Counting rows.                                                          *)

(* Finitely many events and users have finitely many rows.                 *)
LEMMA FiniteRows ==
  ASSUME NEW tb, NEW E \in SUBSET Events
  PROVE  /\ IsFiniteSet(RowsIn(tb, E)) /\ Cardinality(RowsIn(tb, E)) \in Nat
         /\ \A kind : /\ IsFiniteSet(KindIn(tb, E, kind))
                      /\ Cardinality(KindIn(tb, E, kind)) \in Nat
  <1>1. IsFiniteSet(E \X Users)
    BY FS_Subset, FS_Product, ReactionsAssumption
  <1>2. \A S \in SUBSET (E \X Users) : IsFiniteSet(S) /\ Cardinality(S) \in Nat
    BY <1>1, FS_Subset, FS_CardinalityType
  <1>3. RowsIn(tb, E) \in SUBSET (E \X Users)
        /\ \A kind : KindIn(tb, E, kind) \in SUBSET (E \X Users)
    BY DEF RowsIn, KindIn
  <1> QED BY <1>2, <1>3

(* Likes and dislikes together are the rows.                               *)
LEMMA TallyTotal ==
  ASSUME NEW tb \in Table, NEW E \in SUBSET Events
  PROVE  TallyIn(tb, E) \in Counts /\ Total(TallyIn(tb, E)) = Cardinality(RowsIn(tb, E))
  <1> DEFINE L == KindIn(tb, E, "Like")
             D == KindIn(tb, E, "Dislike")
  <1>1. IsFiniteSet(L) /\ IsFiniteSet(D) /\ Cardinality(L) \in Nat /\ Cardinality(D) \in Nat
    BY FiniteRows
  <1>2. RowsIn(tb, E) = L \cup D /\ L \cap D = {}
    <2>1. \A p \in E \X Users : tb[p] \in {"Like", "Dislike", None}
      BY ReactionsAssumption DEF Table, Kinds
    <2> QED BY <2>1, ReactionsAssumption DEF RowsIn, KindIn
  <1>3. Cardinality(L \cup D) = Cardinality(L) + Cardinality(D) - Cardinality(L \cap D)
    BY <1>1, FS_Union
  <1>4. Cardinality(L \cap D) = 0
    BY <1>2, FS_EmptySet
  <1>5. TallyIn(tb, E) = [likes |-> Cardinality(L), dislikes |-> Cardinality(D)]
    BY DEF TallyIn
  <1> HIDE DEF L, D
  <1> QED BY <1>1, <1>2, <1>3, <1>4, <1>5 DEF Total, Counts

(* Counting event after event.                                             *)
LEMMA TallySplit ==
  ASSUME NEW tb \in Table, NEW E \in SUBSET Events, NEW F \in SUBSET Events, E \cap F = {}
  PROVE  /\ TallyIn(tb, E \cup F) = Plus(TallyIn(tb, E), TallyIn(tb, F))
         /\ Cardinality(RowsIn(tb, E \cup F)) = Cardinality(RowsIn(tb, E)) + Cardinality(RowsIn(tb, F))
  <1>1. ASSUME NEW K, NEW M, IsFiniteSet(K), IsFiniteSet(M), K \cap M = {}
        PROVE  Cardinality(K \cup M) = Cardinality(K) + Cardinality(M)
    <2>1. Cardinality(K \cup M) = Cardinality(K) + Cardinality(M) - Cardinality(K \cap M)
      BY <1>1, FS_Union
    <2>2. Cardinality(K \cap M) = 0
      BY <1>1, FS_EmptySet
    <2>3. Cardinality(K) \in Nat /\ Cardinality(M) \in Nat
      BY <1>1, FS_CardinalityType
    <2> QED BY <2>1, <2>2, <2>3
  <1>2. \A kind : Cardinality(KindIn(tb, E \cup F, kind)) =
                    Cardinality(KindIn(tb, E, kind)) + Cardinality(KindIn(tb, F, kind))
    <2> TAKE kind
    <2>1. IsFiniteSet(KindIn(tb, E, kind)) /\ IsFiniteSet(KindIn(tb, F, kind))
      BY FiniteRows
    <2>2. KindIn(tb, E \cup F, kind) = KindIn(tb, E, kind) \cup KindIn(tb, F, kind)
          /\ KindIn(tb, E, kind) \cap KindIn(tb, F, kind) = {}
      BY DEF KindIn
    <2> QED BY <2>1, <2>2, <1>1
  <1>3. TallyIn(tb, E \cup F) = Plus(TallyIn(tb, E), TallyIn(tb, F))
    BY <1>2 DEF TallyIn, Plus
  <1>4. Cardinality(RowsIn(tb, E \cup F)) = Cardinality(RowsIn(tb, E)) + Cardinality(RowsIn(tb, F))
    <2>1. IsFiniteSet(RowsIn(tb, E)) /\ IsFiniteSet(RowsIn(tb, F))
      BY FiniteRows
    <2>2. RowsIn(tb, E \cup F) = RowsIn(tb, E) \cup RowsIn(tb, F)
          /\ RowsIn(tb, E) \cap RowsIn(tb, F) = {}
      BY DEF RowsIn
    <2> QED BY <2>1, <2>2, <1>1
  <1> QED BY <1>3, <1>4

(* More events, or more rows, are at least as many rows.                   *)
LEMMA RowsGrow ==
  ASSUME NEW tb, NEW tc, NEW E \in SUBSET Events, NEW F \in SUBSET Events, E \subseteq F,
         \A p \in E \X Users : tb[p] # None => tc[p] # None
  PROVE  Cardinality(RowsIn(tb, E)) <= Cardinality(RowsIn(tc, F))
  <1>1. RowsIn(tb, E) \in SUBSET RowsIn(tc, F)
    BY DEF RowsIn
  <1>2. IsFiniteSet(RowsIn(tc, F))
    BY FiniteRows
  <1> QED BY <1>1, <1>2, FS_Subset

(* Rows elsewhere do not matter.                                           *)
LEMMA TallySame ==
  ASSUME NEW tb, NEW tc, NEW E, NEW F,
         \A p \in E \X Users : tb[p] # None => p \in F \X Users /\ tc[p] = tb[p],
         \A p \in F \X Users : tc[p] # None => p \in E \X Users /\ tb[p] = tc[p]
  PROVE  TallyIn(tb, E) = TallyIn(tc, F)
  <1>1. KindIn(tb, E, "Like") = KindIn(tc, F, "Like")
        /\ KindIn(tb, E, "Dislike") = KindIn(tc, F, "Dislike")
    BY ReactionsAssumption DEF KindIn
  <1> QED BY <1>1 DEF TallyIn

-----------------------------------------------------------------------------
(* What the invariant says in the words of Reactions.                      *)
LEMMA InvImplies ==
  Inv => TypeOK /\ NeverOvercounts /\ StaleHasCause /\ EmptyEntryHasCause /\ GraphBacked
  <1> SUFFICES ASSUME Inv PROVE NeverOvercounts /\ StaleHasCause /\ EmptyEntryHasCause
    BY DEF Inv
  <1>1. \A t \in Titles : EventsOf(t) = Of(events, t)
    BY DEF EventsOf, Of
  <1>2. \A E : Rows(E) = RowsIn(rows, E) /\ Tally(E) = TallyIn(rows, E)
    BY DEF Rows, RowsIn, Tally, TallyIn, RowsOf, KindIn
  <1>3. NeverOvercounts
    BY <1>1, <1>2 DEF Inv, Plausible, NeverOvercounts
  <1>4. \A t \in Titles : Misspelt(t, events, rows) <=> Uncounted(t) # {}
    <2> TAKE t \in Titles
    <2>1. NamesOf(t) \ Events =
            {n \in Names \ Events : Denotes[n] \in events /\ TitleOf[Denotes[n]] = t}
      BY DEF NamesOf, EventsOf
    <2> QED BY <2>1 DEF Misspelt, Uncounted, Rows
  <1>5. EmptyEntryHasCause
    <2> SUFFICES ASSUME NEW t \in Titles, cache[t] # None, Total(cache[t]) = 0
                 PROVE  Uncounted(t) # {}
      BY DEF EmptyEntryHasCause
    <2>1. Total(cache[t]) > 0 \/ Misspelt(t, events, rows)
      BY DEF Inv, Plausible
    <2> QED BY <2>1, <1>4
  <1>6. \A t \in Titles : Uncounted(t) = {} => Tally(NamesOf(t)) = Tally(EventsOf(t))
    <2> SUFFICES ASSUME NEW t \in Titles, Uncounted(t) = {}
                 PROVE  TallyIn(rows, NamesOf(t)) = TallyIn(rows, EventsOf(t))
      BY <1>2
    <2> DEFINE E == NamesOf(t)
               F == EventsOf(t)
    <2>1. events \in SUBSET Events
      BY DEF Inv, TypeOK
    <2>2. \A p \in F \X Users : p \in E \X Users
      BY <2>1, ReactionsAssumption DEF NamesOf, EventsOf
    <2>3. \A n \in E : n \in Events => n \in F
      BY ReactionsAssumption DEF NamesOf
    <2>4. \A p \in E \X Users : rows[p] # None => p[1] \in Events
      BY DEF Uncounted, Rows
    <2>5. \A p \in E \X Users : rows[p] # None => p \in F \X Users
      BY <2>3, <2>4
    <2> HIDE DEF E, F
    <2>6. TallyIn(rows, E) = TallyIn(rows, F)
      BY <2>2, <2>5, TallySame
    <2> QED BY <2>6 DEF E, F
  <1>7. \A r \in Requests : Storing(req[r]) <=> Writing(r)
    BY DEF Storing, Writing
  <1>8. \A t \in Titles : TrueEntry(cache[t], t, events, rows) => Truthful(t)
    BY <1>1, <1>2, <1>6 DEF TrueEntry, Truthful
  <1>9. StaleHasCause
    BY <1>7, <1>8 DEF Inv, Caused, StaleHasCause
  <1> QED BY <1>3, <1>9, <1>5

-----------------------------------------------------------------------------
(* What other steps do to a slot and to an entry.                          *)

(* A new event has no rows, so no count and no entry changes its meaning.  *)
LEMMA NewEventKeeps ==
  ASSUME NEW tb \in Table, NEW ev \in SUBSET Events, NEW more \in SUBSET Events,
         ev \subseteq more, NoOrphans(ev, tb)
  PROVE  /\ \A q \in RequestType : SlotInv(q, ev, tb) => SlotInv(q, more, tb)
         /\ \A c \in Counts \cup {None}, t \in Titles :
              /\ Plausible(c, t, ev, tb) => Plausible(c, t, more, tb)
              /\ TrueEntry(c, t, ev, tb) => TrueEntry(c, t, more, tb)
  <1>1. ASSUME NEW t, NEW X
        PROVE  /\ Cardinality(RowsIn(tb, Of(ev, t) \ X)) <= Cardinality(RowsIn(tb, Of(more, t) \ X))
               /\ TallyIn(tb, Of(ev, t) \ X) = TallyIn(tb, Of(more, t) \ X)
    <2> DEFINE E == Of(ev, t) \ X
               F == Of(more, t) \ X
    <2>1. E \in SUBSET Events /\ F \in SUBSET Events /\ E \subseteq F
      BY DEF Of
    <2>2. \A p \in F \X Users : tb[p] # None => p \in E \X Users
      BY ReactionsAssumption DEF Of, NoOrphans
    <2>3. \A p \in E \X Users : p \in F \X Users
      BY <2>1
    <2> HIDE DEF E, F
    <2>4. Cardinality(RowsIn(tb, E)) <= Cardinality(RowsIn(tb, F))
      BY <2>1, RowsGrow
    <2>5. TallyIn(tb, E) = TallyIn(tb, F)
      BY <2>2, <2>3, TallySame
    <2> QED BY <2>4, <2>5 DEF E, F
  <1>2. \A t : Of(ev, t) \ {} = Of(ev, t) /\ Of(more, t) \ {} = Of(more, t)
    OBVIOUS
  <1>3. \A t : /\ Cardinality(RowsIn(tb, Of(ev, t))) \in Nat
               /\ Cardinality(RowsIn(tb, Of(more, t))) \in Nat
               /\ \A X : /\ Cardinality(RowsIn(tb, Of(ev, t) \ X)) \in Nat
                         /\ Cardinality(RowsIn(tb, Of(more, t) \ X)) \in Nat
    BY FiniteRows DEF Of
  <1>4. ASSUME NEW q \in RequestType, SlotInv(q, ev, tb)
        PROVE  SlotInv(q, more, tb)
    <2>1. SlotOK(q, more)
      BY <1>4 DEF SlotInv, SlotOK, Of
    <2>2. TallyExact(q, more, tb)
      BY <1>4, <1>1 DEF SlotInv, TallyExact, Counted
    <2>3. Total(q.sum) \in Nat
      BY DEF RequestType, Counts, Total
    <2>4. /\ Cardinality(RowsIn(tb, Counted(q, ev))) <= Cardinality(RowsIn(tb, Counted(q, more)))
          /\ Cardinality(RowsIn(tb, Counted(q, ev))) \in Nat
          /\ Cardinality(RowsIn(tb, Counted(q, more))) \in Nat
      BY <1>1, <1>3 DEF Counted
    <2>5. TallyBound(q, more, tb)
      BY <1>4, <2>3, <2>4 DEF SlotInv, TallyBound
    <2> QED BY <1>4, <2>1, <2>2, <2>5 DEF SlotInv
  <1>5. ASSUME NEW c, NEW t, TrueEntry(c, t, ev, tb)
        PROVE  TrueEntry(c, t, more, tb)
    BY <1>5, <1>1, <1>2 DEF TrueEntry
  <1>6. ASSUME NEW c \in Counts \cup {None}, NEW t, Plausible(c, t, ev, tb)
        PROVE  Plausible(c, t, more, tb)
    <2>1. Cardinality(RowsIn(tb, Of(ev, t))) <= Cardinality(RowsIn(tb, Of(more, t)))
      BY <1>1, <1>2
    <2>2. c # None => Total(c) \in Nat
      BY DEF Counts, Total
    <2>3. Misspelt(t, ev, tb) => Misspelt(t, more, tb)
      BY DEF Misspelt
    <2> QED BY <1>6, <1>3, <2>1, <2>2, <2>3 DEF Plausible
  <1> QED BY <1>4, <1>5, <1>6

(* Storing a row.                                                          *)
Stored(tb, n, u, kind) == [tb EXCEPT ![<<n, u>>] = kind]
StoredBelow(tb, tc) == \A p \in Names \X Users : tb[p] # None => tc[p] # None
SameElsewhere(tb, tc, n) == \A p \in Names \X Users : p[1] # n => tc[p] = tb[p]

LEMMA StoredTable ==
  ASSUME NEW tb \in Table, NEW tc, NEW ev \in SUBSET Events, NEW n \in Names,
         Denotes[n] \in ev, NEW u \in Users, NEW kind \in Kinds, tc = Stored(tb, n, u, kind)
  PROVE  /\ tc \in Table
         /\ tc[<<n, u>>] = kind
         /\ StoredBelow(tb, tc) /\ SameElsewhere(tb, tc, n)
         /\ NoOrphans(ev, tb) => NoOrphans(ev, tc)
  <1>1. <<n, u>> \in Names \X Users
    OBVIOUS
  <1>2. tc \in Table /\ tc[<<n, u>>] = kind
    BY <1>1 DEF Table, Stored
  <1>3. \A p \in Names \X Users : p # <<n, u>> => tc[p] = tb[p]
    BY DEF Table, Stored
  <1>4. \A p \in Names \X Users : p[1] # n => tc[p] = tb[p]
    BY <1>3
  <1>5. kind # None
    BY ReactionsAssumption DEF Kinds
  <1>6. NoOrphans(ev, tb) => NoOrphans(ev, tc)
    BY <1>4 DEF NoOrphans
  <1> QED BY <1>2, <1>3, <1>4, <1>5, <1>6 DEF StoredBelow, SameElsewhere

(* A stored row leaves the counts of other titles alone, and those of its  *)
(* own title, t, lower bounds.                                             *)
Late(q) == [q EXCEPT !.late = TRUE]

SlotsKept(tb, tc, ev, t) ==
  \A q \in RequestType : SlotInv(q, ev, tb) =>
    IF Counting(q) /\ q.title = t THEN SlotInv(Late(q), ev, tc) ELSE SlotInv(q, ev, tc)

EntriesKept(tb, tc, ev, t) ==
  \A c \in Counts \cup {None}, s \in Titles :
    /\ Plausible(c, s, ev, tb) => Plausible(c, s, ev, tc)
    /\ s # t /\ TrueEntry(c, s, ev, tb) => TrueEntry(c, s, ev, tc)

LEMMA StoreKeeps ==
  ASSUME NEW tb \in Table, NEW tc, NEW ev \in SUBSET Events, NEW n \in Names,
         Denotes[n] \in ev, NEW u \in Users, NEW kind \in Kinds, tc = Stored(tb, n, u, kind)
  PROVE  SlotsKept(tb, tc, ev, TitleOf[Denotes[n]]) /\ EntriesKept(tb, tc, ev, TitleOf[Denotes[n]])
  <1>0. tc \in Table /\ StoredBelow(tb, tc) /\ SameElsewhere(tb, tc, n)
    BY StoredTable
  <1>1. /\ tc \in Table
        /\ \A p \in Names \X Users : tb[p] # None => tc[p] # None
        /\ \A p \in Names \X Users : p[1] # n => tc[p] = tb[p]
    BY <1>0 DEF StoredBelow, SameElsewhere
  <1>2. ASSUME NEW E \in SUBSET Events
        PROVE  /\ Cardinality(RowsIn(tb, E)) <= Cardinality(RowsIn(tc, E))
               /\ Cardinality(RowsIn(tb, E)) \in Nat /\ Cardinality(RowsIn(tc, E)) \in Nat
               /\ n \notin E => TallyIn(tb, E) = TallyIn(tc, E)
    <2>1. Cardinality(RowsIn(tb, E)) <= Cardinality(RowsIn(tc, E))
      <3>1. \A p \in E \X Users : tb[p] # None => tc[p] # None
        BY <1>1, ReactionsAssumption
      <3> QED BY <3>1, RowsGrow
    <2>2. Cardinality(RowsIn(tb, E)) \in Nat /\ Cardinality(RowsIn(tc, E)) \in Nat
      BY FiniteRows
    <2>3. ASSUME n \notin E PROVE TallyIn(tb, E) = TallyIn(tc, E)
      <3>1. /\ \A p \in E \X Users : tb[p] # None => p \in E \X Users /\ tc[p] = tb[p]
            /\ \A p \in E \X Users : tc[p] # None => p \in E \X Users /\ tb[p] = tc[p]
        BY <1>1, <2>3, ReactionsAssumption
      <3> QED BY <3>1, TallySame
    <2> QED BY <2>1, <2>2, <2>3
  <1>3. ASSUME NEW c \in Counts \cup {None}, NEW t \in Titles
        PROVE  /\ Plausible(c, t, ev, tb) => Plausible(c, t, ev, tc)
               /\ t # TitleOf[Denotes[n]] /\ TrueEntry(c, t, ev, tb) => TrueEntry(c, t, ev, tc)
    <2>1. Of(ev, t) \in SUBSET Events /\ (t # TitleOf[Denotes[n]] => n \notin Of(ev, t))
      BY ReactionsAssumption DEF Of
    <2>2. /\ Cardinality(RowsIn(tb, Of(ev, t))) <= Cardinality(RowsIn(tc, Of(ev, t)))
          /\ Cardinality(RowsIn(tb, Of(ev, t))) \in Nat /\ Cardinality(RowsIn(tc, Of(ev, t))) \in Nat
          /\ t # TitleOf[Denotes[n]] => TallyIn(tb, Of(ev, t)) = TallyIn(tc, Of(ev, t))
      BY <2>1, <1>2
    <2>3. c # None => Total(c) \in Nat
      BY DEF Counts, Total
    <2>4. Misspelt(t, ev, tb) => Misspelt(t, ev, tc)
      BY <1>1 DEF Misspelt
    <2> QED BY <2>2, <2>3, <2>4 DEF Plausible, TrueEntry
  <1>4. ASSUME NEW q \in RequestType, SlotInv(q, ev, tb)
        PROVE  /\ SlotOK(q, ev) /\ OwnRow(q, tc) /\ TallyBound(q, ev, tc)
               /\ ~(Counting(q) /\ q.title = TitleOf[Denotes[n]]) => TallyExact(q, ev, tc)
    <2>1. Counted(q, ev) \in SUBSET Events /\ (q.title # TitleOf[Denotes[n]] => n \notin Counted(q, ev))
      BY ReactionsAssumption DEF Counted, Of
    <2>2. OwnRow(q, tc)
      <3>1. Storing(q) => <<q.name, q.user>> \in Names \X Users
        BY <1>4 DEF SlotInv, SlotOK, Storing
      <3> QED BY <3>1, <1>1, <1>4 DEF SlotInv, OwnRow
    <2>3. TallyBound(q, ev, tc)
      <3>1. Total(q.sum) \in Nat
        BY DEF RequestType, Counts, Total
      <3>2. /\ Cardinality(RowsIn(tb, Counted(q, ev))) <= Cardinality(RowsIn(tc, Counted(q, ev)))
            /\ Cardinality(RowsIn(tb, Counted(q, ev))) \in Nat
            /\ Cardinality(RowsIn(tc, Counted(q, ev))) \in Nat
        BY <2>1, <1>2
      <3> QED BY <3>1, <3>2, <1>4 DEF SlotInv, TallyBound
    <2>4. ~(Counting(q) /\ q.title = TitleOf[Denotes[n]]) => TallyExact(q, ev, tc)
      <3>1. q.title # TitleOf[Denotes[n]] => TallyIn(tb, Counted(q, ev)) = TallyIn(tc, Counted(q, ev))
        BY <2>1, <1>2
      <3> QED BY <3>1, <1>4 DEF SlotInv, TallyExact
    <2> QED BY <1>4, <2>2, <2>3, <2>4 DEF SlotInv
  <1>5. ASSUME NEW q \in RequestType, SlotInv(q, ev, tb), Counting(q)
        PROVE  SlotInv(Late(q), ev, tc)
    <2> DEFINE z == Late(q)
    <2>1. /\ z.pc = q.pc /\ z.op = q.op /\ z.user = q.user /\ z.name = q.name
          /\ z.title = q.title /\ z.todo = q.todo /\ z.sum = q.sum /\ z.late
      BY DEF RequestType, Late
    <2> HIDE DEF z
    <2>2. SlotOK(z, ev)
      BY <1>4, <1>5, <2>1 DEF SlotOK, Counting
    <2>3. OwnRow(z, tc) /\ TallyBound(z, ev, tc)
      BY <1>4, <1>5, <2>1 DEF OwnRow, TallyBound, Counting, Storing, Counted
    <2>4. TallyExact(z, ev, tc)
      BY <2>1 DEF TallyExact
    <2> QED BY <2>2, <2>3, <2>4 DEF SlotInv, z
  <1>6. SlotsKept(tb, tc, ev, TitleOf[Denotes[n]])
    BY <1>4, <1>5 DEF SlotsKept, SlotInv
  <1>7. EntriesKept(tb, tc, ev, TitleOf[Denotes[n]])
    BY <1>3 DEF EntriesKept
  <1> QED BY <1>6, <1>7

-----------------------------------------------------------------------------
(* The steps.                                                              *)

LEMMA InitInv == Init => Inv
  <1> SUFFICES ASSUME Init PROVE Inv
    OBVIOUS
  <1>1. \A r \in Requests : req[r] = Idle
    BY DEF Init
  <1>2. Idle \in RequestType /\ Idle.todo = {} /\ SlotInv(Idle, events, rows)
    BY DEF Idle, RequestType, Counts, SlotInv, SlotOK, OwnRow, TallyBound, TallyExact, Counting,
           Storing, Zero, Kinds
  <1>3. TypeOK
    BY <1>1, <1>2 DEF Init, TypeOK
  <1>4. GraphBacked /\ NoOrphans(events, rows)
    BY DEF Init, GraphBacked, NoOrphans
  <1>5. \A t \in Titles : Plausible(cache[t], t, events, rows) /\ TrueEntry(cache[t], t, events, rows)
    BY DEF Init, Plausible, TrueEntry
  <1> QED BY <1>1, <1>2, <1>3, <1>4, <1>5 DEF Inv

(* A step that moves one request and touches neither rows, events nor the  *)
(* cache keeps the invariant, if the slot is right where it arrives and    *)
(* the cause it may have been of a stale entry is not forgotten.           *)
LEMMA QuietStep ==
  ASSUME Inv, NEW r \in Requests, NEW z \in RequestType, req' = [req EXCEPT ![r] = z],
         UNCHANGED <<events, rows, cache>>, liked' \in SUBSET (Users \X Names), GraphBacked',
         tainted' \in SUBSET Titles, tainted \subseteq tainted',
         Storing(req[r]) => req[r].title \in tainted' \/ (Storing(z) /\ z.title = req[r].title),
         SlotInv(z, events, rows)
  PROVE  Inv'
  <1>1. /\ req' \in [Requests -> RequestType] /\ req'[r] = z
        /\ \A q \in Requests : q # r => req'[q] = req[q]
    BY DEF Inv, TypeOK
  <1>2. \A q \in Requests : SlotInv(req'[q], events', rows')
    BY <1>1 DEF Inv
  <1>3. \A e \in z.todo : e \in events /\ TitleOf[e] = z.title
    BY DEF SlotInv, SlotOK, Of
  <1>4. TypeOK'
    <2>1. \A q \in Requests : \A e \in req'[q].todo : e \in events' /\ TitleOf[e] = req'[q].title
      BY <1>1, <1>3 DEF Inv, TypeOK
    <2> QED BY <1>1, <2>1 DEF Inv, TypeOK
  <1>5. ASSUME NEW t \in Titles, Caused(t) PROVE Caused(t)'
    <2>1. CASE t \in tainted
      BY <2>1 DEF Caused
    <2>2. ASSUME NEW q \in Requests, Storing(req[q]), req[q].title = t PROVE Caused(t)'
      BY <2>2, <1>1 DEF Caused
    <2> QED BY <1>5, <2>1, <2>2 DEF Caused
  <1> QED BY <1>2, <1>4, <1>5 DEF Inv

LEMMA CreateEventInv == ASSUME Inv, NEW e \in Events, CreateEvent(e) PROVE Inv'
  <1> USE DEF CreateEvent
  <1>1. /\ rows \in Table /\ events \in SUBSET Events /\ events' \in SUBSET Events
        /\ events \subseteq events' /\ NoOrphans(events, rows)
    BY DEF Inv, TypeOK, Table
  <1>2. \A q \in RequestType : SlotInv(q, events, rows) => SlotInv(q, events', rows)
    BY <1>1, NewEventKeeps
  <1>3. \A c \in Counts \cup {None}, t \in Titles :
          /\ Plausible(c, t, events, rows) => Plausible(c, t, events', rows)
          /\ TrueEntry(c, t, events, rows) => TrueEntry(c, t, events', rows)
    BY <1>1, NewEventKeeps
  <1>4. TypeOK'
    BY DEF Inv, TypeOK
  <1>5. GraphBacked' /\ NoOrphans(events', rows')
    BY DEF Inv, GraphBacked, NoOrphans
  <1>6. \A q \in Requests : SlotInv(req'[q], events', rows')
    BY <1>2 DEF Inv, TypeOK
  <1>7. \A t \in Titles : Caused(t)' <=> Caused(t)
    BY DEF Caused
  <1>8. \A t \in Titles : /\ Plausible(cache'[t], t, events', rows')
                          /\ TrueEntry(cache'[t], t, events', rows') \/ Caused(t)'
    BY <1>3, <1>7 DEF Inv, TypeOK
  <1> QED BY <1>4, <1>5, <1>6, <1>8 DEF Inv

(* What the fields of a slot the invariant speaks of are.                  *)
LEMMA SlotTyped ==
  ASSUME Inv, NEW r \in Requests
  PROVE  /\ req \in [Requests -> RequestType] /\ req[r] \in RequestType
         /\ SlotInv(req[r], events, rows)
         /\ liked \in SUBSET (Users \X Names) /\ tainted \in SUBSET Titles
         /\ rows \in Table /\ events \in SUBSET Events
  BY DEF Inv, TypeOK, Table

LEMMA ReactInv ==
  ASSUME Inv, NEW r \in Requests, NEW u \in Users, NEW n \in Names, NEW kind \in Kinds,
         React(r, u, n, kind)
  PROVE  Inv'
  <1> DEFINE z == [Idle EXCEPT !.pc = "upsert", !.op = kind, !.user = u, !.name = n,
                               !.title = TitleOf[Denotes[n]]]
  <1>1. /\ z.pc = "upsert" /\ z.op = kind /\ z.user = u /\ z.name = n
        /\ z.title = TitleOf[Denotes[n]]
        /\ z.todo = {} /\ z.sum = Zero /\ ~z.late
    BY DEF Idle, Zero
  <1>2. z \in RequestType
    BY ReactionsAssumption DEF RequestType, Idle, Counts
  <1>3. req' = [req EXCEPT ![r] = z] /\ Denotes[n] \in events /\ ~Storing(req[r])
    BY DEF React, Active, Storing
  <1> HIDE DEF z
  <1>4. SlotInv(z, events, rows)
    BY <1>1, <1>3, ReactionsAssumption
    DEF SlotInv, SlotOK, OwnRow, TallyBound, TallyExact, Counting, Storing
  <1>5. GraphBacked'
    BY DEF React, Inv, GraphBacked
  <1> QED BY <1>2, <1>3, <1>4, <1>5, QuietStep, SlotTyped DEF React

LEMMA ReadInv ==
  ASSUME Inv, NEW r \in Requests, NEW e \in Events, Read(r, e)
  PROVE  Inv'
  <1> DEFINE z == [Idle EXCEPT !.pc = "get", !.title = TitleOf[e]]
  <1>1. /\ z.pc = "get" /\ z.op = "Read" /\ z.title = TitleOf[e]
        /\ z.todo = {} /\ z.sum = Zero /\ ~z.late
    BY DEF Idle, Zero
  <1>2. z \in RequestType
    BY ReactionsAssumption DEF RequestType, Idle, Counts
  <1>3. req' = [req EXCEPT ![r] = z] /\ ~Storing(req[r])
    BY DEF Read, Active, Storing
  <1> HIDE DEF z
  <1>4. SlotInv(z, events, rows)
    BY <1>1, ReactionsAssumption
    DEF SlotInv, SlotOK, OwnRow, TallyBound, TallyExact, Counting, Storing, Kinds
  <1>5. GraphBacked'
    BY DEF Read, Inv, GraphBacked
  <1> QED BY <1>2, <1>3, <1>4, <1>5, QuietStep, SlotTyped DEF Read

(* A slot that is free again holds nothing.                                *)
LEMMA IdleSlot == Idle \in RequestType /\ SlotInv(Idle, events, rows)
  BY DEF Idle, RequestType, Counts, SlotInv, SlotOK, OwnRow, TallyBound, TallyExact, Counting,
         Storing, Zero, Kinds

(* The end of a request, its slot free, tells the title if it was storing. *)
LEMMA EndInv ==
  ASSUME Inv, NEW r \in Requests, Done(r), UNCHANGED <<events, rows, liked, cache>>,
         tainted' \in SUBSET Titles, tainted \subseteq tainted',
         Storing(req[r]) => req[r].title \in tainted'
  PROVE  Inv'
  <1>1. GraphBacked'
    BY DEF Inv, GraphBacked
  <1> QED BY <1>1, IdleSlot, QuietStep, SlotTyped DEF Done

LEMMA FailInv ==
  ASSUME Inv, NEW r \in Requests, Fail(r), UNCHANGED <<events, rows, liked, cache>>
  PROVE  Inv'
  <1>1. Storing(req[r]) <=> Writing(r)
    BY DEF Storing, Writing
  <1>2. Writing(r) => req[r].title \in Titles
    BY <1>1, SlotTyped DEF SlotInv, SlotOK, Storing
  <1> QED BY <1>1, <1>2, EndInv, SlotTyped DEF Fail

(* Goto moves the program counter of one slot.                             *)
LEMMA Moved ==
  ASSUME Inv, NEW r \in Requests, NEW label \in {"graph", "list", "set"}, Goto(r, label)
  PROVE  \E z \in RequestType :
           /\ req' = [req EXCEPT ![r] = z]
           /\ z.pc = label /\ z.op = req[r].op /\ z.user = req[r].user /\ z.name = req[r].name
           /\ z.title = req[r].title /\ z.todo = req[r].todo /\ z.sum = req[r].sum
           /\ z.late = req[r].late
  <1> DEFINE z == [req[r] EXCEPT !.pc = label]
  <1>1. req[r] \in RequestType
    BY SlotTyped
  <1>2. /\ z \in RequestType
        /\ z.pc = label /\ z.op = req[r].op /\ z.user = req[r].user /\ z.name = req[r].name
        /\ z.title = req[r].title /\ z.todo = req[r].todo /\ z.sum = req[r].sum
        /\ z.late = req[r].late
    BY <1>1 DEF RequestType
  <1>3. req' = [req EXCEPT ![r] = z]
    BY DEF Goto
  <1> QED BY <1>2, <1>3

LEMMA AddLikeInv == ASSUME Inv, NEW r \in Requests, AddLike(r) PROVE Inv'
  <1>1. PICK z \in RequestType :
           /\ req' = [req EXCEPT ![r] = z]
           /\ z.pc = "list" /\ z.op = req[r].op /\ z.user = req[r].user /\ z.name = req[r].name
           /\ z.title = req[r].title /\ z.todo = req[r].todo /\ z.sum = req[r].sum
           /\ z.late = req[r].late
    BY Moved DEF AddLike
  <1>2. SlotInv(req[r], events, rows) /\ req[r].pc = "graph"
    BY SlotTyped DEF AddLike
  <1>3. SlotInv(z, events, rows) /\ Storing(z)
    BY <1>1, <1>2 DEF SlotInv, SlotOK, OwnRow, TallyBound, TallyExact, Counting, Storing
  <1>4. /\ req[r].user \in Users /\ req[r].name \in Names
        /\ rows[<<req[r].name, req[r].user>>] # None
    BY <1>2 DEF SlotInv, SlotOK, OwnRow, Storing
  <1>5. liked' \in SUBSET (Users \X Names) /\ GraphBacked'
    BY <1>4, SlotTyped DEF AddLike, Edge, Inv, GraphBacked
  <1> QED BY <1>1, <1>3, <1>5, QuietStep, SlotTyped DEF AddLike

LEMMA GetCachedInv == ASSUME Inv, NEW r \in Requests, GetCached(r) PROVE Inv'
  <1>1. req[r].op = "Read" /\ req[r].pc = "get" /\ ~Storing(req[r])
    BY SlotTyped DEF GetCached, Hit, SlotInv, SlotOK, Storing, Kinds
  <1>2. CASE Done(r) /\ UNCHANGED tainted
    BY <1>1, <1>2, EndInv, SlotTyped DEF GetCached, Hit
  <1>3. CASE Goto(r, "list") /\ UNCHANGED tainted
    <2>1. PICK z \in RequestType :
             /\ req' = [req EXCEPT ![r] = z]
             /\ z.pc = "list" /\ z.op = req[r].op /\ z.user = req[r].user
             /\ z.name = req[r].name /\ z.title = req[r].title /\ z.todo = req[r].todo
             /\ z.sum = req[r].sum /\ z.late = req[r].late
      BY <1>3, Moved
    <2>2. SlotInv(z, events, rows)
      BY <1>1, <2>1, SlotTyped
      DEF SlotInv, SlotOK, OwnRow, TallyBound, TallyExact, Counting, Storing, Kinds
    <2>3. GraphBacked'
      BY DEF GetCached, Hit, Inv, GraphBacked
    <2> QED BY <1>1, <1>3, <2>1, <2>2, <2>3, QuietStep, SlotTyped DEF GetCached, Hit
  <1>4. CASE Fail(r)
    BY <1>4, FailInv DEF GetCached, Hit
  <1> QED BY <1>2, <1>3, <1>4 DEF GetCached, Hit

LEMMA ListEventsInv == ASSUME Inv, NEW r \in Requests, ListEvents(r) PROVE Inv'
  <1>1. CASE Fail(r)
    BY <1>1, FailInv DEF ListEvents
  <1>2. CASE /\ req' = [req EXCEPT ![r].pc = "count", ![r].todo = EventsOf(req[r].title)]
             /\ UNCHANGED tainted
    <2> DEFINE z == [req[r] EXCEPT !.pc = "count", !.todo = EventsOf(req[r].title)]
    <2>1. req[r] \in RequestType /\ req[r].pc = "list" /\ SlotInv(req[r], events, rows)
      BY SlotTyped DEF ListEvents
    <2>2. EventsOf(req[r].title) = Of(events, req[r].title) /\ EventsOf(req[r].title) \subseteq Events
      BY SlotTyped DEF EventsOf, Of
    <2>3. z \in RequestType
      BY <2>1, <2>2 DEF RequestType
    <2>4. /\ z.pc = "count" /\ z.op = req[r].op /\ z.user = req[r].user
          /\ z.name = req[r].name /\ z.title = req[r].title
          /\ z.todo = Of(events, req[r].title) /\ z.sum = Zero /\ ~z.late
      BY <2>1, <2>2 DEF RequestType, SlotInv, SlotOK, Counting
    <2>5. req' = [req EXCEPT ![r] = z]
      BY <1>2
    <2> HIDE DEF z
    <2>6. SlotOK(z, events)
      BY <2>1, <2>4 DEF SlotInv, SlotOK, Counting
    <2>7. OwnRow(z, rows)
      BY <2>1, <2>4, ReactionsAssumption DEF SlotInv, SlotOK, OwnRow, Counting, Storing, Of
    <2>8. Counted(z, events) = {}
      BY <2>4 DEF Counted
    <2>9. TallyIn(rows, {}) = Zero /\ Cardinality(RowsIn(rows, {})) = 0
      <3>1. RowsIn(rows, {}) = {} /\ \A kind : KindIn(rows, {}, kind) = {}
        BY DEF RowsIn, KindIn
      <3> QED BY <3>1, FS_EmptySet DEF TallyIn, Zero
    <2>10. TallyBound(z, events, rows) /\ TallyExact(z, events, rows)
      BY <2>4, <2>8, <2>9 DEF TallyBound, TallyExact, Total, Zero
    <2>11. Storing(req[r]) => Storing(z)
      BY <2>4 DEF Storing
    <2>12. GraphBacked'
      BY DEF ListEvents, Inv, GraphBacked
    <2> QED BY <1>2, <2>3, <2>4, <2>5, <2>6, <2>7, <2>10, <2>11, <2>12, QuietStep, SlotTyped
            DEF ListEvents, SlotInv
  <1> QED BY <1>1, <1>2 DEF ListEvents

LEMMA CountEventInv == ASSUME Inv, NEW r \in Requests, NEW e \in Events, CountEvent(r, e) PROVE Inv'
  <1>1. CASE Fail(r)
    BY <1>1, FailInv DEF CountEvent
  <1>2. CASE /\ req' = [req EXCEPT ![r].todo = @ \ {e}, ![r].sum = Plus(@, Tally({e}))]
             /\ UNCHANGED tainted
    <2> DEFINE q == req[r]
               one == TallyIn(rows, {e})
               z == [q EXCEPT !.todo = @ \ {e}, !.sum = Plus(@, one)]
    <2>1. q \in RequestType /\ q.pc = "count" /\ e \in q.todo /\ SlotInv(q, events, rows)
      BY SlotTyped DEF CountEvent
    <2>2. Tally({e}) = one
      BY DEF Tally, TallyIn, RowsOf, KindIn
    <2>3. one \in Counts /\ Total(one) = Cardinality(RowsIn(rows, {e}))
      BY TallyTotal, SlotTyped
    <2>4. req' = [req EXCEPT ![r] = z]
      BY <1>2, <2>2
    <2>5. Plus(q.sum, one) \in Counts /\ Total(Plus(q.sum, one)) = Total(q.sum) + Total(one)
          /\ Total(q.sum) \in Nat /\ Total(one) \in Nat
      BY <2>1, <2>3 DEF Plus, Counts, Total, RequestType
    <2>6. /\ z.pc = "count" /\ z.op = q.op /\ z.user = q.user /\ z.name = q.name
          /\ z.title = q.title /\ z.todo = q.todo \ {e} /\ z.sum = Plus(q.sum, one)
          /\ z.late = q.late
      BY <2>1 DEF RequestType
    <2>7. z \in RequestType
      BY <2>1, <2>5 DEF RequestType
    <2> HIDE DEF z, one
    <2>8. SlotOK(z, events)
      BY <2>1, <2>6 DEF SlotInv, SlotOK, Counting
    <2>9. OwnRow(z, rows)
      <3>1. Storing(z) => rows[<<z.name, z.user>>] # None
        BY <2>1, <2>6 DEF SlotInv, OwnRow, Storing
      <3>2. ASSUME z.op \in Kinds, z.name \in Events, z.name \notin z.todo PROVE Total(z.sum) > 0
        <4>1. CASE z.name = e
          <5>1. <<e, q.user>> \in RowsIn(rows, {e})
            BY <2>1, <2>6, <3>1, <3>2, <4>1 DEF SlotInv, SlotOK, Storing, RowsIn
          <5>2. Total(one) # 0
            BY <5>1, <2>3, FiniteRows, FS_EmptySet
          <5> QED BY <5>2, <2>5, <2>6
        <4>2. CASE z.name # e
          <5>1. Total(q.sum) > 0
            BY <2>1, <2>6, <3>2, <4>2 DEF SlotInv, OwnRow, Counting
          <5> QED BY <5>1, <2>5, <2>6
        <4> QED BY <4>1, <4>2
      <3> QED BY <2>6, <3>1, <3>2 DEF OwnRow
    <2>10. /\ Counted(z, events) = Counted(q, events) \cup {e}
           /\ Counted(q, events) \cap {e} = {}
           /\ Counted(q, events) \in SUBSET Events
      BY <2>1, <2>6, SlotTyped DEF Counted, SlotInv, SlotOK, Of
    <2>11. /\ TallyIn(rows, Counted(z, events)) = Plus(TallyIn(rows, Counted(q, events)), one)
           /\ Cardinality(RowsIn(rows, Counted(z, events))) =
                Cardinality(RowsIn(rows, Counted(q, events))) + Cardinality(RowsIn(rows, {e}))
           /\ Cardinality(RowsIn(rows, Counted(q, events))) \in Nat
      BY <2>10, TallySplit, FiniteRows, SlotTyped DEF one
    <2>12. TallyBound(z, events, rows)
      <3>1. Total(q.sum) <= Cardinality(RowsIn(rows, Counted(q, events)))
        BY <2>1 DEF SlotInv, TallyBound, Counting
      <3> QED BY <3>1, <2>3, <2>5, <2>6, <2>11 DEF TallyBound
    <2>13. TallyExact(z, events, rows)
      <3>1. ~q.late => q.sum = TallyIn(rows, Counted(q, events))
        BY <2>1 DEF SlotInv, TallyExact, Counting
      <3> QED BY <3>1, <2>6, <2>11 DEF TallyExact
    <2>14. Storing(q) => Storing(z)
      BY <2>1, <2>6 DEF Storing
    <2>15. GraphBacked'
      BY DEF CountEvent, Inv, GraphBacked
    <2> QED BY <1>2, <2>4, <2>6, <2>7, <2>8, <2>9, <2>12, <2>13, <2>14, <2>15, QuietStep, SlotTyped
            DEF CountEvent, SlotInv
  <1> QED BY <1>1, <1>2 DEF CountEvent

LEMMA CountEndsInv == ASSUME Inv, NEW r \in Requests, CountEnds(r) PROVE Inv'
  <1>1. /\ req[r].pc = "count" /\ req[r].todo = {} /\ SlotInv(req[r], events, rows)
        /\ req[r].sum \in Counts
    BY SlotTyped DEF CountEnds, RequestType
  <1>2. CASE Fills(r)
    <2>1. PICK z \in RequestType :
             /\ req' = [req EXCEPT ![r] = z]
             /\ z.pc = "set" /\ z.op = req[r].op /\ z.user = req[r].user
             /\ z.name = req[r].name /\ z.title = req[r].title /\ z.todo = req[r].todo
             /\ z.sum = req[r].sum /\ z.late = req[r].late
      BY <1>2, Moved DEF CountEnds
    <2>2. Total(req[r].sum) > 0 \/ (req[r].op \in Kinds /\ req[r].name \notin Events)
      <3>1. req[r].op \in Kinds /\ req[r].name \in Events => Total(req[r].sum) > 0
        BY <1>1 DEF SlotInv, OwnRow, Counting
      <3>2. req[r].sum.likes > 0 \/ req[r].sum.dislikes > 0 => Total(req[r].sum) > 0
        BY <1>1 DEF Counts, Total
      <3> QED BY <1>2, <3>1, <3>2 DEF Fills
    <2>3. SlotOK(z, events)
      BY <1>1, <2>1 DEF SlotInv, SlotOK, Counting
    <2>4. OwnRow(z, rows)
      BY <1>1, <2>1, <2>2 DEF SlotInv, OwnRow, Storing, Counting
    <2>5. Counted(z, events) = Counted(req[r], events)
      BY <2>1 DEF Counted
    <2>6. TallyBound(z, events, rows) /\ TallyExact(z, events, rows)
      BY <1>1, <2>1, <2>5 DEF SlotInv, TallyBound, TallyExact, Counting
    <2>7. Storing(req[r]) => Storing(z)
      BY <2>1 DEF Storing
    <2>8. GraphBacked'
      BY DEF CountEnds, Inv, GraphBacked
    <2> QED BY <2>1, <2>3, <2>4, <2>6, <2>7, <2>8, QuietStep, SlotTyped DEF CountEnds, SlotInv
  <1>3. CASE ~Fills(r)
    <2>1. ~Storing(req[r])
      BY <1>3 DEF Fills, Storing
    <2> QED BY <1>3, <2>1, EndInv, SlotTyped DEF CountEnds
  <1> QED BY <1>2, <1>3

(* Storing a row in the middle of a request: whatever the slot z the       *)
(* request goes on with, the other slots and the cache stay right, and the *)
(* request or tainted answers for an entry that no longer is the truth.    *)
LEMMA StoreStep ==
  ASSUME Inv, NEW r \in Requests, req[r].pc = "upsert", NEW z \in RequestType,
         StoreRow(r), MarkLate(r, z), UNCHANGED <<events, liked, cache>>,
         tainted' \in SUBSET Titles, tainted \subseteq tainted',
         SlotInv(z, events, rows'),
         req[r].title \in tainted' \/ (Storing(z) /\ z.title = req[r].title)
  PROVE  Inv'
  <1> DEFINE q == req[r]
  <1>1. /\ q.user \in Users /\ q.name \in Names /\ q.op \in Kinds /\ q.title \in Titles
        /\ Denotes[q.name] \in events /\ q.title = TitleOf[Denotes[q.name]]
    BY SlotTyped DEF SlotInv, SlotOK
  <1>2. rows' = Stored(rows, q.name, q.user, q.op)
    BY DEF StoreRow, Stored
  <1>3. rows \in Table /\ events \in SUBSET Events /\ NoOrphans(events, rows)
    BY SlotTyped DEF Inv
  <1>4. /\ rows' \in Table /\ StoredBelow(rows, rows') /\ NoOrphans(events, rows')
        /\ SlotsKept(rows, rows', events, q.title) /\ EntriesKept(rows, rows', events, q.title)
    <2> DEFINE tc == rows'
               n == q.name
               u == q.user
               kind == q.op
    <2>1. /\ tc = Stored(rows, n, u, kind) /\ n \in Names /\ Denotes[n] \in events
          /\ u \in Users /\ kind \in Kinds
      BY <1>1, <1>2
    <2>2. q.title = TitleOf[Denotes[n]]
      BY <1>1
    <2> HIDE DEF tc, n, u, kind, q
    <2>3. tc \in Table /\ StoredBelow(rows, tc) /\ NoOrphans(events, tc)
      BY <1>3, <2>1, StoredTable
    <2>4. SlotsKept(rows, tc, events, TitleOf[Denotes[n]])
          /\ EntriesKept(rows, tc, events, TitleOf[Denotes[n]])
      BY <1>3, <2>1, StoreKeeps
    <2> QED BY <2>2, <2>3, <2>4 DEF tc
  <1>5. ASSUME NEW p \in Requests, p # r
        PROVE  /\ req'[p] \in RequestType /\ SlotInv(req'[p], events, rows')
               /\ req'[p].title = req[p].title /\ req'[p].todo = req[p].todo
               /\ Storing(req[p]) => Storing(req'[p])
    <2>1. req[p] \in RequestType /\ SlotInv(req[p], events, rows)
      BY SlotTyped
    <2>2. CASE Counting(req[p]) /\ req[p].title = q.title
      <3> DEFINE y == Late(req[p])
      <3>1. req'[p] = y
        BY <1>5, <2>2 DEF MarkLate, Listed, Counting, Late
      <3>2. SlotInv(y, events, rows')
        BY <1>4, <2>1, <2>2 DEF SlotsKept
      <3>3. /\ y \in RequestType /\ y.pc = req[p].pc /\ y.op = req[p].op
            /\ y.title = req[p].title /\ y.todo = req[p].todo
        BY <2>1 DEF RequestType, Late
      <3> HIDE DEF y
      <3> QED BY <3>1, <3>2, <3>3 DEF Storing
    <2>3. CASE ~(Counting(req[p]) /\ req[p].title = q.title)
      <3>1. req'[p] = req[p]
        BY <1>5, <2>3 DEF MarkLate, Listed, Counting
      <3>2. SlotInv(req[p], events, rows')
        BY <1>4, <2>1, <2>3 DEF SlotsKept
      <3> QED BY <2>1, <3>1, <3>2
    <2> QED BY <2>2, <2>3
  <1>6. req'[r] = z
    BY DEF MarkLate
  <1>7. req' \in [Requests -> RequestType] /\ \A p \in Requests : SlotInv(req'[p], events, rows')
    BY <1>5, <1>6 DEF MarkLate
  <1>8. TypeOK'
    <2>1. \A p \in Requests : \A e \in req'[p].todo : e \in events /\ TitleOf[e] = req'[p].title
      BY <1>7 DEF SlotInv, SlotOK, Of
    <2> QED BY <1>4, <1>7, <2>1 DEF Inv, TypeOK, Table
  <1>9. GraphBacked'
    BY <1>4, SlotTyped DEF Inv, GraphBacked, StoredBelow
  <1>10. ASSUME NEW t \in Titles, t # q.title, Caused(t) PROVE Caused(t)'
    BY <1>5, <1>10 DEF Caused
  <1>11. ASSUME NEW t \in Titles, t = q.title PROVE Caused(t)'
    BY <1>6, <1>11 DEF Caused
  <1>12. \A t \in Titles : /\ Plausible(cache[t], t, events, rows')
                           /\ TrueEntry(cache[t], t, events, rows') \/ Caused(t)'
    <2> TAKE t \in Titles
    <2>1. /\ cache[t] \in Counts \cup {None} /\ Plausible(cache[t], t, events, rows)
          /\ TrueEntry(cache[t], t, events, rows) \/ Caused(t)
      BY DEF Inv, TypeOK
    <2>2. t # q.title /\ Caused(t) => Caused(t)'
      BY <1>10
    <2>3. t = q.title => Caused(t)'
      BY <1>11
    <2> QED BY <2>1, <2>2, <2>3, <1>4 DEF EntriesKept
  <1> QED BY <1>4, <1>7, <1>8, <1>9, <1>12 DEF Inv

LEMMA UpsertInv == ASSUME Inv, NEW r \in Requests, Upsert(r) PROVE Inv'
  <1> DEFINE q == req[r]
  <1>1. /\ q \in RequestType /\ q.pc = "upsert" /\ SlotInv(q, events, rows) /\ q.title \in Titles
        /\ q.user \in Users /\ q.name \in Names /\ q.op \in Kinds
    BY SlotTyped DEF Upsert, SlotInv, SlotOK
  <1>2. CASE StoreRow(r) /\ MarkLate(r, [q EXCEPT !.pc = AfterUpsert(r)]) /\ UNCHANGED tainted
    <2> DEFINE z == [q EXCEPT !.pc = AfterUpsert(r)]
    <2>1. /\ z \in RequestType /\ z.pc \in {"graph", "list"} /\ z.op = q.op /\ z.user = q.user
          /\ z.name = q.name /\ z.title = q.title /\ z.todo = q.todo /\ z.sum = q.sum
          /\ z.late = q.late
      BY <1>1 DEF RequestType, AfterUpsert
    <2>2. MarkLate(r, z)
      BY <1>2
    <2> HIDE DEF z
    <2>3. rows'[<<q.name, q.user>>] # None
      BY <1>1, <1>2, SlotTyped, ReactionsAssumption DEF StoreRow, Table, Kinds
    <2>4. SlotInv(z, events, rows')
      BY <1>1, <2>1, <2>3
      DEF SlotInv, SlotOK, OwnRow, TallyBound, TallyExact, Counting, Storing
    <2>5. Storing(z)
      BY <1>1, <2>1 DEF Storing
    <2> QED BY <1>1, <1>2, <2>1, <2>2, <2>4, <2>5, StoreStep, SlotTyped DEF Upsert
  <1>3. CASE StoreRow(r) /\ MarkLate(r, Idle) /\ tainted' = tainted \cup {q.title}
    <2>1. Idle \in RequestType /\ SlotInv(Idle, events, rows')
      BY DEF Idle, RequestType, Counts, SlotInv, SlotOK, OwnRow, TallyBound, TallyExact, Counting,
             Storing, Zero, Kinds
    <2> QED BY <1>1, <1>3, <2>1, StoreStep, SlotTyped DEF Upsert
  <1>4. CASE FailedUpsert(r) /\ UNCHANGED <<rows, tainted>>
    <2>1. ~Storing(q)
      BY <1>1 DEF Storing
    <2> QED BY <1>4, <2>1, EndInv, SlotTyped DEF Upsert, FailedUpsert
  <1> QED BY <1>2, <1>3, <1>4 DEF Upsert

(* The cache of the title of a request is replaced by c, or not at all.    *)
LEMMA SetInv == ASSUME Inv, NEW r \in Requests, Set(r) PROVE Inv'
  <1> DEFINE q == req[r]
  <1>1. /\ q \in RequestType /\ q.pc = "set" /\ q.todo = {} /\ q.title \in Titles
        /\ SlotInv(q, events, rows) /\ q.sum \in Counts
    BY SlotTyped DEF Set, SlotInv, SlotOK, RequestType
  <1>2. /\ req' \in [Requests -> RequestType] /\ req'[r] = Idle
        /\ \A p \in Requests : p # r => req'[p] = req[p]
    BY IdleSlot, SlotTyped DEF Set, Done
  <1>3. cache' \in [Titles -> Counts \cup {None}] /\ tainted' \in SUBSET Titles
    BY <1>1, SlotTyped DEF Set, Inv, TypeOK
  <1>4. TypeOK' /\ \A p \in Requests : SlotInv(req'[p], events', rows')
    <2>1. Idle.todo = {} /\ SlotInv(Idle, events, rows)
      BY IdleSlot DEF Idle
    <2>2. \A p \in Requests : \A e \in req'[p].todo : e \in events' /\ TitleOf[e] = req'[p].title
      BY <1>2, <2>1 DEF Set, Inv, TypeOK
    <2> QED BY <1>2, <1>3, <2>1, <2>2 DEF Set, Inv, TypeOK
  <1>5. GraphBacked' /\ NoOrphans(events', rows')
    BY DEF Set, Inv, GraphBacked
  <1>6. ASSUME NEW t \in Titles, t # q.title
        PROVE  cache'[t] = cache[t] /\ (Caused(t) => Caused(t)')
    <2>1. cache'[t] = cache[t]
      BY <1>6 DEF Set, Inv, TypeOK
    <2>2. t \in tainted => t \in tainted'
      BY <1>6 DEF Set
    <2>3. ASSUME NEW p \in Requests, Storing(req[p]), req[p].title = t
          PROVE  Storing(req'[p]) /\ req'[p].title = t
      BY <1>2, <1>6, <2>3
    <2> QED BY <2>1, <2>2, <2>3 DEF Caused
  <1>7. /\ Plausible(q.sum, q.title, events, rows)
        /\ ~q.late => TrueEntry(q.sum, q.title, events, rows)
    <2>1. Counted(q, events) = Of(events, q.title)
      BY <1>1 DEF Counted
    <2>2. q.op \in Kinds /\ q.name \notin Events => Misspelt(q.title, events, rows)
      BY <1>1 DEF SlotInv, SlotOK, OwnRow, Storing, Misspelt
    <2> QED BY <1>1, <2>1, <2>2 DEF SlotInv, OwnRow, TallyBound, TallyExact, Counting, Plausible, TrueEntry
  <1>8. /\ cache'[q.title] = cache[q.title] \/ cache'[q.title] = q.sum
        /\ q.title \in tainted' \/ (cache'[q.title] = q.sum /\ ~q.late)
    BY <1>1 DEF Set, Inv, TypeOK
  <1>9. \A t \in Titles : /\ Plausible(cache'[t], t, events, rows)
                          /\ TrueEntry(cache'[t], t, events, rows) \/ Caused(t)'
    <2> TAKE t \in Titles
    <2>1. /\ Plausible(cache[t], t, events, rows)
          /\ TrueEntry(cache[t], t, events, rows) \/ Caused(t)
      BY DEF Inv
    <2>2. CASE t # q.title
      BY <2>1, <2>2, <1>6
    <2>3. CASE t = q.title
      BY <2>1, <2>3, <1>7, <1>8 DEF Caused
    <2> QED BY <2>2, <2>3
  <1> QED BY <1>4, <1>5, <1>9 DEF Inv, Set

(* An expired entry has nothing left to be wrong about.                    *)
LEMMA ExpireInv == ASSUME Inv, NEW t \in Titles, Expire(t) PROVE Inv'
  <1> USE DEF Expire
  <1>1. /\ cache'[t] = None
        /\ \A s \in Titles : s # t => cache'[s] = cache[s] /\ (Caused(s) => Caused(s)')
    BY DEF Inv, TypeOK, Caused
  <1>2. TypeOK' /\ GraphBacked' /\ NoOrphans(events', rows')
    BY DEF Inv, TypeOK, GraphBacked
  <1>3. \A s \in Titles : /\ Plausible(cache'[s], s, events', rows')
                          /\ TrueEntry(cache'[s], s, events', rows') \/ Caused(s)'
    BY <1>1 DEF Inv, Plausible, TrueEntry
  <1> QED BY <1>2, <1>3 DEF Inv

(* Nothing happens.                                                        *)
LEMMA StutterInv == ASSUME Inv, UNCHANGED vars PROVE Inv'
  BY DEF Inv, TypeOK, GraphBacked, Caused, vars

LEMMA NextInv == Inv /\ [Next]_vars => Inv'
  <1> SUFFICES ASSUME Inv, [Next]_vars PROVE Inv'
    OBVIOUS
  <1>1. ASSUME NEW r \in Requests, Step(r) PROVE Inv'
    BY <1>1, UpsertInv, AddLikeInv, GetCachedInv, ListEventsInv, CountEventInv, CountEndsInv, SetInv
    DEF Step
  <1>2. ASSUME NEW r \in Requests, NEW u \in Users, NEW n \in Names, NEW kind \in Kinds,
               React(r, u, n, kind)
        PROVE  Inv'
    BY <1>2, ReactInv
  <1>3. ASSUME NEW r \in Requests, NEW e \in Events, Read(r, e) PROVE Inv'
    BY <1>3, ReadInv
  <1>4. ASSUME NEW e \in Events, CreateEvent(e) PROVE Inv'
    BY <1>4, CreateEventInv
  <1>5. ASSUME NEW t \in Titles, Expire(t) PROVE Inv'
    BY <1>5, ExpireInv
  <1>6. CASE UNCHANGED vars
    BY <1>6, StutterInv
  <1> QED BY <1>1, <1>2, <1>3, <1>4, <1>5, <1>6 DEF Next

-----------------------------------------------------------------------------
(* The invariant holds of every state the program reaches, whatever the    *)
(* number of events, users and requests, and whichever calls fail.         *)
THEOREM InvInvariant == Spec => []Inv
  BY InitInv, NextInv, PTL DEF Spec

(* Type correctness; a count visits events of its own title only.          *)
THEOREM TypeCorrect == Spec => []TypeOK
  BY InvInvariant, InvImplies, PTL

(* However the counts and the writers of a title overlap and fail, its     *)
(* cache shows no more reactions than there are.                           *)
THEOREM CacheNeverOvercounts == Spec => []NeverOvercounts
  BY InvInvariant, InvImplies, PTL

(* An entry that disagrees with the reactions table lacks exactly those    *)
(* under other spellings, is on its way to be corrected, or was left by a  *)
(* late count or a failed request.                                         *)
THEOREM StalenessHasCause == Spec => []StaleHasCause
  BY InvInvariant, InvImplies, PTL

(* A zero in the cache of a title is there for a reaction that was stored  *)
(* under another spelling of an event's id; no reader puts one there.      *)
THEOREM EmptyEntriesHaveACause == Spec => []EmptyEntryHasCause
  BY InvInvariant, InvImplies, PTL

(* Every LIKED edge of the graph belongs to a stored reaction.             *)
THEOREM GraphFollowsRows == Spec => []GraphBacked
  BY InvInvariant, InvImplies, PTL

-----------------------------------------------------------------------------
(* The refinement: the stored rows per title and the shown totals, as      *)
(* functions of the state, step as TitleTotals says.                       *)
CountsOf(tb, ev) == [t \in Titles |-> Cardinality(RowsIn(tb, Of(ev, t)))]
ShownOf(c) == [t \in Titles |-> IF c[t] = None THEN None ELSE Total(c[t])]

LEMMA Mapped ==
  /\ [t \in Titles |-> Cardinality(Rows(EventsOf(t)))] = CountsOf(rows, events)
  /\ [t \in Titles |-> Cardinality(Rows(EventsOf(t)))]' = CountsOf(rows', events')
  BY DEF CountsOf, Rows, RowsIn, EventsOf, Of

(* A row stored is one more or replaces one.                               *)
LEMMA StoreGrows ==
  ASSUME NEW tb \in Table, NEW ev \in SUBSET Events, NEW n \in Names,
         Denotes[n] \in ev, NEW u \in Users, NEW kind \in Kinds, NEW tc, tc = Stored(tb, n, u, kind)
  PROVE  \/ CountsOf(tc, ev) = CountsOf(tb, ev)
         \/ CountsOf(tc, ev) = [CountsOf(tb, ev) EXCEPT ![TitleOf[Denotes[n]]] = @ + 1]
  <1> DEFINE p == <<n, u>>
  <1>1. /\ tc[p] # None /\ p \in Names \X Users
        /\ \A k \in Names \X Users : k # p => tc[k] = tb[k]
    BY ReactionsAssumption DEF Stored, Table, Kinds
  <1>2. TitleOf[Denotes[n]] \in Titles
    BY ReactionsAssumption
  <1>3. ASSUME NEW t \in Titles, t # TitleOf[Denotes[n]]
        PROVE  RowsIn(tc, Of(ev, t)) = RowsIn(tb, Of(ev, t))
    BY <1>1, <1>3, ReactionsAssumption DEF RowsIn, Of
  <1>4. CASE tb[p] # None \/ n \notin Events
    <2>1. \A t \in Titles : RowsIn(tc, Of(ev, t)) = RowsIn(tb, Of(ev, t))
      BY <1>1, <1>4, ReactionsAssumption DEF RowsIn, Of
    <2> QED BY <2>1, Zenon DEF CountsOf
  <1>5. CASE tb[p] = None /\ n \in Events
    <2> DEFINE E == Of(ev, TitleOf[Denotes[n]])
               K == RowsIn(tb, E)
    <2>1. RowsIn(tc, E) = K \cup {p} /\ p \notin K
      BY <1>1, <1>5, ReactionsAssumption DEF RowsIn, Of
    <2>2. IsFiniteSet(K) /\ Cardinality(K) \in Nat
      BY FiniteRows DEF Of
    <2>3. Cardinality(K \cup {p}) = Cardinality(K) + 1
      <3> HIDE DEF K
      <3> QED BY <2>1, <2>2, FS_AddElement
    <2>4. Cardinality(RowsIn(tc, E)) = Cardinality(K) + 1
      BY <2>1, <2>3, Zenon
    <2>5. CountsOf(tb, ev)[TitleOf[Denotes[n]]] = Cardinality(K)
      BY <1>2 DEF CountsOf
    <2>6. \A t \in Titles : t # TitleOf[Denotes[n]] =>
            Cardinality(RowsIn(tc, Of(ev, t))) = Cardinality(RowsIn(tb, Of(ev, t)))
      BY <1>3, Zenon
    <2> HIDE DEF K
    <2>7. \A t \in Titles : Cardinality(RowsIn(tc, Of(ev, t))) =
            IF t = TitleOf[Denotes[n]] THEN CountsOf(tb, ev)[t] + 1 ELSE CountsOf(tb, ev)[t]
      BY <2>4, <2>5, <2>6 DEF CountsOf
    <2> QED BY <1>2, <2>7 DEF CountsOf
  <1> QED BY <1>4, <1>5

(* A row is stored for an event that exists.                               *)
StoresARow ==
  \E n \in Names, u \in Users, kind \in Kinds :
    Denotes[n] \in events /\ rows' = Stored(rows, n, u, kind)

(* What a step does to the table, the events and the cache.                *)
LEMMA WhatChanges ==
  ASSUME Inv, Inv', [Next]_vars
  PROVE  \/ UNCHANGED <<events, rows, cache>>
         \/ events \subseteq events' /\ UNCHANGED <<rows, cache>>
         \/ /\ StoresARow
            /\ UNCHANGED <<events, cache>>
         \/ /\ \E t \in Titles, c \in Counts \cup {None} : cache' = [cache EXCEPT ![t] = c]
            /\ UNCHANGED <<events, rows>>
  <1>1. ASSUME NEW r \in Requests, Upsert(r)
        PROVE  \/ UNCHANGED <<events, rows, cache>>
               \/ /\ StoresARow
                  /\ UNCHANGED <<events, cache>>
    <2>1. /\ req[r].name \in Names /\ Denotes[req[r].name] \in events
          /\ req[r].user \in Users /\ req[r].op \in Kinds
      BY <1>1, SlotTyped DEF Upsert, SlotInv, SlotOK
    <2>2. StoreRow(r) => rows' = Stored(rows, req[r].name, req[r].user, req[r].op)
      BY DEF StoreRow, Stored
    <2> QED BY <1>1, <2>1, <2>2 DEF Upsert, StoresARow
  <1>2. ASSUME NEW r \in Requests, Set(r)
        PROVE  /\ \/ UNCHANGED cache
                  \/ \E t \in Titles, c \in Counts \cup {None} : cache' = [cache EXCEPT ![t] = c]
               /\ UNCHANGED <<events, rows>>
    <2>1. req[r].title \in Titles /\ req[r].sum \in Counts
      BY <1>2, SlotTyped DEF Set, SlotInv, SlotOK, RequestType
    <2> QED BY <1>2, <2>1 DEF Set
  <1>3. ASSUME NEW r \in Requests, Step(r), ~Upsert(r), ~Set(r)
        PROVE  UNCHANGED <<events, rows, cache>>
    BY <1>3 DEF Step, AddLike, GetCached, ListEvents, CountEvent, CountEnds
  <1> QED BY <1>1, <1>2, <1>3 DEF Next, React, Read, CreateEvent, Expire, vars

LEMMA StepRefines == ASSUME Inv, Inv', [Next]_vars PROVE [Totals!Next]_Totals!vars
  <1>1. /\ rows \in Table /\ events \in SUBSET Events /\ NoOrphans(events, rows)
        /\ cache \in [Titles -> Counts \cup {None}]
    BY DEF Inv, TypeOK, Table
  <1>2. CASE UNCHANGED <<events, rows, cache>>
    BY <1>2, Mapped DEF Totals!vars
  <1>3. CASE events \subseteq events' /\ UNCHANGED <<rows, cache>>
    <2>1. \A t \in Titles : RowsIn(rows', Of(events', t)) = RowsIn(rows, Of(events, t))
      <3>1. events' \in SUBSET Events
        BY DEF Inv, TypeOK
      <3> QED BY <1>1, <1>3, <3>1, ReactionsAssumption DEF RowsIn, Of, NoOrphans
    <2>2. CountsOf(rows', events') = CountsOf(rows, events)
      BY <2>1, Zenon DEF CountsOf
    <2> QED BY <1>3, <2>2, Mapped DEF Totals!vars
  <1>4. CASE /\ StoresARow
             /\ UNCHANGED <<events, cache>>
    <2>1. PICK n \in Names, u \in Users, kind \in Kinds :
                 Denotes[n] \in events /\ rows' = Stored(rows, n, u, kind)
      BY <1>4 DEF StoresARow
    <2>2. \/ CountsOf(rows', events) = CountsOf(rows, events)
          \/ CountsOf(rows', events) = [CountsOf(rows, events) EXCEPT ![TitleOf[Denotes[n]]] = @ + 1]
      <3> DEFINE tc == rows'
      <3>1. tc = Stored(rows, n, u, kind)
        BY <2>1
      <3> HIDE DEF tc
      <3>2. \/ CountsOf(tc, events) = CountsOf(rows, events)
            \/ CountsOf(tc, events) = [CountsOf(rows, events) EXCEPT ![TitleOf[Denotes[n]]] = @ + 1]
        BY <1>1, <2>1, <3>1, StoreGrows
      <3> QED BY <3>2 DEF tc
    <2>3. TitleOf[Denotes[n]] \in Titles
      BY <1>1, ReactionsAssumption
    <2>4. CASE CountsOf(rows', events) = CountsOf(rows, events)
      BY <1>4, <2>4, Mapped DEF Totals!vars
    <2>5. CASE CountsOf(rows', events) = [CountsOf(rows, events) EXCEPT ![TitleOf[Denotes[n]]] = @ + 1]
      <3>1. Totals!Grow(TitleOf[Denotes[n]])
        BY <1>4, <2>5, Mapped DEF Totals!Grow
      <3> QED BY <2>3, <3>1 DEF Totals!Next
    <2> QED BY <2>2, <2>4, <2>5
  <1>5. CASE /\ \E t \in Titles, c \in Counts \cup {None} : cache' = [cache EXCEPT ![t] = c]
             /\ UNCHANGED <<events, rows>>
    <2>1. PICK t \in Titles, c \in Counts \cup {None} : cache' = [cache EXCEPT ![t] = c]
      BY <1>5
    <2>2. /\ cache'[t] = c /\ Plausible(c, t, events, rows)
          /\ ShownOf(cache') = [ShownOf(cache) EXCEPT ![t] = IF c = None THEN None ELSE Total(c)]
      BY <1>1, <1>5, <2>1 DEF Inv, ShownOf
    <2>3. CASE c = None
      <3>1. Totals!Drop(t)
        BY <1>5, <2>2, <2>3, Mapped DEF Totals!Drop, ShownOf
      <3> QED BY <3>1 DEF Totals!Next
    <2>4. CASE c # None
      <3>1. Total(c) \in 0 .. CountsOf(rows, events)[t]
        <4>1. Total(c) \in Nat
          BY <2>4 DEF Counts, Total
        <4>2. CountsOf(rows, events)[t] = Cardinality(RowsIn(rows, Of(events, t)))
          BY DEF CountsOf
        <4>3. Cardinality(RowsIn(rows, Of(events, t))) \in Nat
          BY <1>1, FiniteRows DEF Of
        <4> QED BY <2>2, <2>4, <4>1, <4>2, <4>3 DEF Plausible
      <3>2. ShownOf(cache') = [ShownOf(cache) EXCEPT ![t] = Total(c)]
        BY <2>2, <2>4
      <3>3. Totals!Fill(t)
        BY <1>5, <3>1, <3>2, Mapped DEF Totals!Fill, ShownOf
      <3> QED BY <3>3 DEF Totals!Next
    <2> QED BY <2>3, <2>4
  <1> QED BY <1>2, <1>3, <1>4, <1>5, WhatChanges

LEMMA InitRefines == Init => Totals!Init
  <1> SUFFICES ASSUME Init PROVE Totals!Init
    OBVIOUS
  <1>1. \A t : RowsIn(rows, Of(events, t)) = {}
    BY DEF Init, RowsIn, Of
  <1>2. \A t \in Titles : Cardinality(RowsIn(rows, Of(events, t))) = 0
    BY <1>1, FS_EmptySet, Zenon
  <1> QED BY <1>2, Mapped DEF Init, Totals!Init, CountsOf

(* The cache implements TitleTotals: what it shows of a title was, when it *)
(* was filled, no more than the number of its reactions under the events'  *)
(* ids, which never decreases.                                             *)
THEOREM CacheRefinesTotals == Spec => ImplementsTotals
  <1>1. Inv /\ Inv' /\ [Next]_vars => [Totals!Next]_Totals!vars
    BY StepRefines
  <1> QED BY <1>1, InitRefines, InvInvariant, PTL DEF Spec, ImplementsTotals, Totals!Spec
=============================================================================
