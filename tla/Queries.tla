-------------------------------- MODULE Queries --------------------------------
(***************************************************************************)
(* What the MongoDB storage reads and changes for a request:               *)
(* internal/storage/mongodb/event.go and user.go, with what the handlers   *)
(* pass to it.  A collection is a function from ids to documents.          *)
(*                                                                         *)
(* A pattern matches the text it equals; the pattern Bad is one MongoDB    *)
(* refuses to compile.  Times are hours, a day has Day of them.            *)
(***************************************************************************)
EXTENDS Operations, FiniteSets

CONSTANTS
  Accounts,     \* the users collection: [user ids -> [name, username]]
  Spelled,      \* other spellings of an id (upper-case hex): [spelling -> id]
  None,         \* no value in a document, no user
  Day           \* hours of a day

DefaultLimit == 10
DefaultOffset == 0

Has(given, field) == field \in DOMAIN given
(* An absent string parameter reaches the storage as the empty one.        *)
Text(given, field) == IF Has(given, field) THEN given[field] ELSE Blank

(* idAlternatives: an id is looked up as written and as the ObjectID it    *)
(* denotes, so another spelling of an id finds the same document.          *)
IdAlternatives(id) == {id} \cup IF id \in DOMAIN Spelled THEN {Spelled[id]} ELSE {}

Regex(pattern, text) == pattern = Blank \/ pattern = text
Exactly(value, stored) == value = Blank \/ value = stored

(* $gte and $lte on price match no document without a price.               *)
PriceWithin(given, price) ==
  /\ Has(given, "price_from") => price # None /\ price >= given["price_from"]
  /\ Has(given, "price_to")   => price # None /\ price <= given["price_to"]

(* date_to runs to the end of its day.                                     *)
DateWithin(given, hour) ==
  /\ Text(given, "date_from") # Blank => hour >= Day * given["date_from"]
  /\ Text(given, "date_to")   # Blank => hour <= Day * given["date_to"] + (Day - 1)

Named(username) == {u \in DOMAIN Accounts : Accounts[u].username = username}

(* created_by: `user` is resolved to an id and replaces user_id.           *)
CreatedBy(op, given) ==
  CASE op = "GetUserEvents" -> given["id"]
    [] op = "GetEvents" /\ Text(given, "user") # Blank ->
         IF Named(given["user"]) = {} THEN None
         ELSE CHOOSE u \in Named(given["user"]) : TRUE
    [] OTHER -> Text(given, "user_id")

(* buildEventsFilter; an id filter only where the listing takes one.       *)
EventMatches(op, given, events, e) ==
  LET doc == events[e]
  IN  /\ op = "GetEvents" /\ Text(given, "id") # Blank => e \in IdAlternatives(given["id"])
      /\ Regex(Text(given, "title"), doc.title)
      /\ Exactly(Text(given, "category"), doc.category)
      /\ PriceWithin(given, doc.price)
      /\ Regex(Text(given, "address"), doc.address)
      /\ Exactly(Text(given, "city"), doc.city)
      /\ DateWithin(given, doc.started)
      /\ CreatedBy(op, given) \in {Blank, doc.by}

UserMatches(given, u) ==
  /\ Text(given, "id") # Blank => u \in IdAlternatives(given["id"])
  /\ Regex(Text(given, "name"), Accounts[u].name)

(* A listing of the ids that match, in no order: offset of them skipped,   *)
(* the rest cut to the limit, where 0 is no limit.                         *)
MutPages(given, found) ==
  LET limit  == IF Has(given, "limit") THEN given["limit"] ELSE DefaultLimit
      offset == IF Has(given, "offset") THEN given["offset"] ELSE DefaultOffset
      left == IF offset > Cardinality(found) THEN 0 ELSE Cardinality(found) - offset
      size == IF limit < left THEN limit ELSE left
  IN  {p \in SUBSET found : Cardinality(p) = size}

Pages(given, found) ==
  LET limit  == IF Has(given, "limit") THEN given["limit"] ELSE DefaultLimit
      offset == IF Has(given, "offset") THEN given["offset"] ELSE DefaultOffset
      left == IF offset > Cardinality(found) THEN 0 ELSE Cardinality(found) - offset
      size == IF limit > 0 /\ limit < left THEN limit ELSE left
  IN  {p \in SUBSET found : Cardinality(p) = size}

GetEvents(op, given, events) ==
  Pages(given, {e \in DOMAIN events : EventMatches(op, given, events, e)})
GetUsers(given) == Pages(given, {u \in DOMAIN Accounts : UserMatches(given, u)})

(* MongoDB refuses the query; a `user` nobody has ends it before that.     *)
Uncompilable(op, given) ==
  \/ /\ op \in {"GetEvents", "GetUserEvents"}
     /\ Bad \in {Text(given, "title"), Text(given, "address")}
     /\ CreatedBy(op, given) # None
  \/ op = "GetUsers" /\ Text(given, "name") = Bad

FoundEvents(id, events) == IdAlternatives(id) \cap DOMAIN events
FoundUsers(id) == IdAlternatives(id) \cap DOMAIN Accounts

(* The document a patch by `user` matches, and what it makes of it.        *)
MutPatchable(id, user, events) == FoundEvents(id, events)
Patchable(id, user, events) == {e \in FoundEvents(id, events) : events[e].by = user}

(* $set of the given fields; a blank city is unset.                        *)
Patched(doc, given) ==
  [doc EXCEPT !.category = IF Has(given, "category") THEN given["category"] ELSE @,
              !.city  = IF Has(given, "city") THEN given["city"] ELSE @,
              !.price = IF Has(given, "price") THEN given["price"] ELSE @]

PatchEvent(id, user, given, events) ==
  [e \in DOMAIN events |->
     IF e \in Patchable(id, user, events) THEN Patched(events[e], given) ELSE events[e]]
=============================================================================
