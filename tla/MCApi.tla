--------------------------------- MODULE MCApi ---------------------------------
(* The requests TLC sends to Api: every path near a described one, and for  *)
(* every operation its ordinary request with up to two values changed.      *)
EXTENDS Api

MCAccounts == [ann |-> [name |-> "Ann", username |-> "a"],
               bob |-> [name |-> "Bob", username |-> "b"]]
MCSpelled == [E1 |-> "e1", ANN |-> "ann"]
MCCategories == {"meetup", "party"}
MCEvents ==
  [e1 |-> [title |-> "jazz", category |-> "party", price |-> 2, address |-> "quay",
           city |-> "Omsk", started |-> 5, by |-> "ann"],
   e2 |-> [title |-> "jazz", category |-> Blank, price |-> None, address |-> "dock",
           city |-> Blank, started |-> 2, by |-> "bob"]]

-----------------------------------------------------------------------------
(* Paths: each template with an id, an empty id and a keyword in its open   *)
(* segments, and what one token more or less makes of it.                   *)
Joined(segments) == FlattenSeq([k \in DOMAIN segments |-> <<"/">> \o segments[k]])

Filled(template, id) ==
  Joined([k \in DOMAIN template |-> IF template[k] = Open THEN id ELSE template[k]])

Paths == {Filled(t[3], id) : t \in Templates, id \in {<<"e1">>, <<>>, <<"like">>}}

Shorter(path) == {RemoveAt(path, k) : k \in DOMAIN path}
Longer(path) == {InsertAt(path, k, t) : k \in 1..(Len(path) + 1),
                                        t \in {"/", "events", "reviews", "log", "like"}}

OddPaths == UNION {Shorter(p) \cup Longer(p) : p \in Paths} \cup DocsPages
            \cup {Append(p, "/") : p \in DocsPages}

OddRequests ==
  [path : OddPaths, method : {"GET"}, body : {"none"}, given : {<<>>}]
    \cup [path : Paths, method : {"GET", "PUT", "OPTIONS"}, body : {"none"}, given : {<<>>}]

-----------------------------------------------------------------------------
(* Values a request may give a name; absence is always one more.            *)
Values(name) ==
  CASE name = "Cookie"    -> {"sid", Blank}
    [] name \in {"limit", "offset", "price", "price_from", "price_to"} ->
         {-1, 0, 1, 2, Bad}
    [] name \in {"date_from", "date_to"} -> {0, 1, Blank, Bad}
    [] name \in {"title", "address"} -> {"jazz", "quay", Blank, Bad}
    [] name = "category"  -> {"party", "meetup", Blank, Bad}
    [] name = "city"      -> {"Omsk", Blank}
    [] name = "id"        -> {"e1", "E1", "ann", "ANN", Blank}
    [] name = "user_id"   -> {"ann", "bob", Blank}
    [] name = "user"      -> {"a", "b", "z", Blank}
    [] name = "name"      -> {"Ann", Blank, Bad}
    [] name = "rating"    -> {5, Bad}
    [] OTHER              -> {"x", Blank, Bad}

(* The requests that differ from `given` in at most two of the names.       *)
Without(given, S) == [n \in DOMAIN given \ S |-> given[n]]
One(n) == {<<>>} \cup {n :> v : v \in Values(n)}
Two(n, m) == {f @@ g : f \in One(n), g \in One(m)}
Changed(given, names) ==
  UNION {UNION {{f @@ Without(given, {n, m}) : f \in Two(n, m)} : m \in names}
         : n \in names}

Send(paths, method, body, given, names) ==
  [path : paths, method : {method}, body : {body}, given : Changed(given, names)]

Root(word) == {<<"/", word>>}
Event(tail) == {<<"/", "events", "/", id>> \o tail : id \in {"e1", "E1", "nope"}}
User(tail) == {<<"/", "users", "/", id>> \o tail : id \in {"ann", "ANN", "nope"}}

SidGiven == [Cookie |-> "sid"]
Filters == {"title", "category", "price_from", "price_to", "address", "city",
            "date_from", "date_to", "limit", "offset"}
Account == [username |-> "x", password |-> "x"]
NewEvent == SidGiven @@ [title |-> "x", address |-> "x", started_at |-> "x",
                         finished_at |-> "x"]
Review == SidGiven @@ [comment |-> "x", rating |-> 5]

PlainRequests ==
  Send(Root("health"), "GET", "none", <<>>, {"Cookie"})
    \cup Send(Root("session"), "POST", "none", SidGiven, {"Cookie"})
    \cup Send({<<"/", "auth", "/", "log", "in">>}, "POST", "json", Account @@ SidGiven,
              {"Cookie", "username", "password"})
    \cup Send({<<"/", "auth", "/", "log", "out">>}, "POST", "none", SidGiven, {"Cookie"})
    \cup Send(Root("users"), "POST", "json", Account @@ [full_name |-> "x"] @@ SidGiven,
              {"Cookie", "username", "password", "full_name"})
    \cup Send(Root("users"), "GET", "none", <<>>, {"id", "name", "limit", "offset"})
    \cup Send(Root("recommendations"), "GET", "none", SidGiven, {"Cookie"})
    \cup Send(User(<<>>), "GET", "none", <<>>, {"Cookie"})

EventRequests ==
  Send(Root("events"), "POST", "json", NewEvent, DOMAIN NewEvent)
    \cup Send(Root("events"), "GET", "none", <<>>, Filters \cup {"id", "user_id", "user"})
    \cup Send(User(<<"/", "events">>), "GET", "none", <<>>, Filters)
    \cup Send(Event(<<>>), "GET", "none", <<>>, {"Cookie", "include"})
    \cup Send(Event(<<>>), "PATCH", "json", SidGiven,
              {"Cookie", "category", "city", "price"})
    \cup Send(Event(<<"/", "like">>), "POST", "none", SidGiven, {"Cookie"})
    \cup Send(Event(<<"/", "dislike">>), "POST", "none", SidGiven, {"Cookie"})
    \cup Send(Event(<<"/", "reviews">>), "POST", "json", Review, DOMAIN Review)
    \cup Send(Event(<<"/", "reviews">>), "GET", "none", <<>>, {"limit", "offset"})
    \cup Send(Event(<<"/", "reviews", "/", "r1">>), "PATCH", "json", Review,
              DOMAIN Review)

(* Every operation with a body is also sent one it cannot decode.           *)
SpoiltRequests ==
  {[r EXCEPT !.body = b] :
     r \in [path : Root("users") \cup Root("events"), method : {"POST"},
            body : {"json"}, given : {<<>>, NewEvent}]
           \cup [path : {<<"/", "events", "/", "e1">>}, method : {"PATCH"},
                 body : {"json"}, given : {SidGiven}],
     b \in Bodies}

MCRequests == OddRequests \cup PlainRequests \cup EventRequests \cup SpoiltRequests
=============================================================================
