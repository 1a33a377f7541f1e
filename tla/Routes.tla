-------------------------------- MODULE Routes --------------------------------
(***************************************************************************)
(* Which operation of the API a request reaches: the prefix tree generated *)
(* in internal/router/ogen/oas_router_gen.go, and in front of it the pages *)
(* of pkg/httpserver/middleware.go.                                        *)
(*                                                                         *)
(* A path is a sequence of tokens: "/" and pieces of text without one.     *)
(* The tree cuts prefixes off the path and never comes back to a branch it *)
(* has left, so its answer depends on the order and the exact prefixes of  *)
(* its cases.  Templates is what it is to compute from: an operation is    *)
(* reached when its path template of the API description matches the path, *)
(* segment by segment.                                                     *)
(***************************************************************************)
EXTENDS Naturals, Sequences, FiniteSets, SequencesExt

(* A node of the tree that ends a path: an operation per method, and what  *)
(* the path's parameters were.                                             *)
Node(ops, args) == [ops |-> ops, args |-> args]
NoNode == Node([m \in {} |-> ""], <<>>)

Rest(prefix, path) == SubSeq(path, Len(prefix) + 1, Len(path))

(* "Match until /": the tokens of a parameter, and what follows them.      *)
Until(path) == SelectInSeq(path, LAMBDA t : t = "/")
Param(path) == IF Until(path) = 0 THEN path ELSE SubSeq(path, 1, Until(path) - 1)
After(path) == IF Until(path) = 0 THEN <<>> ELSE SubSeq(path, Until(path), Len(path))

LogTree(path) ==
  CASE path = <<"in">>  -> Node([POST |-> "Login"], <<>>)
    [] path = <<"out">> -> Node([POST |-> "Logout"], <<>>)
    [] OTHER            -> NoNode

(* review_id ends the path: slashes are prohibited in it.                  *)
ReviewTree(id, path) ==
  IF Until(path) # 0 THEN NoNode
  ELSE Node([PATCH |-> "UpdateEventReview"], <<id, path>>)

ReviewsTree(id, path) ==
  CASE path = <<>> ->
         Node([GET |-> "GetEventReviews", POST |-> "CreateEventReview"], <<id>>)
    [] IsPrefix(<<"/">>, path) -> ReviewTree(id, Tail(path))
    [] OTHER -> NoNode

EventTree(id, path) ==
  CASE path = <<"dislike">> -> Node([POST |-> "DislikeEvent"], <<id>>)
    [] path = <<"like">>    -> Node([POST |-> "LikeEvent"], <<id>>)
    [] IsPrefix(<<"reviews">>, path) -> ReviewsTree(id, Tail(path))
    [] OTHER -> NoNode

MutEventsTree(path) ==
  CASE path = <<>> -> Node([GET |-> "GetEvents", POST |-> "CreateEvent"], <<>>)
    [] IsPrefix(<<"/">>, path) ->
         LET id == Param(Tail(path))
         IN  IF Len(After(Tail(path))) <= 1
             THEN Node([GET |-> "GetEvent", PATCH |-> "PatchEvent"], <<id>>)
             ELSE EventTree(id, Tail(After(Tail(path))))
    [] OTHER -> NoNode

EventsTree(path) ==
  CASE path = <<>> -> Node([GET |-> "GetEvents", POST |-> "CreateEvent"], <<>>)
    [] IsPrefix(<<"/">>, path) ->
         LET id == Param(Tail(path))
             rest == After(Tail(path))
         IN  IF rest = <<>>
             THEN Node([GET |-> "GetEvent", PATCH |-> "PatchEvent"], <<id>>)
             ELSE EventTree(id, Tail(rest))
    [] OTHER -> NoNode

UsersTree(path) ==
  CASE path = <<>> -> Node([GET |-> "GetUsers", POST |-> "Register"], <<>>)
    [] IsPrefix(<<"/">>, path) ->
         LET id == Param(Tail(path))
         IN  CASE After(Tail(path)) = <<>> -> Node([GET |-> "GetUser"], <<id>>)
               [] After(Tail(path)) = <<"/", "events">> ->
                    Node([GET |-> "GetUserEvents"], <<id>>)
               [] OTHER -> NoNode
    [] OTHER -> NoNode

(* ServeHTTP.  No two prefixes of one level share their first letter.      *)
Route(path) ==
  CASE IsPrefix(<<"/", "auth", "/", "log">>, path) ->
         LogTree(Rest(<<"/", "auth", "/", "log">>, path))
    [] IsPrefix(<<"/", "events">>, path) -> EventsTree(Rest(<<"/", "events">>, path))
    [] path = <<"/", "health">> -> Node([GET |-> "Health"], <<>>)
    [] path = <<"/", "recommendations">> ->
         Node([GET |-> "GetRecommendations"], <<>>)
    [] path = <<"/", "session">> -> Node([POST |-> "Session"], <<>>)
    [] IsPrefix(<<"/", "users">>, path) -> UsersTree(Rest(<<"/", "users">>, path))
    [] OTHER -> NoNode

(* A path nobody matches is 404; a method the node lacks is 405, except    *)
(* that OPTIONS is told the allowed methods with a 204.                    *)
NotFound == 404
NotAllowed(method) == IF method = "OPTIONS" THEN 204 ELSE 405

(* The pages the documentation middleware serves itself, once the files of *)
(* docs/ are loaded.                                                       *)
DocsPages ==
  {<<"/", "api", "/", "docs">>, <<"/", "api", "/", "swagger">>,
   <<"/", "api", "/", "docs", "/", "openapi.yaml">>,
   <<"/", "api", "/", "swagger", "/", "openapi.yaml">>}

IsDocsPage(path, method) ==
  LET trimmed == IF path # <<>> /\ Last(path) = "/" THEN Front(path) ELSE path
  IN  method \in {"GET", "HEAD"} /\ trimmed \in DocsPages

-----------------------------------------------------------------------------
(* The reference: the paths of the API description, docs/openapi.yaml.     *)

Open == <<"{}">>

Templates ==
  {<<"POST",  "Login",              <<<<"auth">>, <<"log", "in">>>>>>,
   <<"POST",  "Logout",             <<<<"auth">>, <<"log", "out">>>>>>,
   <<"GET",   "GetEvents",          <<<<"events">>>>>>,
   <<"POST",  "CreateEvent",        <<<<"events">>>>>>,
   <<"GET",   "GetEvent",           <<<<"events">>, Open>>>>,
   <<"PATCH", "PatchEvent",         <<<<"events">>, Open>>>>,
   <<"POST",  "LikeEvent",          <<<<"events">>, Open, <<"like">>>>>>,
   <<"POST",  "DislikeEvent",       <<<<"events">>, Open, <<"dislike">>>>>>,
   <<"GET",   "GetEventReviews",    <<<<"events">>, Open, <<"reviews">>>>>>,
   <<"POST",  "CreateEventReview",  <<<<"events">>, Open, <<"reviews">>>>>>,
   <<"PATCH", "UpdateEventReview",  <<<<"events">>, Open, <<"reviews">>, Open>>>>,
   <<"GET",   "Health",             <<<<"health">>>>>>,
   <<"GET",   "GetRecommendations", <<<<"recommendations">>>>>>,
   <<"POST",  "Session",            <<<<"session">>>>>>,
   <<"GET",   "GetUsers",           <<<<"users">>>>>>,
   <<"POST",  "Register",           <<<<"users">>>>>>,
   <<"GET",   "GetUser",            <<<<"users">>, Open>>>>,
   <<"GET",   "GetUserEvents",      <<<<"users">>, Open, <<"events">>>>>>}

Slashes(path) == {i \in 1..Len(path) : path[i] = "/"}

(* The slash, or the end of the path, with k - 1 slashes before it.        *)
Cut(path, k) ==
  CHOOSE i \in Slashes(path) \cup {Len(path) + 1} :
    Cardinality({j \in Slashes(path) : j < i}) = k - 1

(* The segments between the slashes of a path that starts with one.        *)
Segments(path) ==
  [k \in 1..Cardinality(Slashes(path)) |->
     SubSeq(path, Cut(path, k) + 1, Cut(path, k + 1) - 1)]

Fits(path, template) ==
  /\ path # <<>> /\ Head(path) = "/"
  /\ Len(Segments(path)) = Len(template)
  /\ \A k \in 1..Len(template) :
       template[k] = Open \/ template[k] = Segments(path)[k]

(* The operations a path and a method name according to the description.   *)
Described(path) == {<<t[1], t[2]>> : t \in {u \in Templates : Fits(path, u[3])}}

(* The tree reaches exactly the described operations, with the parameters  *)
(* the template's open segments stand for.                                 *)
RoutesAsDescribed(path) ==
  LET node == Route(path)
  IN  /\ {<<m, node.ops[m]>> : m \in DOMAIN node.ops} = Described(path)
      /\ \A t \in Templates : Fits(path, t[3]) =>
           LET open == {k \in 1..Len(t[3]) : t[3][k] = Open}
           IN  /\ Len(node.args) = Cardinality(open)
               /\ \A k \in open :
                    node.args[Cardinality(open \cap 1..k)] = Segments(path)[k]
=============================================================================
