------------------------------- MODULE Lifecycle -------------------------------
(***************************************************************************)
(* The life of the process: main (cmd), Run (internal/app/app.go) and the  *)
(* HTTP server it starts and stops (pkg/httpserver/server.go).             *)
(*                                                                         *)
(* Run opens the clients of the stores one after the other, makes the      *)
(* indexes and starts three goroutines of one errgroup: the HTTP server,   *)
(* the pprof server, and the stopper, which waits until the context is     *)
(* cancelled, by a signal or by the error of a goroutine, and shuts both   *)
(* servers down.  When all three have returned the clients are closed, the *)
(* last opened first, and the process ends with the group's first error.   *)
(*                                                                         *)
(* net/http is modelled as it is used: Shutdown makes ListenAndServe       *)
(* return ErrServerClosed, at once or as soon as it is called, and then    *)
(* waits for the requests that run until its context ends.                 *)
(***************************************************************************)
EXTENDS Naturals, Sequences

CONSTANTS Requests      \* the HTTP requests that may run at a time

VARIABLES
  main,        \* "start", "wait" (gr.Wait), "close" or "exited"
  begun,       \* how many steps of the start are done
  open,        \* how many clients are open, in the order of Steps
  web,         \* the goroutine of the HTTP server
  server,      \* Server.httpServer: "nil", "set", or "down" after Shutdown
  running,     \* the requests it runs
  prof,        \* the goroutine of the pprof server
  profiling,   \* a pprof request runs
  profDown,    \* pprofServer was shut down
  stopper,     \* the goroutine that stops the servers
  signalled,   \* SIGINT or SIGTERM was received
  err,         \* the error Run returns
  overtaken,   \* history: Shutdown found no server
  expired      \* history: Shutdown's two seconds ended first

vars == <<main, begun, open, web, server, running, prof, profiling, profDown,
          stopper, signalled, err, overtaken, expired>>

Clients == <<"redis", "mongodb", "cassandra", "neo4j">>
Steps == Clients \o <<"user index", "event indexes">>

(* The context of the group: later signals are received and dropped.       *)
Cancelled == signalled \/ err # "none"
FirstError(e) == IF err = "none" THEN e ELSE err

Signal ==
  /\ main # "exited" /\ ~signalled
  /\ signalled' = TRUE
  /\ UNCHANGED <<main, begun, open, web, server, running, prof, profiling,
                 profDown, stopper, err, overtaken, expired>>

-----------------------------------------------------------------------------
(* Run, before the goroutines: every step takes the context.               *)

StartStep ==
  /\ main = "start" /\ begun < Len(Steps) /\ ~Cancelled
  /\ begun' = begun + 1
  /\ open' = IF begun < Len(Clients) THEN open + 1 ELSE open
  /\ UNCHANGED <<main, web, server, running, prof, profiling, profDown,
                 stopper, signalled, err, overtaken, expired>>

MutStartFails ==
  /\ main = "start" /\ begun < Len(Steps)
  /\ err' = "start" /\ main' = "close" /\ open' = open + 1
  /\ UNCHANGED <<begun, web, server, running, prof, profiling, profDown,
                 stopper, signalled, overtaken, expired>>

StartFails ==
  /\ main = "start" /\ begun < Len(Steps)
  /\ err' = "start" /\ main' = "close"
  /\ UNCHANGED <<begun, open, web, server, running, prof, profiling, profDown,
                 stopper, signalled, overtaken, expired>>

Spawn ==
  /\ main = "start" /\ begun = Len(Steps)
  /\ main' = "wait" /\ web' = "run" /\ prof' = "run" /\ stopper' = "wait"
  /\ UNCHANGED <<begun, open, server, running, profiling, profDown, signalled,
                 err, overtaken, expired>>

-----------------------------------------------------------------------------
(* The HTTP server; the stopper has its lock while it is in Shutdown.      *)

StoreServer ==
  /\ web = "run" /\ stopper # "http"
  /\ server' = "set" /\ web' = "listen"
  /\ UNCHANGED <<main, begun, open, running, prof, profiling, profDown,
                 stopper, signalled, err, overtaken, expired>>

Listen ==
  /\ web = "listen" /\ server = "set"
  /\ web' = "serve"
  /\ UNCHANGED <<main, begun, open, server, running, prof, profiling, profDown,
                 stopper, signalled, err, overtaken, expired>>

(* ErrServerClosed is no error of the goroutine, any other error is, that  *)
(* of a listen which Shutdown came in the middle of too.                   *)
WebCloses ==
  /\ web \in {"listen", "serve"} /\ server = "down"
  /\ web' = "ended"
  /\ UNCHANGED <<main, begun, open, server, running, prof, profiling, profDown,
                 stopper, signalled, err, overtaken, expired>>

WebFails ==
  /\ web = "listen" \/ (web = "serve" /\ server = "set")
  /\ web' = "failed" /\ err' = FirstError("http")
  /\ UNCHANGED <<main, begun, open, server, running, prof, profiling, profDown,
                 stopper, signalled, overtaken, expired>>

BeginRequest(r) ==
  /\ web = "serve" /\ server = "set" /\ r \notin running
  /\ running' = running \cup {r}
  /\ UNCHANGED <<main, begun, open, web, server, prof, profiling, profDown,
                 stopper, signalled, err, overtaken, expired>>

EndRequest(r) ==
  /\ r \in running /\ main # "exited"
  /\ running' = running \ {r}
  /\ UNCHANGED <<main, begun, open, web, server, prof, profiling, profDown,
                 stopper, signalled, err, overtaken, expired>>

-----------------------------------------------------------------------------
(* The pprof server                                                        *)

ProfListens ==
  /\ prof = "run" /\ ~profDown
  /\ prof' = "serve"
  /\ UNCHANGED <<main, begun, open, web, server, running, profiling, profDown,
                 stopper, signalled, err, overtaken, expired>>

ProfCloses ==
  /\ prof \in {"run", "serve"} /\ profDown
  /\ prof' = "ended"
  /\ UNCHANGED <<main, begun, open, web, server, running, profiling, profDown,
                 stopper, signalled, err, overtaken, expired>>

ProfFails ==
  /\ prof = "run" \/ (prof = "serve" /\ ~profDown)
  /\ prof' = "failed" /\ err' = FirstError("pprof")
  /\ UNCHANGED <<main, begun, open, web, server, running, profiling, profDown,
                 stopper, signalled, overtaken, expired>>

Profile ==
  /\ prof = "serve" /\ ~profDown /\ ~profiling /\ profiling' = TRUE
  /\ UNCHANGED <<main, begun, open, web, server, running, prof, profDown,
                 stopper, signalled, err, overtaken, expired>>

EndProfile ==
  /\ profiling /\ main # "exited" /\ profiling' = FALSE
  /\ UNCHANGED <<main, begun, open, web, server, running, prof, profDown,
                 stopper, signalled, err, overtaken, expired>>

-----------------------------------------------------------------------------
(* The stopper: Server.Shutdown, then pprofServer.Shutdown                 *)

(* A server that Run has not stored yet is not shut down.                  *)
Shutdown ==
  /\ stopper = "wait" /\ Cancelled
  /\ IF server = "nil"
     THEN /\ stopper' = "pprof" /\ overtaken' = TRUE
          /\ UNCHANGED server
     ELSE /\ stopper' = "http" /\ server' = "down"
          /\ UNCHANGED overtaken
  /\ UNCHANGED <<main, begun, open, web, running, prof, profiling, profDown,
                 signalled, err, expired>>

MutDrained ==
  /\ stopper = "http"
  /\ stopper' = "pprof"
  /\ UNCHANGED <<main, begun, open, web, server, running, prof, profiling, profDown,
                 signalled, err, overtaken, expired>>

Drained ==
  /\ stopper = "http" /\ running = {}
  /\ stopper' = "pprof"
  /\ UNCHANGED <<main, begun, open, web, server, running, prof, profiling, profDown,
                 signalled, err, overtaken, expired>>

MutTimeout ==
  /\ stopper = "http" /\ running = {}
  /\ stopper' = "pprof" /\ expired' = TRUE
  /\ UNCHANGED <<main, begun, open, web, server, running, prof, profiling, profDown,
                 signalled, err, overtaken>>

(* Requests may still run; the error of the timeout is dropped.            *)
Timeout ==
  /\ stopper = "http"
  /\ stopper' = "pprof" /\ expired' = TRUE
  /\ UNCHANGED <<main, begun, open, web, server, running, prof, profiling, profDown,
                 signalled, err, overtaken>>

(* Its context has ended already: it does not wait, and a pprof request    *)
(* that runs is an error.                                                  *)
ProfShutdown ==
  /\ stopper = "pprof"
  /\ stopper' = "ended" /\ profDown' = TRUE
  /\ err' = IF profiling THEN FirstError("context") ELSE err
  /\ UNCHANGED <<main, begun, open, web, server, running, prof, profiling,
                 signalled, overtaken, expired>>

-----------------------------------------------------------------------------
(* The end                                                                 *)

Over == {"ended", "failed"}

MutWaited ==
  /\ main = "wait" /\ {web, prof, stopper} \cap Over # {}
  /\ main' = "close"
  /\ UNCHANGED <<begun, open, web, server, running, prof, profiling, profDown,
                 stopper, signalled, err, overtaken, expired>>

Waited ==
  /\ main = "wait" /\ {web, prof, stopper} \subseteq Over
  /\ main' = "close"
  /\ UNCHANGED <<begun, open, web, server, running, prof, profiling, profDown,
                 stopper, signalled, err, overtaken, expired>>

CloseClient ==
  /\ main = "close" /\ open > 0
  /\ open' = open - 1
  /\ UNCHANGED <<main, begun, web, server, running, prof, profiling, profDown,
                 stopper, signalled, err, overtaken, expired>>

(* The status is 0 if there is no error; what still runs is cut off.       *)
Exit ==
  /\ main = "close" /\ open = 0
  /\ main' = "exited"
  /\ UNCHANGED <<begun, open, web, server, running, prof, profiling, profDown,
                 stopper, signalled, err, overtaken, expired>>

Init ==
  /\ main = "start" /\ begun = 0 /\ open = 0
  /\ web = "none" /\ server = "nil" /\ running = {}
  /\ prof = "none" /\ profiling = FALSE /\ profDown = FALSE
  /\ stopper = "none" /\ signalled = FALSE /\ err = "none"
  /\ overtaken = FALSE /\ expired = FALSE

Start == StartStep \/ StartFails \/ Spawn
Web == StoreServer \/ Listen \/ WebCloses
Prof == ProfListens \/ ProfCloses
Stop == Shutdown \/ Drained \/ Timeout \/ ProfShutdown
End == Waited \/ CloseClient \/ Exit

Next ==
  \/ Signal \/ Start \/ Web \/ Prof \/ Stop \/ End
  \/ WebFails \/ ProfFails \/ Profile \/ EndProfile
  \/ \E r \in Requests : BeginRequest(r) \/ EndRequest(r)

Spec == Init /\ [][Next]_vars

(* Goroutines that can run do run, calls to the stores and the two seconds *)
(* end; no request and no failure has to come, and no request has to end.  *)
FairSpec ==
  /\ Spec
  /\ WF_vars(Start) /\ WF_vars(Web) /\ WF_vars(Prof) /\ WF_vars(Stop) /\ WF_vars(End)

-----------------------------------------------------------------------------
(* Properties                                                              *)

(* The variables have their types: no more clients are closed than were    *)
(* opened, whichever step of the start fails.                              *)
TypeOK ==
  /\ main \in {"start", "wait", "close", "exited"}
  /\ begun \in 0 .. Len(Steps) /\ open \in 0 .. Len(Clients)
  /\ web \in {"none", "run", "listen", "serve", "ended", "failed"}
  /\ prof \in {"none", "run", "serve", "ended", "failed"}
  /\ stopper \in {"none", "wait", "http", "pprof", "ended"}
  /\ server \in {"nil", "set", "down"} /\ running \subseteq Requests
  /\ {profiling, profDown, signalled, overtaken, expired} \subseteq BOOLEAN
  /\ err \in {"none", "start", "http", "pprof", "context"}

(* Clients are closed, or the process ends, under an HTTP request that     *)
(* runs only if Shutdown's two seconds were over first, or if the HTTP     *)
(* server failed after Shutdown had missed it.                             *)
RequestsKeepClients ==
  running # {} /\ (open < Len(Clients) \/ main = "exited") =>
    expired \/ (overtaken /\ web = "failed")

(* A process ends with status 0 only if a signal told it to, the stopper   *)
(* stopped both servers and no pprof request was cut off.                  *)
CleanExitBySignal ==
  main = "exited" /\ err = "none" =>
    signalled /\ web = "ended" /\ prof = "ended" /\ ~profiling

(* Nothing is cut off without a cause that the model names, and the exit   *)
(* status tells of every cause but the two seconds.                        *)
EndHasCause == RequestsKeepClients /\ CleanExitBySignal

(* A process whose Shutdown came before the server was stored ends only if *)
(* the HTTP server itself fails: no signal ends it any more.               *)
OvertakenServes == overtaken /\ main # "wait" => web = "failed"

(* From any other state in which the context is cancelled it comes to its  *)
(* end, however long its requests take.                                    *)
Stops == Cancelled ~> (main = "exited" \/ overtaken)
=============================================================================
