---------------------------- MODULE LifecycleProofs ----------------------------
(***************************************************************************)
(* Proofs about Lifecycle, for any number of concurrent requests.          *)
(*                                                                         *)
(* Three facts carry them.  The goroutines run only while main waits, so   *)
(* clients are closed when all three are over or none began.  The stopper  *)
(* leaves Shutdown with a server that takes no request any more and has    *)
(* none left, unless its two seconds ended or it found no server.  And an  *)
(* error, once there, stays: a goroutine that failed, or a pprof request   *)
(* that was cut off, is in the exit status.                                *)
(***************************************************************************)
EXTENDS Lifecycle, TLAPS

(* How far main is, and what that says of the clients and the goroutines.  *)
MainInv ==
  /\ main = "start" =>
       /\ {web, prof, stopper} = {"none"} /\ err = "none"
       /\ open = IF begun < 4 THEN begun ELSE 4
  /\ main = "wait" => open = 4 /\ "none" \notin {web, prof, stopper}
  /\ main \in {"close", "exited"} =>
       \/ {web, prof, stopper} = {"none"} /\ err = "start"
       \/ {web, prof, stopper} \subseteq Over

(* The server that Shutdown is called on, and what Shutdown leaves of it.  *)
ServerInv ==
  /\ server = "nil" <=> web \in {"none", "run"}
  /\ server = "nil" => running = {}
  /\ web = "ended" => server = "down"
  /\ server = "down" => ~overtaken /\ stopper \in {"http", "pprof", "ended"}
  /\ stopper = "http" => server = "down"
  /\ overtaken => stopper \in {"pprof", "ended"}
  /\ stopper \in {"pprof", "ended"} => overtaken \/ (server = "down" /\ (expired \/ running = {}))

(* What the exit status will tell of.                                      *)
ErrInv ==
  /\ web = "failed" \/ prof = "failed" => err # "none"
  /\ stopper \in {"http", "pprof", "ended"} => Cancelled
  /\ stopper = "ended" => profDown /\ (profiling => err # "none")

Inv == TypeOK /\ MainInv /\ ServerInv /\ ErrInv

-----------------------------------------------------------------------------
(* Four clients are opened in the six steps of the start.                  *)
LEMMA Lengths == Len(Clients) = 4 /\ Len(Steps) = 6
  BY DEF Clients, Steps

(* What the invariant says in the words of Lifecycle.                      *)
LEMMA InvImplies == Inv => TypeOK /\ EndHasCause /\ OvertakenServes
  <1> SUFFICES ASSUME Inv PROVE EndHasCause /\ OvertakenServes
    BY DEF Inv
  <1> USE Lengths DEF Inv, TypeOK, MainInv, ServerInv, Over
  <1>1. RequestsKeepClients
    <2> SUFFICES ASSUME running # {}, open < 4 \/ main = "exited"
                 PROVE  expired \/ (overtaken /\ web = "failed")
      BY DEF RequestsKeepClients
    <2>1. server # "nil"
      OBVIOUS
    <2>2. main \in {"close", "exited"} /\ {web, prof, stopper} \subseteq Over
      BY <2>1
    <2> QED BY <2>2
  <1>2. CleanExitBySignal
    BY DEF CleanExitBySignal, ErrInv, Cancelled
  <1>3. OvertakenServes
    BY DEF OvertakenServes
  <1> QED BY <1>1, <1>2, <1>3 DEF EndHasCause

LEMMA InitInv == Init => Inv
  <1> SUFFICES ASSUME Init PROVE Inv
    OBVIOUS
  <1>1. TypeOK
    <2>1. \A b \in {profiling, profDown, signalled, overtaken, expired} : b = FALSE
      BY DEF Init
    <2>2. {profiling, profDown, signalled, overtaken, expired} \subseteq BOOLEAN
      BY <2>1
    <2> QED BY <2>2, Lengths DEF Init, TypeOK
  <1>2. MainInv /\ ServerInv /\ ErrInv
    BY DEF Init, MainInv, ServerInv, ErrInv
  <1> QED BY <1>1, <1>2 DEF Inv

-----------------------------------------------------------------------------
(* The steps, by the actor that takes them.                                *)

(* A signal, the start, and what main does when the goroutines are over.   *)
LEMMA MainSteps == ASSUME Inv, Signal \/ Start \/ End PROVE Inv'
  <1> USE Lengths DEF Inv, TypeOK, MainInv, ServerInv, ErrInv, Cancelled, Over
  <1>1. CASE Signal
    BY <1>1 DEF Signal
  <1>2. CASE StartStep
    BY <1>2 DEF StartStep
  <1>3. CASE StartFails
    BY <1>3 DEF StartFails
  <1>4. CASE Spawn
    BY <1>4 DEF Spawn
  <1>5. CASE Waited
    BY <1>5 DEF Waited
  <1>6. CASE CloseClient
    BY <1>6 DEF CloseClient
  <1>7. CASE Exit
    BY <1>7 DEF Exit
  <1> QED BY <1>1, <1>2, <1>3, <1>4, <1>5, <1>6, <1>7 DEF Start, End

(* The HTTP server and its requests.                                       *)
LEMMA WebSteps ==
  ASSUME Inv, Web \/ WebFails \/ \E r \in Requests : BeginRequest(r) \/ EndRequest(r)
  PROVE  Inv'
  <1> USE DEF Inv, TypeOK, MainInv, ServerInv, ErrInv, Cancelled, Over
  <1>1. CASE StoreServer
    BY <1>1 DEF StoreServer
  <1>2. CASE Listen
    BY <1>2 DEF Listen
  <1>3. CASE WebCloses
    BY <1>3 DEF WebCloses
  <1>4. CASE WebFails
    BY <1>4 DEF WebFails, FirstError
  <1>5. ASSUME NEW r \in Requests, BeginRequest(r) PROVE Inv'
    BY <1>5 DEF BeginRequest
  <1>6. ASSUME NEW r \in Requests, EndRequest(r) PROVE Inv'
    <2>1. TypeOK'
      BY <1>6 DEF EndRequest
    <2>2. MainInv' /\ ServerInv' /\ ErrInv'
      BY <1>6 DEF EndRequest
    <2> QED BY <2>1, <2>2
  <1> QED BY <1>1, <1>2, <1>3, <1>4, <1>5, <1>6 DEF Web

(* The pprof server and its request.                                       *)
LEMMA ProfSteps == ASSUME Inv, Prof \/ ProfFails \/ Profile \/ EndProfile PROVE Inv'
  <1> USE DEF Inv, TypeOK, MainInv, ServerInv, ErrInv, Cancelled, Over
  <1>1. CASE ProfListens
    BY <1>1 DEF ProfListens
  <1>2. CASE ProfCloses
    BY <1>2 DEF ProfCloses
  <1>3. CASE ProfFails
    BY <1>3 DEF ProfFails, FirstError
  <1>4. CASE Profile
    BY <1>4 DEF Profile
  <1>5. CASE EndProfile
    <2>1. TypeOK'
      BY <1>5 DEF EndProfile
    <2>2. MainInv' /\ ServerInv' /\ ErrInv'
      BY <1>5 DEF EndProfile
    <2> QED BY <2>1, <2>2
  <1> QED BY <1>1, <1>2, <1>3, <1>4, <1>5 DEF Prof

(* The stopper.                                                            *)
LEMMA StopperSteps == ASSUME Inv, Stop PROVE Inv'
  <1> USE DEF Inv, TypeOK, MainInv, ServerInv, ErrInv, Cancelled, Over
  <1>1. CASE Shutdown
    BY <1>1 DEF Shutdown
  <1>2. CASE Drained
    BY <1>2 DEF Drained
  <1>3. CASE Timeout
    BY <1>3 DEF Timeout
  <1>4. CASE ProfShutdown
    BY <1>4 DEF ProfShutdown, FirstError
  <1> QED BY <1>1, <1>2, <1>3, <1>4 DEF Stop

LEMMA StutterInv == ASSUME Inv, UNCHANGED vars PROVE Inv'
  <1>1. TypeOK'
    BY DEF Inv, TypeOK, vars
  <1>2. MainInv' /\ ServerInv' /\ ErrInv'
    BY DEF Inv, MainInv, ServerInv, ErrInv, Cancelled, vars
  <1> QED BY <1>1, <1>2 DEF Inv

LEMMA NextInv == Inv /\ [Next]_vars => Inv'
  BY MainSteps, WebSteps, ProfSteps, StopperSteps, StutterInv DEF Next

-----------------------------------------------------------------------------
(* The invariant holds of every state the process reaches, whichever step  *)
(* of the start, server or request fails, and whenever the signal comes.   *)
THEOREM InvInvariant == Spec => []Inv
  BY InitInv, NextInv, PTL DEF Spec

(* Type correctness: no more clients are closed than were opened.          *)
THEOREM TypeCorrect == Spec => []TypeOK
  BY InvInvariant, InvImplies, PTL

(* Clients are closed under a request that runs, and a process ends with   *)
(* status 0, only for the causes the model names.                          *)
THEOREM EndsForACause == Spec => []EndHasCause
  BY InvInvariant, InvImplies, PTL

(* A process whose Shutdown found no server ends only if the HTTP server   *)
(* fails by itself.                                                        *)
THEOREM OvertakenServerServes == Spec => []OvertakenServes
  BY InvInvariant, InvImplies, PTL
=============================================================================
