--------------------------------- MODULE Launch ---------------------------------
(***************************************************************************)
(* Who runs the gateway, and what it has been told: the app launches it,   *)
(* revives it and takes it along (main/gateway-process.js, checkHealth);   *)
(* the gateway watches the app that launched it (gateway/server.js).  An   *)
(* app that opens may find the gateway of its previous life answering.     *)
(***************************************************************************)
EXTENDS Naturals, FiniteSets

CONSTANTS MaxLives,      \* launches of the app
          MaxDeaths,    \* crashes of gateways, and kills of the app
          MaxChoices,    \* times the person chooses a model
          Slots          \* processes, reused

Models == 0..MaxChoices      \* 0 is the default, and what a new gateway has heard

ASSUME LaunchBounds == {MaxLives, MaxDeaths, MaxChoices} \subseteq Nat /\ Slots # {}

VARIABLES
  up,         \* the app runs
  life,       \* which of its lives
  gate,       \* the gateway processes
  launched,      \* the slot of the gateway this life launched, or "none"
  reviving,   \* "no", or where reviveGateway is: "asks", "waits"
  healthy,         \* gatewayOk
  chosen,     \* the model in the app's database
  tells,      \* setRuntimeModel requests on their way
  broken      \* crashes and kills so far

launchVars == <<up, life, gate, launched, reviving, healthy, chosen, tells, broken>>

None == [there |-> FALSE, port |-> FALSE, ends |-> FALSE, of |-> 0, told |-> 0]
Born == [None EXCEPT !.there = TRUE, !.of = life]
Ports(g) == gate[g].port
Answers == \E g \in Slots : Ports(g)
Alive(g) == gate[g].there
LaunchedBy(g) == up /\ gate[g].of = life

LaunchTypeOK ==
  /\ {up, healthy} \subseteq BOOLEAN /\ life \in 0..MaxLives
  /\ gate \in [Slots -> [there : BOOLEAN, port : BOOLEAN, ends : BOOLEAN,
                       of : 0..MaxLives, told : Models]]
  /\ launched \in Slots \union {"none"} /\ reviving \in {"no", "asks", "waits"}
  /\ chosen \in Models /\ tells \subseteq Models /\ broken \in 0..MaxDeaths
  /\ Cardinality({g \in Slots : Ports(g)}) <= 1

LaunchInit ==
  /\ up = FALSE /\ life = 0 /\ gate = [g \in Slots |-> None] /\ launched = "none"
  /\ reviving = "no" /\ healthy = FALSE /\ chosen = 0 /\ tells = {} /\ broken = 0

(***************************************************************************)
(* The app                                                                 *)
(***************************************************************************)
OpenApp ==
  /\ ~up /\ life < MaxLives /\ up' = TRUE /\ life' = life + 1
  /\ launched' = "none" /\ reviving' = "no" /\ healthy' = FALSE /\ tells' = {}
  /\ UNCHANGED <<gate, chosen, broken>>

\* before-quit: the gateway is asked to end, if it is ours.
QuitApp ==
  /\ up /\ up' = FALSE /\ tells' = {} /\ reviving' = "no" /\ healthy' = FALSE /\ launched' = "none"
  /\ gate' = IF launched = "none" THEN gate ELSE [gate EXCEPT ![launched].ends = TRUE]
  /\ UNCHANGED <<life, chosen, broken>>

KillApp ==
  /\ up /\ broken < MaxDeaths /\ broken' = broken + 1 /\ up' = FALSE
  /\ tells' = {} /\ reviving' = "no" /\ healthy' = FALSE /\ launched' = "none"
  /\ UNCHANGED <<life, gate, chosen>>

\* The gateway that answers /health, and what it says it was told.
Told == gate[CHOOSE g \in Slots : Ports(g)].told

\* A health check that asks nobody to come back.
BeatsOnly ==
  /\ up /\ healthy' = Answers
  /\ tells' = IF Answers /\ Told # chosen THEN tells \union {chosen} ELSE tells
  /\ UNCHANGED <<up, life, gate, launched, reviving, chosen, broken>>

\* A health check that believes what it once said.
BeatsTrusting ==
  /\ up /\ healthy' = Answers
  /\ reviving' = IF Answers \/ reviving # "no" THEN reviving ELSE "asks"
  /\ UNCHANGED <<up, life, gate, launched, tells, chosen, broken>>

\* checkHealth, every 30 s: what the gateway has not heard is said again, and one
\* that does not answer is revived, one attempt at a time.
Beat ==
  /\ up /\ healthy' = Answers
  /\ tells' = IF Answers /\ Told # chosen THEN tells \union {chosen} ELSE tells
  /\ reviving' = IF Answers \/ reviving # "no" THEN reviving ELSE "asks"
  /\ UNCHANGED <<up, life, gate, launched, chosen, broken>>

\* ensureGateway: somebody's is running; or ours is started, unless ours is there.
Ensure ==
  /\ reviving = "asks"
  /\ \/ Answers /\ reviving' = "no" /\ UNCHANGED <<gate, launched>>
     \/ ~Answers /\ launched # "none" /\ reviving' = "waits" /\ UNCHANGED <<gate, launched>>
     \/ /\ ~Answers /\ launched = "none" /\ reviving' = "waits"
        /\ \E g \in Slots : /\ ~Alive(g) /\ launched' = g
                            /\ gate' = [gate EXCEPT ![g] = Born]
  /\ UNCHANGED <<up, life, healthy, chosen, tells, broken>>

\* It is up; or it did not come up in time, and the next beat asks again.
Poll ==
  /\ reviving = "waits" /\ reviving' = "no"
  /\ healthy' = (Answers \/ healthy)
  /\ UNCHANGED <<up, life, gate, launched, chosen, tells, broken>>

\* setProviders.
Choose(m) ==
  /\ up /\ m = chosen + 1 /\ chosen' = m /\ tells' = tells \union {m}
  /\ UNCHANGED <<up, life, gate, launched, reviving, healthy, broken>>

(***************************************************************************)
(* The gateway                                                             *)
(***************************************************************************)

\* The process ends: 'exit' clears the child that it was.
GatewayEnds(g) ==
  /\ gate' = [gate EXCEPT ![g] = None] /\ launched' = IF launched = g THEN "none" ELSE launched

\* The port is somebody else's: the process does not survive that.
Listen(g) ==
  /\ Alive(g) /\ ~Ports(g)
  /\ IF Answers THEN GatewayEnds(g) ELSE gate' = [gate EXCEPT ![g].port = TRUE] /\ UNCHANGED launched
  /\ UNCHANGED <<up, life, reviving, healthy, chosen, tells, broken>>

\* A watch that takes any running app for the one that launched it.
WatchesAnyApp(g) ==
  /\ Alive(g) /\ ~gate[g].ends /\ ~up
  /\ gate' = [gate EXCEPT ![g].ends = TRUE]
  /\ UNCHANGED <<up, life, launched, reviving, healthy, chosen, tells, broken>>

\* The app that launched it is gone, however it went.
Watch(g) ==
  /\ Alive(g) /\ ~gate[g].ends /\ ~LaunchedBy(g)
  /\ gate' = [gate EXCEPT ![g].ends = TRUE]
  /\ UNCHANGED <<up, life, launched, reviving, healthy, chosen, tells, broken>>

\* Core has stopped, and the process exits.
Exit(g) ==
  /\ gate[g].ends /\ GatewayEnds(g)
  /\ UNCHANGED <<up, life, reviving, healthy, chosen, tells, broken>>

CrashGateway(g) ==
  /\ Alive(g) /\ broken < MaxDeaths /\ broken' = broken + 1 /\ GatewayEnds(g)
  /\ UNCHANGED <<up, life, reviving, healthy, chosen, tells>>

\* /v1/runtime/model, in whatever order the requests arrive.
Hear(m) ==
  /\ m \in tells /\ tells' = tells \ {m}
  /\ gate' = [g \in Slots |-> IF Ports(g) THEN [gate[g] EXCEPT !.told = m] ELSE gate[g]]
  /\ UNCHANGED <<up, life, launched, reviving, healthy, chosen, broken>>

LaunchNext ==
  \/ OpenApp \/ QuitApp \/ KillApp \/ Beat \/ Ensure \/ Poll
  \/ \E m \in Models : Choose(m) \/ Hear(m)
  \/ \E g \in Slots : Listen(g) \/ Watch(g) \/ Exit(g) \/ CrashGateway(g)

LaunchFair ==
  /\ WF_launchVars(Beat) /\ WF_launchVars(Ensure) /\ WF_launchVars(Poll)
  /\ \A m \in Models : WF_launchVars(Hear(m))
  /\ \A g \in Slots : WF_launchVars(Listen(g)) /\ WF_launchVars(Watch(g)) /\ WF_launchVars(Exit(g))

LaunchSpec == LaunchInit /\ [][LaunchNext]_launchVars /\ LaunchFair

(***************************************************************************)
(* Properties                                                              *)
(***************************************************************************)

\* As long as the app runs it gets back to a gateway that answers and has heard the
\* chosen model, also when the one it found was the previous life's and about to
\* exit (gateway-process.js:96-106), and whatever crashed.
ThinksAgain ==
  []<>(~up \/ (healthy /\ \E g \in Slots : Ports(g) /\ ~gate[g].ends /\ gate[g].told = chosen))

\* "If it goes away, even a hard kill that skips its own teardown, we go too": no
\* gateway outlives the life that launched it for good: again and again there is none
\* that does (server.js:699-708).
NoneLeftBehind == []<>(\A g \in Slots : Alive(g) => LaunchedBy(g))
=================================================================================
