--------------------------------- MODULE Egress ---------------------------------
(***************************************************************************)
(* The one door out of the environment (fren-core/sandbox-proxy.js) and    *)
(* who may open it (fren-core/index.js): the domains that enabled          *)
(* automations declare, the hosts the person trusts, and a card raised     *)
(* while the connection is held.                                           *)
(*                                                                         *)
(* The hold gives up after ninety seconds or when the client hangs up; the *)
(* card stays open for ten minutes, and Core may die under it.             *)
(***************************************************************************)
EXTENDS Naturals, FiniteSets

CONSTANTS Sessions, Zones, Conns,
          MaxCores      \* restarts of Core, with the proxy in it

ASSUME EgressBounds == MaxCores \in Nat

\* A host is a domain, or a name under it.
Sites == [zone : Zones, sub : BOOLEAN]
Domains == {h \in Sites : ~h.sub}

VARIABLES
  declared,   \* domains that enabled automations declare
  trusted,    \* egress.trusted, kept in the store
  reach,      \* the proxy's default policy
  granted,    \* session -> hosts allowed for it
  asked,      \* session -> hosts it was asked about, in this life of Core
  here,       \* somebody is in a chat
  cards,      \* open cards, and whether their promise is of this life
  held,       \* connection -> what it waits for, or is
  said,       \* hosts the person answered "always" for
  cores

egressVars == <<declared, trusted, reach, granted, asked, here, cards, held, said, cores>>

Idle == [at |-> "idle"]
Line(at, s, h) == [at |-> at, s |-> s, h |-> h]
Card(s, h, live) == [s |-> s, h |-> h, live |-> live]

EgressTypeOK ==
  /\ declared \subseteq Domains /\ trusted \subseteq Sites /\ reach \subseteq Sites
  /\ granted \in [Sessions -> SUBSET Sites] /\ asked \in [Sessions -> SUBSET Sites]
  /\ here \in BOOLEAN /\ cards \subseteq [s : Sessions, h : Sites, live : BOOLEAN]
  /\ held \in [Conns -> {Idle} \union [at : {"held", "open"}, s : Sessions, h : Sites]]
  /\ said \subseteq Sites /\ cores \in 0..MaxCores

EgressInit ==
  /\ declared \in SUBSET Domains /\ trusted = {} /\ reach = declared
  /\ granted = [s \in Sessions |-> {}] /\ asked = [s \in Sessions |-> {}]
  /\ here = FALSE /\ cards = {} /\ held = [c \in Conns |-> Idle]
  /\ said = {} /\ cores = 0

(***************************************************************************)
(* The policy.                                                             *)
(***************************************************************************)

\* The domain itself, or anything below it.
Under(h, d) == h = d \/ (~d.sub /\ h.zone = d.zone)

\* egressAllowed: the grants of the session first, then the policy.
Allowed(s, h) == \E d \in granted[s] \union reach : Under(h, d)

\* pushEgress, when it forgets who was trusted.
PushDeclared == reach' = declared'

\* pushEgress: what automations declare and what the person trusts.
Push == reach' = declared' \union trusted'

\* An automation is created, changed, switched or removed.
Declare ==
  /\ declared' \in SUBSET Domains /\ declared' # declared
  /\ UNCHANGED <<trusted, granted, asked, here, cards, held, said, cores>>
  /\ Push

\* The runtime paused one: the row changes, and nothing is pushed.
PausedByRuntime ==
  /\ \E d \in declared : declared' = declared \ {d}
  /\ UNCHANGED <<trusted, reach, granted, asked, here, cards, held, said, cores>>

(***************************************************************************)
(* A connection.                                                           *)
(***************************************************************************)

\* CONNECT, from a session that showed its credential: let through, refused, or
\* held while a card asks -- never twice for a host, and never an empty room.
Connect(c, s, h) ==
  /\ held[c] = Idle
  /\ IF Allowed(s, h)
     THEN held' = [held EXCEPT ![c] = Line("open", s, h)] /\ UNCHANGED <<asked, cards>>
     ELSE /\ here /\ h \notin asked[s]
          /\ asked' = [asked EXCEPT ![s] = @ \union {h}]
          /\ cards' = cards \union {Card(s, h, TRUE)}
          /\ held' = [held EXCEPT ![c] = Line("held", s, h)]
  /\ UNCHANGED <<declared, trusted, reach, granted, here, said, cores>>

\* Plain HTTP is not held: it is relayed at once, or refused.
Forward(c, s, h) ==
  /\ held[c] = Idle /\ Allowed(s, h)
  /\ held' = [held EXCEPT ![c] = Line("open", s, h)]
  /\ UNCHANGED <<declared, trusted, reach, granted, asked, here, cards, said, cores>>

\* Ninety seconds, or the client hangs up; an open one is closed by either end.
GivesUp(c) ==
  /\ held[c] # Idle /\ held' = [held EXCEPT ![c] = Idle]
  /\ UNCHANGED <<declared, trusted, reach, granted, asked, here, cards, said, cores>>

\* An answer that lets through whoever waits for the host.
SettleByHost(s, h, ok) ==
  held' = [c \in Conns |-> IF held[c].at = "held" /\ held[c].h = h
                           THEN IF ok THEN [held[c] EXCEPT !.at = "open"] ELSE Idle
                           ELSE held[c]]

\* An answer that tells nobody.
SettleNobody(s, h, ok) == UNCHANGED held

\* What the answer does to the line held for it, if there still is one.
Settle(s, h, ok) ==
  held' = [c \in Conns |-> IF held[c] = Line("held", s, h)
                           THEN IF ok THEN Line("open", s, h) ELSE Idle
                           ELSE held[c]]

\* A yes whose promise is of an earlier life reaches no one.
Answer(k, yes) ==
  /\ k \in cards /\ cards' = cards \ {k}
  /\ said' = IF yes = "always" THEN said \union {k.h} ELSE said
  /\ IF k.live
     THEN /\ Settle(k.s, k.h, TRUE) /\ UNCHANGED declared
          /\ IF yes = "always"
             THEN trusted' = trusted \union {k.h} /\ Push /\ UNCHANGED granted
             ELSE /\ granted' = [granted EXCEPT ![k.s] = @ \union {k.h}]
                  /\ UNCHANGED <<trusted, reach>>
     ELSE UNCHANGED <<declared, trusted, reach, granted, held>>
  /\ UNCHANGED <<asked, here, cores>>

\* No, ten minutes, or the runtime is gone.
Denied(k) ==
  /\ k \in cards /\ cards' = cards \ {k}
  /\ IF k.live THEN Settle(k.s, k.h, FALSE) ELSE UNCHANGED held
  /\ UNCHANGED <<declared, trusted, reach, granted, asked, here, said, cores>>

Presence ==
  /\ here' = ~here
  /\ UNCHANGED <<declared, trusted, reach, granted, asked, cards, held, said, cores>>

\* The gateway dies and is started again: the store, and its cards, remain.
CoreAgain ==
  /\ cores < MaxCores /\ cores' = cores + 1
  /\ granted' = [s \in Sessions |-> {}] /\ asked' = [s \in Sessions |-> {}]
  /\ held' = [c \in Conns |-> Idle] /\ here' = FALSE
  /\ cards' = {[k EXCEPT !.live = FALSE] : k \in cards}
  /\ UNCHANGED <<declared, trusted, said>> /\ Push

EgressNext ==
  \/ Declare \/ PausedByRuntime \/ Presence \/ CoreAgain
  \/ \E c \in Conns : \/ GivesUp(c)
                      \/ \E s \in Sessions, h \in Sites : Connect(c, s, h) \/ Forward(c, s, h)
  \/ \E k \in cards : Denied(k) \/ \E yes \in {"once", "always"} : Answer(k, yes)

EgressSpec == EgressInit /\ [][EgressNext]_egressVars

(***************************************************************************)
(* Properties                                                              *)
(***************************************************************************)

\* Nothing leaves that may not: a line opens only to a host its own session was
\* allowed to reach by then, whatever it was held for and however late the yes.
OpensAllowed ==
  [][\A c \in Conns : /\ held'[c].at = "open" /\ held[c] # held'[c]
                      => \E d \in granted'[held'[c].s] \union reach' : Under(held'[c].h, d)]_egressVars

\* What the person trusts stays reachable, whichever automation changes next and
\* whenever Core comes back.
TrustHolds == trusted \subseteq reach

\* Every line that is held has a card somebody can still answer.
HeldHasACard ==
  \A c \in Conns : held[c].at = "held" => Card(held[c].s, held[c].h, TRUE) \in cards

\* "On yes, record the grant (... "always" persisted)": a host the person said yes to for
\* always is one they trust. Violated: the yes is recorded by whoever waits for it in
\* askEgress, and a card that outlived its Core has nobody (fren-core/index.js).
YesIsKept == said \subseteq trusted

\* "Pushed to the sandbox proxy after any change": what may be reached is what is declared
\* or trusted now. Violated: a pause by the runtime pushes nothing (automations.js).
ReachIsDeclared == reach \subseteq declared \union trusted
=============================================================================
