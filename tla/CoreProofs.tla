----------------------------- MODULE CoreProofs -----------------------------
(***************************************************************************)
(* Theorems about what stands around Core, for every value of the          *)
(* constants: what leaves the environment and what an agent may do was     *)
(* allowed (Egress, Policy), the store is whole after whatever cut its     *)
(* work short (Store), a schedule's next time is the first that matches    *)
(* (Cron), and every fire of the host is told of exactly once, as a run,   *)
(* a miss or a letter (FireWatch).                                         *)
(***************************************************************************)
EXTENDS MCCore, FiniteSetTheorems, TLAPS

(***************************************************************************)
(* The door                                                                *)
(***************************************************************************)
EgressInv == EgressTypeOK /\ TrustHolds /\ HeldHasACard

LEMMA EgressStarts == EgressInit => EgressInv
<1> SUFFICES ASSUME EgressInit PROVE EgressInv
  OBVIOUS
<1>1. \A c \in Conns : held[c] = Idle /\ held[c].at = "idle"
  BY DEF EgressInit, Idle
<1>2. held \in [Conns -> {Idle} \union [at : {"held", "open"}, s : Sessions, h : Sites]]
  BY DEF EgressInit
<1>3. declared \subseteq Domains /\ reach \subseteq Sites
  BY DEF EgressInit, Domains
<1>4. cores \in 0..MaxCores
  BY EgressBounds DEF EgressInit
<1>7. here \in BOOLEAN
  BY Zenon DEF EgressInit
<1>5. granted \in [Sessions -> SUBSET Sites] /\ asked \in [Sessions -> SUBSET Sites]
  BY DEF EgressInit
<1>6. EgressTypeOK
  BY <1>2, <1>3, <1>4, <1>5, <1>7 DEF EgressInit, EgressTypeOK
<1> QED
  BY <1>1, <1>6 DEF EgressInit, EgressInv, TrustHolds, HeldHasACard

(* An answer settles the lines of its own card, and no other.              *)
LEMMA SettleKeeps ==
  ASSUME EgressInv, NEW s \in Sessions, NEW h \in Sites, NEW ok \in BOOLEAN, Settle(s, h, ok),
         cards' = cards \ {Card(s, h, TRUE)}
  PROVE  /\ held' \in [Conns -> {Idle} \union [at : {"held", "open"}, s : Sessions, h : Sites]]
         /\ HeldHasACard'
<1>1. held' \in [Conns -> {Idle} \union [at : {"held", "open"}, s : Sessions, h : Sites]]
  BY DEF EgressInv, EgressTypeOK, Settle, Idle, Line
<1>2. ASSUME NEW c \in Conns, held'[c].at = "held" PROVE Card(held'[c].s, held'[c].h, TRUE) \in cards'
  <2>1. held'[c] = held[c] /\ held[c] # Line("held", s, h)
    BY <1>2 DEF EgressInv, EgressTypeOK, Settle, Idle, Line
  <2>2. held[c] \in [at : {"held", "open"}, s : Sessions, h : Sites]
    BY <1>2, <2>1 DEF EgressInv, EgressTypeOK, Idle
  <2>3. held[c].s # s \/ held[c].h # h
    BY <1>2, <2>1, <2>2 DEF Line
  <2> QED
    BY <1>2, <2>1, <2>3 DEF EgressInv, HeldHasACard, Card
<1> QED
  BY <1>1, <1>2 DEF HeldHasACard

LEMMA EgressKeeps == EgressInv /\ EgressNext => EgressInv'
<1> SUFFICES ASSUME EgressInv, EgressNext PROVE EgressInv'
  OBVIOUS
<1> USE EgressBounds DEF EgressInv
<1>1. CASE Declare
  BY <1>1 DEF Declare, Push, EgressTypeOK, TrustHolds, HeldHasACard, Domains
<1>2. CASE PausedByRuntime
  BY <1>2 DEF PausedByRuntime, EgressTypeOK, TrustHolds, HeldHasACard
<1>3. CASE Presence
  BY <1>3 DEF Presence, EgressTypeOK, TrustHolds, HeldHasACard
<1>4. CASE CoreAgain
  <2>1. EgressTypeOK'
    <3>1. held' \in [Conns -> {Idle} \union [at : {"held", "open"}, s : Sessions, h : Sites]]
      BY <1>4 DEF CoreAgain
    <3>2. cards' \subseteq [s : Sessions, h : Sites, live : BOOLEAN]
      BY <1>4 DEF CoreAgain, EgressTypeOK
    <3>3. granted' \in [Sessions -> SUBSET Sites] /\ asked' \in [Sessions -> SUBSET Sites]
      BY <1>4 DEF CoreAgain
    <3>4. reach' \subseteq Sites
      BY <1>4 DEF CoreAgain, Push, EgressTypeOK, Domains
    <3>5. cores' \in 0..MaxCores
      BY <1>4 DEF CoreAgain, EgressTypeOK
    <3>6. here' \in BOOLEAN
      BY <1>4, Zenon DEF CoreAgain
    <3> QED
      BY <1>4, <3>1, <3>2, <3>3, <3>4, <3>5, <3>6 DEF CoreAgain, EgressTypeOK
  <2>2. TrustHolds' /\ HeldHasACard'
    BY <1>4 DEF CoreAgain, Push, TrustHolds, HeldHasACard, Idle
  <2> QED
    BY <2>1, <2>2
<1>5. ASSUME NEW c \in Conns, GivesUp(c) PROVE EgressInv'
  BY <1>5 DEF GivesUp, EgressTypeOK, TrustHolds, HeldHasACard, Idle
<1>6. ASSUME NEW c \in Conns, NEW s \in Sessions, NEW h \in Sites, Connect(c, s, h) PROVE EgressInv'
  <2>1. EgressTypeOK'
    <3>1. {Line("open", s, h), Line("held", s, h)} \subseteq [at : {"held", "open"}, s : Sessions, h : Sites]
      BY DEF Line
    <3>2. held' = [held EXCEPT ![c] = Line("open", s, h)] \/ held' = [held EXCEPT ![c] = Line("held", s, h)]
      BY <1>6 DEF Connect
    <3>3. held' \in [Conns -> {Idle} \union [at : {"held", "open"}, s : Sessions, h : Sites]]
      BY <3>1, <3>2 DEF EgressTypeOK
    <3>4. cards' = cards \/ cards' = cards \union {Card(s, h, TRUE)}
      BY <1>6 DEF Connect
    <3>5. Card(s, h, TRUE) \in [s : Sessions, h : Sites, live : BOOLEAN]
      BY Zenon DEF Card
    <3>6. cards' \subseteq [s : Sessions, h : Sites, live : BOOLEAN]
      BY <3>4, <3>5 DEF EgressTypeOK
    <3>7. asked' = asked \/ asked' = [asked EXCEPT ![s] = asked[s] \union {h}]
      BY <1>6 DEF Connect
    <3>8. asked' \in [Sessions -> SUBSET Sites]
      BY <3>7 DEF EgressTypeOK
    <3> QED
      BY <1>6, <3>3, <3>6, <3>8 DEF Connect, EgressTypeOK
  <2>2. HeldHasACard'
    BY <1>6 DEF Connect, EgressTypeOK, HeldHasACard, Line, Card
  <2> QED
    BY <1>6, <2>1, <2>2 DEF Connect, TrustHolds
<1>7. ASSUME NEW c \in Conns, NEW s \in Sessions, NEW h \in Sites, Forward(c, s, h) PROVE EgressInv'
  BY <1>7 DEF Forward, EgressTypeOK, TrustHolds, HeldHasACard, Line
<1>8. ASSUME NEW k \in cards, Denied(k) PROVE EgressInv'
  <2>1. k \in [s : Sessions, h : Sites, live : BOOLEAN] /\ k = Card(k.s, k.h, k.live)
    BY DEF EgressTypeOK, Card
  <2>2. CASE k.live
    BY <1>8, <2>1, <2>2, SettleKeeps DEF Denied, EgressTypeOK, TrustHolds
  <2>3. CASE ~k.live
    BY <1>8, <2>1, <2>3 DEF Denied, EgressTypeOK, TrustHolds, HeldHasACard, Card
  <2> QED
    BY <2>2, <2>3
<1>9. ASSUME NEW k \in cards, NEW yes \in {"once", "always"}, Answer(k, yes) PROVE EgressInv'
  <2>1. k \in [s : Sessions, h : Sites, live : BOOLEAN] /\ k = Card(k.s, k.h, k.live)
    BY DEF EgressTypeOK, Card
  <2>2. CASE k.live
    <3>1. HeldHasACard' /\ held' \in [Conns -> {Idle} \union [at : {"held", "open"}, s : Sessions, h : Sites]]
      BY <1>9, <2>1, <2>2, SettleKeeps DEF Answer
    <3>2. EgressTypeOK'
      BY <1>9, <2>1, <2>2, <3>1 DEF Answer, Push, EgressTypeOK, Domains
    <3>3. TrustHolds'
      BY <1>9, <2>2 DEF Answer, Push, TrustHolds
    <3> QED
      BY <3>1, <3>2, <3>3
  <2>3. CASE ~k.live
    BY <1>9, <2>1, <2>3 DEF Answer, EgressTypeOK, TrustHolds, HeldHasACard, Card
  <2> QED
    BY <2>2, <2>3
<1> QED
  BY <1>1, <1>2, <1>3, <1>4, <1>5, <1>6, <1>7, <1>8, <1>9 DEF EgressNext

LEMMA EgressStays == EgressInv /\ UNCHANGED egressVars => EgressInv'
  BY DEF EgressInv, EgressTypeOK, TrustHolds, HeldHasACard, egressVars

(* Each step that opens a line opens it to a host that may be reached.     *)
LEMMA OpensWell ==
  ASSUME EgressInv, EgressNext, NEW c \in Conns, held'[c].at = "open", held[c] # held'[c]
  PROVE  \E d \in granted'[held'[c].s] \union reach' : Under(held'[c].h, d)
<1> USE DEF EgressInv
<1>1. ASSUME Declare \/ PausedByRuntime \/ Presence \/ CoreAgain PROVE FALSE
  BY <1>1 DEF Declare, PausedByRuntime, Presence, CoreAgain, Idle
<1>2. ASSUME NEW b \in Conns, GivesUp(b) PROVE FALSE
  BY <1>2 DEF GivesUp, Idle, EgressTypeOK
<1>3. ASSUME NEW b \in Conns, NEW s \in Sessions, NEW h \in Sites, Connect(b, s, h) \/ Forward(b, s, h)
      PROVE  \E d \in granted'[held'[c].s] \union reach' : Under(held'[c].h, d)
  <2>1. Allowed(s, h) /\ held' = [held EXCEPT ![b] = Line("open", s, h)]
    <3>1. ASSUME held' = [held EXCEPT ![b] = Line("held", s, h)] PROVE FALSE
      <4>1. c = b
        BY <3>1 DEF EgressTypeOK
      <4>2. held'[c] = Line("held", s, h)
        BY <3>1, <4>1 DEF EgressTypeOK
      <4> QED
        BY <4>2 DEF Line
    <3> QED
      BY <1>3, <3>1 DEF Connect, Forward
  <2>2. b = c /\ held'[c] = Line("open", s, h)
    BY <2>1 DEF EgressTypeOK
  <2>3. granted' = granted /\ reach' = reach
    BY <1>3 DEF Connect, Forward
  <2> QED
    BY <2>1, <2>2, <2>3 DEF Allowed, Line
<1>4. ASSUME NEW k \in cards, Denied(k) PROVE FALSE
  BY <1>4 DEF Denied, Settle, EgressTypeOK, Idle
<1>5. ASSUME NEW k \in cards, NEW yes \in {"once", "always"}, Answer(k, yes)
      PROVE  \E d \in granted'[held'[c].s] \union reach' : Under(held'[c].h, d)
  <2>1. k.live /\ held'[c] = Line("open", k.s, k.h)
    BY <1>5 DEF Answer, Settle, EgressTypeOK, Idle
  <2>2. CASE yes = "always"
    <3>1. k.h \in reach'
      BY <1>5, <2>1, <2>2 DEF Answer, Push
    <3> QED
      BY <2>1, <3>1 DEF Under, Line
  <2>3. CASE yes # "always"
    <3>1. granted' = [granted EXCEPT ![k.s] = @ \union {k.h}] /\ k.s \in Sessions
      BY <1>5, <2>1, <2>3 DEF Answer, EgressTypeOK
    <3>2. k.h \in granted'[k.s]
      BY <3>1 DEF EgressTypeOK
    <3> QED
      BY <2>1, <3>2 DEF Under, Line
  <2> QED
    BY <2>2, <2>3
<1> QED
  BY <1>1, <1>2, <1>3, <1>4, <1>5 DEF EgressNext

(***************************************************************************)
(* The policy                                                              *)
(***************************************************************************)
(* The scope of an action is one its name has words of, and of those the   *)
(* first in the order.                                                     *)
LEMMA ScopeIsFirst ==
  ASSUME NEW name \in SUBSET Known, name # {}
  PROVE  \E i \in 1..Len(Order) : /\ ScopeOf(name) = Order[i] /\ Order[i] \in name
                                 /\ \A j \in 1..(i - 1) : Order[j] \notin name
<1> DEFINE First(i) == Order[i] \in name /\ \A j \in 1..(i - 1) : Order[j] \notin name
<1>1. Len(Order) = 5
  BY DEF Order
<1>2. \E i \in 1..5 : Order[i] \in name
  BY <1>1 DEF Known
<1>3. \E i \in 1..5 : First(i)
  <2>1. CASE Order[1] \in name
    BY <2>1
  <2>2. CASE Order[1] \notin name /\ Order[2] \in name
    BY <2>2
  <2>3. CASE Order[1] \notin name /\ Order[2] \notin name /\ Order[3] \in name
    BY <2>3
  <2>4. CASE Order[1] \notin name /\ Order[2] \notin name /\ Order[3] \notin name /\ Order[4] \in name
    BY <2>4
  <2>5. CASE Order[1] \notin name /\ Order[2] \notin name /\ Order[3] \notin name /\ Order[4] \notin name
             /\ Order[5] \in name
    BY <2>5
  <2> QED
    BY <1>2, <2>1, <2>2, <2>3, <2>4, <2>5
<1>4. First(CHOOSE i \in 1..5 : First(i)) /\ (CHOOSE i \in 1..5 : First(i)) \in 1..5
  BY <1>3
<1> QED
  BY <1>1, <1>4 DEF ScopeOf

PolInv ==
  /\ mayDo \in [Chores -> SUBSET Known] /\ sessionGrants \in [Talkers -> SUBSET Known]
  /\ openAsks \subseteq Actions
  /\ \A t \in Talkers : \A s \in sessionGrants[t] : <<t, s>> \in allowedFor
  /\ LetThroughIsGranted /\ SelfChangesAreAsked

(* What decide lets through was granted under the scope it decides by.     *)
LEMMA AllowIsGranted ==
  ASSUME PolInv, NEW a \in Actions, Decide(a) = "ALLOW"
  PROVE  /\ \/ a.name = {"network.request"}
            \/ \E s \in a.name : s \in GrantsOf(mayDo, a.chore) \/ <<a.talk, s>> \in allowedFor
         /\ "runtime.self_modify" \in a.name =>
              \/ "runtime.self_modify" \in GrantsOf(mayDo, a.chore)
              \/ <<a.talk, "runtime.self_modify">> \in allowedFor
<1>1. a.name \in SUBSET Known
  BY PolicyConstants DEF Actions
<1>2. a.name # {}
  BY DEF Decide, ScopeOf
<1>3. PICK i \in 1..Len(Order) : /\ ScopeOf(a.name) = Order[i] /\ Order[i] \in a.name
                                 /\ \A j \in 1..(i - 1) : Order[j] \notin a.name
  BY <1>1, <1>2, ScopeIsFirst
<1>4. \A s \in GrantsOf(sessionGrants, a.talk) : <<a.talk, s>> \in allowedFor
  BY DEF PolInv, GrantsOf
<1>5. \/ Order[i] \in GrantsOf(mayDo, a.chore) \/ <<a.talk, Order[i]>> \in allowedFor
      \/ Order[i] = "network.request"
  BY <1>3, <1>4 DEF Decide
<1>6. Order[i] = "network.request" => a.name = {"network.request"}
  BY <1>1, <1>3 DEF Order, Known
<1>7. "runtime.self_modify" \in a.name => Order[i] = "runtime.self_modify"
  BY <1>3 DEF Order
<1>8. Order[i] = "runtime.self_modify" => Order[i] # "network.request"
  OBVIOUS
<1> QED
  BY <1>3, <1>5, <1>6, <1>7, <1>8

LEMMA PolStarts == PolInit => PolInv
  BY DEF PolInit, PolInv, NoVerdict, LetThroughIsGranted, SelfChangesAreAsked

LEMMA PolKeeps == PolInv /\ PolNext => PolInv'
<1> SUFFICES ASSUME PolInv, PolNext PROVE PolInv'
  OBVIOUS
<1>1. ASSUME NEW a \in Actions, AgentActs(a) PROVE PolInv'
  <2>1. UNCHANGED <<mayDo, sessionGrants, allowedFor>> /\ openAsks' \subseteq Actions
    BY <1>1 DEF AgentActs, PolInv
  <2>2. verdict'.of = a /\ verdict'.out = Decide(a) /\ verdict'.had = GrantsOf(mayDo, a.chore)
    BY <1>1 DEF AgentActs
  <2>3. LetThroughIsGranted' /\ SelfChangesAreAsked'
    BY <2>1, <2>2, AllowIsGranted DEF LetThroughIsGranted, SelfChangesAreAsked
  <2> QED
    BY <2>1, <2>3 DEF PolInv
<1>2. ASSUME NEW a \in openAsks, NEW yes \in BOOLEAN, NEW r \in {"once", "session"}, CardAnswered(a, yes, r)
      PROVE  PolInv'
  <2>1. openAsks' \subseteq Actions /\ UNCHANGED <<mayDo, verdict>> /\ allowedFor \subseteq allowedFor'
    BY <1>2 DEF CardAnswered, PolInv
  <2>2. LetThroughIsGranted' /\ SelfChangesAreAsked'
    BY <2>1 DEF PolInv, LetThroughIsGranted, SelfChangesAreAsked
  <2>3. CASE UNCHANGED <<sessionGrants, allowedFor>>
    BY <2>1, <2>2, <2>3 DEF PolInv
  <2>4. CASE ~UNCHANGED <<sessionGrants, allowedFor>>
    <3>1. /\ a.talk # NoOne /\ ScopeOf(a.name) # "unknown"
          /\ sessionGrants' = [sessionGrants EXCEPT ![a.talk] = @ \union {ScopeOf(a.name)}]
          /\ allowedFor' = allowedFor \union {<<a.talk, ScopeOf(a.name)>>}
      BY <1>2, <2>4 DEF CardAnswered
    <3>2. a \in Actions /\ a.talk \in Talkers /\ a.name \in SUBSET Known
      BY <3>1, PolicyConstants DEF PolInv, Actions
    <3>3. ScopeOf(a.name) \in Known
      BY <3>1, <3>2, ScopeIsFirst DEF ScopeOf
    <3>4. sessionGrants' \in [Talkers -> SUBSET Known]
      BY <3>1, <3>2, <3>3 DEF PolInv
    <3>5. \A t \in Talkers : \A s \in sessionGrants'[t] : <<t, s>> \in allowedFor'
      BY <3>1, <3>2 DEF PolInv
    <3> QED
      BY <2>1, <2>2, <3>4, <3>5 DEF PolInv
  <2> QED
    BY <2>3, <2>4
<1>3. ASSUME NEW c \in Chores, NEW S \in {{}, {"runtime.schedule"}}, ChoreChanges(c, S) PROVE PolInv'
  <2>1. S \subseteq Known
    BY DEF Known, Order
  <2> QED
    BY <1>3, <2>1 DEF ChoreChanges, PolInv, LetThroughIsGranted, SelfChangesAreAsked
<1>4. ASSUME GrantsLapse PROVE PolInv'
  BY <1>4 DEF GrantsLapse, PolInv, NoVerdict, LetThroughIsGranted, SelfChangesAreAsked
<1> QED
  BY <1>1, <1>2, <1>3, <1>4 DEF PolNext

(***************************************************************************)
(* Both, whatever else is going on                                         *)
(***************************************************************************)
GrantsInv == EgressInv /\ PolInv

LEMMA GrantsStart == CoreInit => GrantsInv
  BY EgressStarts, PolStarts DEF CoreInit, GrantsInv

(* Every other part leaves them alone.                                     *)
LEMMA GrantsStep ==
  ASSUME [CoreNext]_coreAll
  PROVE  (EgressNext \/ UNCHANGED egressVars) /\ (PolNext \/ UNCHANGED polVars)
<1>1. CASE OfEgress
  BY <1>1 DEF OfEgress
<1>2. CASE OfPolicy
  BY <1>2 DEF OfPolicy, coreRest
<1>3. CASE OfLife \/ OfMock \/ OfLaunch \/ OfTools \/ OfFires \/ OfFiring \/ OfProvision
  BY <1>3 DEF OfLife, OfMock, OfLaunch, OfTools, OfFires, OfFiring, OfProvision
<1>4. CASE OfCron \/ OfStore
  BY <1>4 DEF OfCron, OfStore, coreRest
<1>5. CASE UNCHANGED coreAll
  BY <1>5 DEF coreAll
<1> QED
  BY <1>1, <1>2, <1>3, <1>4, <1>5 DEF CoreNext

LEMMA GrantsStay == GrantsInv /\ [CoreNext]_coreAll => GrantsInv'
<1> SUFFICES ASSUME GrantsInv, [CoreNext]_coreAll PROVE GrantsInv'
  OBVIOUS
<1>1. EgressInv'
  BY GrantsStep, EgressKeeps, EgressStays DEF GrantsInv
<1>2. ASSUME UNCHANGED polVars PROVE PolInv'
  BY <1>2 DEF GrantsInv, PolInv, polVars, LetThroughIsGranted, SelfChangesAreAsked
<1>3. PolInv'
  BY <1>2, GrantsStep, PolKeeps DEF GrantsInv
<1> QED
  BY <1>1, <1>3 DEF GrantsInv

(* What is let out was allowed: a trusted host stays within reach, a held  *)
(* connection has a card of this life of Core, and an agent's action goes  *)
(* through unasked only by a rule somebody made (sandbox-proxy.js,         *)
(* fren-core/index.js askEgress, permissions/index.js decide).             *)
THEOREM GrantsAreKept == CoreSpec => []GrantsHold
<1>1. GrantsInv => GrantsHold
  BY DEF GrantsInv, EgressInv, PolInv, GrantsHold
<1> QED
  BY <1>1, GrantsStart, GrantsStay, PTL DEF CoreSpec

(* A line opens only to a host that its own session, or everybody, may     *)
(* reach by then, however late the yes (sandbox-proxy.js).                 *)
THEOREM OpensAreAllowed == CoreSpec => OpensAllowed
<1>1. GrantsInv /\ [CoreNext]_coreAll =>
        [\A c \in Conns : /\ held'[c].at = "open" /\ held[c] # held'[c]
                      => \E d \in granted'[held'[c].s] \union reach' : Under(held'[c].h, d)]_egressVars
  BY GrantsStep, OpensWell DEF GrantsInv
<1> QED
  BY <1>1, GrantsStart, GrantsStay, PTL DEF CoreSpec, OpensAllowed

(***************************************************************************)
(* The store                                                               *)
(***************************************************************************)
StoreInv ==
  /\ release \in 1..3 /\ ledger \subseteq 1..3 /\ breaks \in Nat
  /\ \/ cutting \in {<<>>, <<"messages", "events">>, <<"events">>}
     \/ \E t \in Tasks : cutting = <<t>>
  /\ begun \in [at : 0..3, made : BOOLEAN] /\ (begun.made => begun.at # 0)
  /\ begun.at # 0 => db = "migrating" /\ begun.at \notin ledger
  /\ SchemaIsWhole
  /\ runRows \in [Rows -> [is : {"none", "open", "over"}, old : BOOLEAN]]
  /\ \A r \in told : r \in Rows /\ (runRows[r].is = "none" => leftover \/ cutting = <<"messages", "events">>)
  /\ taskRuns \in [Rows -> Tasks \union {NoTask}]
  /\ RecordsHaveATask
  /\ \A t \in Tasks : cutting = <<t>> => \A r \in Rows : taskRuns[r] # t

LEMMA StoreStarts == StoreInit => StoreInv
<1> SUFFICES ASSUME StoreInit PROVE StoreInv
  OBVIOUS
<1>1. runRows \in [Rows -> [is : {"none", "open", "over"}, old : BOOLEAN]]
  BY DEF StoreInit, NoEntry
<1>2. SchemaIsWhole
  BY DEF StoreInit, SchemaIsWhole
<1>3. RecordsHaveATask /\ taskRuns \in [Rows -> Tasks \union {NoTask}]
  BY DEF StoreInit, RecordsHaveATask
<1>4. cutting = <<>> /\ told = {} /\ release = 1 /\ ledger = {} /\ breaks = 0
      /\ begun = [at |-> 0, made |-> FALSE]
  BY DEF StoreInit
<1> QED
  BY <1>1, <1>2, <1>3, <1>4 DEF StoreInv

(* No two migrations make the same table or column.                        *)
LEMMA MigrationsApart ==
  ASSUME NEW i \in 1..3, NEW L \in SUBSET (1..3), i \notin L
  PROVE  Migrations[i] \intersect UNION {Migrations[j] : j \in L} = {}
<1>1. /\ Migrations[1] = {"sessions", "runs", "run_messages", "automations", "automation_runs",
                          "permission_requests", "events"}
      /\ Migrations[2] = {"automations.network"} /\ Migrations[3] = {"settings"}
  BY DEF Migrations
<1>2. \A j \in L : j = 1 \/ j = 2 \/ j = 3
  OBVIOUS
<1>3. /\ Migrations[1] \intersect Migrations[2] = {} /\ Migrations[2] \intersect Migrations[1] = {}
      /\ Migrations[1] \intersect Migrations[3] = {} /\ Migrations[3] \intersect Migrations[1] = {}
      /\ Migrations[2] \intersect Migrations[3] = {} /\ Migrations[3] \intersect Migrations[2] = {}
  BY <1>1
<1>4. (i = 1 \/ i = 2 \/ i = 3) /\ i \notin L
  OBVIOUS
<1>5. \A j \in L : Migrations[i] \intersect Migrations[j] = {}
  BY <1>2, <1>3, <1>4
<1> QED
  BY <1>5

LEMMA MessagesFirst ==
  /\ <<"messages", "events">> # <<>> /\ Head(<<"messages", "events">>) = "messages"
  /\ Tail(<<"messages", "events">>) = <<"events">> /\ Head(<<"events">>) # "messages"
<1>1. Head(<<"messages", "events">>) = "messages" /\ Head(<<"events">>) = "events"
  OBVIOUS
<1>2. Tail(<<"messages", "events">>) = <<"events">>
  OBVIOUS
<1>3. <<"messages", "events">> # <<>>
  OBVIOUS
<1>4. "events" # "messages"
  OBVIOUS
<1> QED
  BY <1>1, <1>2, <1>3, <1>4

(* What opening does leaves the rows alone, and the ledger true.           *)
LEMMA OpeningKeeps ==
  ASSUME StoreInv, NEW v \in 1..3, NEW i \in 1..3,
         OpensStore(v) \/ BeginsStep(i) \/ StepRuns \/ StepCommits \/ Migrated \/ StepFails
  PROVE  StoreInv'
<1>1. UNCHANGED rowVars
  BY DEF OpensStore, BeginsStep, StepRuns, StepCommits, Migrated, StepFails
<1>2. /\ release' \in 1..3 /\ ledger' \subseteq 1..3 /\ breaks' \in Nat
      /\ begun' \in [at : 0..3, made : BOOLEAN] /\ (begun'.made => begun'.at # 0)
      /\ begun'.at # 0 => db' = "migrating" /\ begun'.at \notin ledger'
      /\ SchemaIsWhole'
  <2>1. CASE OpensStore(v)
    BY <2>1 DEF OpensStore, StoreInv, SchemaIsWhole
  <2>2. CASE BeginsStep(i)
    BY <2>2 DEF BeginsStep, StoreInv, SchemaIsWhole
  <2>3. CASE StepRuns
    <3>1. begun.at \in 1..3 /\ begun.at \notin ledger /\ schema = UNION {Migrations[j] : j \in ledger}
      BY <2>3 DEF StepRuns, StoreInv, SchemaIsWhole
    <3>2. Migrations[begun.at] \intersect schema = {}
      BY <3>1, MigrationsApart DEF StoreInv
    <3>3. begun' = [begun EXCEPT !.made = TRUE] /\ UNCHANGED <<db, release, schema, ledger, breaks>>
      BY <2>3, <3>2 DEF StepRuns
    <3>4. begun'.at = begun.at /\ begun'.made /\ begun' \in [at : 0..3, made : BOOLEAN]
      BY <3>3, <3>1 DEF StoreInv
    <3>5. db = "migrating" /\ begun.at # 0
      BY <3>1 DEF StoreInv
    <3>6. SchemaIsWhole'
      BY <3>3, <3>5 DEF StoreInv, SchemaIsWhole
    <3> QED
      BY <3>1, <3>3, <3>4, <3>5, <3>6 DEF StoreInv
  <2>4. CASE StepCommits
    <3>1. /\ begun' = [at |-> 0, made |-> FALSE] /\ schema' = schema \union Migrations[begun.at]
          /\ ledger' = ledger \union {begun.at} /\ UNCHANGED <<db, release, breaks>>
      BY <2>4 DEF StepCommits
    <3>2. ledger \subseteq 1..3 /\ begun.at \in 1..3 /\ db = "migrating"
          /\ schema = UNION {Migrations[j] : j \in ledger}
      BY <2>4 DEF StepCommits, StoreInv, SchemaIsWhole
    <3>3. UNION {Migrations[j] : j \in ledger \union {begun.at}}
            = (UNION {Migrations[j] : j \in ledger}) \union Migrations[begun.at]
      OBVIOUS
    <3>4. schema' = UNION {Migrations[j] : j \in ledger'}
      BY <3>1, <3>2, <3>3
    <3>5. db' = "migrating"
      BY <3>1, <3>2
    <3>6. SchemaIsWhole'
      BY <3>4, <3>5 DEF SchemaIsWhole
    <3>7. ledger' \subseteq 1..3 /\ release' \in 1..3 /\ breaks' \in Nat
      BY <3>1, <3>2 DEF StoreInv
    <3>8. /\ begun' \in [at : 0..3, made : BOOLEAN] /\ begun'.at = 0 /\ ~begun'.made /\ 0 \notin 1..3
      BY <3>1
    <3> QED
      BY <3>5, <3>6, <3>7, <3>8
  <2>5. CASE Migrated
    <3>1. /\ UNCHANGED <<release, schema, ledger, begun, breaks>> /\ db' = "open"
          /\ 1..release \subseteq ledger /\ begun = [at |-> 0, made |-> FALSE]
      BY <2>5 DEF Migrated, Quiet
    <3>2. SchemaIsWhole'
      BY <3>1 DEF StoreInv, SchemaIsWhole
    <3>3. begun'.at = 0 /\ ~begun'.made /\ 0 \notin 1..3
      BY <3>1
    <3> QED
      BY <3>1, <3>2, <3>3 DEF StoreInv
  <2>6. CASE StepFails
    BY <2>6 DEF StepFails, StoreInv, SchemaIsWhole
  <2> QED
    BY <2>1, <2>2, <2>3, <2>4, <2>5, <2>6
<1> QED
  BY <1>1, <1>2 DEF rowVars, StoreInv, RecordsHaveATask

(* What the calls on rows do leaves the schema alone, and no row of nothing. *)
LEMMA RowsKeep ==
  ASSUME StoreInv,
         \/ \E r \in Rows : RunInserted(r) \/ RunUpdated(r) \/ MessageAdded(r)
         \/ TimePasses \/ RunsPruned \/ MessagesPruned \/ EventsPruned
         \/ \E r \in Rows, t \in Tasks : TaskRunInserted(r, t)
         \/ \E t \in Tasks : TaskInserted(t) \/ TaskRunsDeleted(t) \/ TaskDeleted(t)
  PROVE  StoreInv'
<1>1. UNCHANGED <<schemaVars, breaks>>
  BY DEF RunInserted, RunUpdated, MessageAdded, TimePasses, RunsPruned, MessagesPruned, EventsPruned,
         TaskInserted, TaskRunInserted, TaskRunsDeleted, TaskDeleted
<1>2. /\ release' \in 1..3 /\ ledger' \subseteq 1..3 /\ breaks' \in Nat
      /\ begun' \in [at : 0..3, made : BOOLEAN] /\ (begun'.made => begun'.at # 0)
      /\ begun'.at # 0 => db' = "migrating" /\ begun'.at \notin ledger'
      /\ SchemaIsWhole'
  BY <1>1 DEF schemaVars, StoreInv, SchemaIsWhole
<1>3. ASSUME NEW r \in Rows, RunInserted(r) \/ RunUpdated(r) \/ MessageAdded(r) PROVE StoreInv'
  <2>1. cutting' = cutting /\ leftover' = leftover /\ UNCHANGED tasksOf
    BY <1>3 DEF RunInserted, RunUpdated, MessageAdded
  <2>2. runRows' \in [Rows -> [is : {"none", "open", "over"}, old : BOOLEAN]]
    <3>1. runRows[r] \in [is : {"none", "open", "over"}, old : BOOLEAN]
      BY DEF StoreInv
    <3>2. /\ [is |-> "open", old |-> FALSE] \in [is : {"none", "open", "over"}, old : BOOLEAN]
          /\ [runRows[r] EXCEPT !.is = "over"] \in [is : {"none", "open", "over"}, old : BOOLEAN]
      BY <3>1
    <3>3. \/ runRows' = [runRows EXCEPT ![r] = [is |-> "open", old |-> FALSE]]
          \/ runRows' = [runRows EXCEPT ![r].is = "over"]
          \/ runRows' = runRows
      BY <1>3 DEF RunInserted, RunUpdated, MessageAdded
    <3> QED
      BY <3>2, <3>3 DEF StoreInv
  <2>3. \A q \in told' : q \in Rows /\ (runRows'[q].is = "none" => leftover \/ cutting = <<"messages", "events">>)
    BY <1>3 DEF RunInserted, RunUpdated, MessageAdded, StoreInv
  <2> QED
    BY <1>2, <2>1, <2>2, <2>3 DEF StoreInv, RecordsHaveATask, tasksOf
<1>6. ASSUME TimePasses PROVE StoreInv'
  <2>1. UNCHANGED <<cutting, leftover, tasksOf, told>>
    BY <1>6 DEF TimePasses
  <2>2. \A q \in Rows : runRows[q] \in [is : {"none", "open", "over"}, old : BOOLEAN]
    BY DEF StoreInv
  <2>3. \A q \in Rows : /\ [runRows[q] EXCEPT !.old = runRows[q].is # "none"] \in [is : {"none", "open", "over"}, old : BOOLEAN]
                       /\ [runRows[q] EXCEPT !.old = runRows[q].is # "none"].is = runRows[q].is
    BY <2>2
  <2>4. /\ runRows' \in [Rows -> [is : {"none", "open", "over"}, old : BOOLEAN]]
        /\ \A q \in Rows : runRows'[q].is = runRows[q].is
    BY <1>6, <2>3 DEF TimePasses
  <2>5. \A q \in told' : q \in Rows /\ (runRows'[q].is = "none" => leftover' \/ cutting' = <<"messages", "events">>)
    BY <2>1, <2>4 DEF StoreInv
  <2> QED
    BY <1>2, <2>1, <2>4, <2>5 DEF StoreInv, RecordsHaveATask, tasksOf
<1>4. ASSUME RunsPruned \/ MessagesPruned \/ EventsPruned PROVE StoreInv'
  <2>1. UNCHANGED tasksOf
    BY <1>4 DEF RunsPruned, MessagesPruned, EventsPruned
  <2>2. RunsPruned => cutting' = <<"messages", "events">>
    BY DEF RunsPruned
  <2>3. MessagesPruned => cutting = <<"messages", "events">> /\ cutting' = <<"events">>
    <3>1. ASSUME NEW u \in Tasks, cutting = <<u>> PROVE Head(cutting) # "messages"
      BY <3>1, StoreConstants
    <3>2. MessagesPruned => cutting = <<"messages", "events">>
      BY <3>1, MessagesFirst DEF MessagesPruned, StoreInv
    <3> QED
      BY <3>2, MessagesFirst DEF MessagesPruned
  <2>4. EventsPruned => cutting' = <<>>
    BY DEF EventsPruned
  <2>5. cutting' \in {<<>>, <<"messages", "events">>, <<"events">>} /\ \A u \in Tasks : cutting' # <<u>>
    BY <1>4, <2>2, <2>3, <2>4, StoreConstants
  <2>6. runRows' \in [Rows -> [is : {"none", "open", "over"}, old : BOOLEAN]]
    <3>1. NoEntry \in [is : {"none", "open", "over"}, old : BOOLEAN]
      BY DEF NoEntry
    <3>2. \/ runRows' = runRows
          \/ runRows' = [q \in Rows |-> IF runRows[q].old /\ runRows[q].is = "over" THEN NoEntry ELSE runRows[q]]
      BY <1>4 DEF RunsPruned, MessagesPruned, EventsPruned
    <3> QED
      BY <3>1, <3>2 DEF StoreInv
  <2>7. \A q \in told' : q \in Rows /\ (runRows'[q].is = "none" => leftover' \/ cutting' = <<"messages", "events">>)
    <3>1. CASE RunsPruned
      BY <3>1 DEF RunsPruned, StoreInv
    <3>2. CASE MessagesPruned
      BY <3>2 DEF MessagesPruned, StoreInv
    <3>3. CASE EventsPruned
      BY <3>3 DEF EventsPruned, StoreInv
    <3> QED
      BY <1>4, <3>1, <3>2, <3>3
  <2> QED
    BY <1>2, <2>1, <2>5, <2>6, <2>7 DEF StoreInv, RecordsHaveATask, tasksOf
<1>5. ASSUME NEW r \in Rows, NEW t \in Tasks, TaskRunInserted(r, t) PROVE StoreInv'
  <2>1. /\ UNCHANGED <<runRows, told, leftover, taskRows>> /\ cutting' = <<>> /\ cutting = <<>>
        /\ taskRuns' = [taskRuns EXCEPT ![r] = t]
        /\ late' = IF t \in taskRows THEN late ELSE late \union {r}
    BY <1>5 DEF TaskRunInserted, AtRest
  <2>2. taskRuns' \in [Rows -> Tasks \union {NoTask}] /\ RecordsHaveATask'
    BY <2>1 DEF StoreInv, RecordsHaveATask
  <2> QED
    BY <1>2, <2>1, <2>2 DEF StoreInv
<1>7. ASSUME NEW t \in Tasks, TaskInserted(t) \/ TaskRunsDeleted(t) \/ TaskDeleted(t) PROVE StoreInv'
  <2>1. runRows' = runRows /\ told' = told /\ leftover' = leftover
    BY <1>7 DEF TaskInserted, TaskRunsDeleted, TaskDeleted
  <2>2. cutting # <<"messages", "events">>
    BY <1>7 DEF TaskInserted, TaskRunsDeleted, TaskDeleted, AtRest
  <2>3. \A q \in told' : q \in Rows /\ (runRows'[q].is = "none" => leftover' \/ cutting' = <<"messages", "events">>)
    BY <2>1, <2>2 DEF StoreInv
  <2>4. taskRuns' \in [Rows -> Tasks \union {NoTask}] /\ RecordsHaveATask'
    <3>1. CASE TaskInserted(t)
      BY <3>1 DEF TaskInserted, StoreInv, RecordsHaveATask
    <3>3. CASE TaskRunsDeleted(t)
      BY <3>3 DEF TaskRunsDeleted, StoreInv, RecordsHaveATask
    <3>4. CASE TaskDeleted(t)
      BY <3>4 DEF TaskDeleted, StoreInv, RecordsHaveATask
    <3> QED
      BY <1>7, <3>1, <3>3, <3>4
  <2>5. /\ \/ cutting' \in {<<>>, <<"messages", "events">>, <<"events">>}
           \/ \E u \in Tasks : cutting' = <<u>>
        /\ \A u \in Tasks : cutting' = <<u>> => \A q \in Rows : taskRuns'[q] # u
    <3>1. CASE TaskInserted(t) \/ TaskDeleted(t)
      <4>1. cutting' = <<>>
        BY <3>1 DEF TaskInserted, TaskDeleted, AtRest
      <4> QED
        BY <4>1
    <3>2. CASE TaskRunsDeleted(t)
      <4>1. cutting' = <<t>> /\ taskRuns' = [q \in Rows |-> IF taskRuns[q] = t THEN NoTask ELSE taskRuns[q]]
        BY <3>2 DEF TaskRunsDeleted
      <4>2. \A q \in Rows : taskRuns'[q] # t
        BY <4>1, StoreConstants
      <4> QED
        BY <4>1, <4>2
    <3> QED
      BY <1>7, <3>1, <3>2
  <2> QED
    BY <1>2, <2>1, <2>3, <2>4, <2>5 DEF StoreInv
<1> QED
  BY <1>3, <1>4, <1>5, <1>6, <1>7

(* Nor does the end of a life of Core.                                     *)
LEMMA ClosingKeeps == StoreInv /\ StoreCloses => StoreInv'
<1> SUFFICES ASSUME StoreInv, StoreCloses PROVE StoreInv'
  OBVIOUS
<1>1. /\ db' = "closed" /\ cutting' = <<>> /\ begun' = [at |-> 0, made |-> FALSE]
      /\ UNCHANGED <<release, schema, ledger, runRows, told, taskRows, taskRuns, late>>
  BY DEF StoreCloses
<1>2. breaks' \in Nat /\ breaks' >= breaks
  BY DEF StoreCloses, StoreInv
<1>3. db # "failed" \/ breaks' > 0
  BY <1>2 DEF StoreInv, SchemaIsWhole
<1>4. SchemaIsWhole'
  BY <1>1 DEF StoreInv, SchemaIsWhole
<1>5. cutting = <<"messages", "events">> => leftover'
  BY MessagesFirst DEF StoreCloses
<1>6. leftover => leftover'
  BY DEF StoreCloses
<1>7. \A q \in told' : q \in Rows /\ (runRows'[q].is = "none" => leftover' \/ cutting' = <<"messages", "events">>)
  BY <1>1, <1>5, <1>6 DEF StoreInv
<1>8. RecordsHaveATask' /\ \A u \in Tasks : cutting' # <<u>>
  BY <1>1 DEF StoreInv, RecordsHaveATask
<1> QED
  BY <1>1, <1>2, <1>4, <1>7, <1>8 DEF StoreInv

LEMMA StoreStays == StoreInv /\ (StoreNext \/ UNCHANGED storeVars) => StoreInv'
<1> SUFFICES ASSUME StoreInv, StoreNext \/ UNCHANGED storeVars PROVE StoreInv'
  OBVIOUS
<1>1. CASE StoreNext
  <2>1. 1..Len(Migrations) = 1..3
    BY DEF Migrations
  <2>2. CASE StoreCloses
    BY <2>2, ClosingKeeps
  <2>3. ASSUME NEW v \in 1..3, OpensStore(v) \/ BeginsStep(v) PROVE StoreInv'
    BY <2>3, OpeningKeeps
  <2>4. CASE StepRuns \/ StepCommits \/ Migrated \/ StepFails
    <3>1. 1 \in 1..3
      OBVIOUS
    <3> QED
      BY <2>4, <3>1, OpeningKeeps
  <2>5. ASSUME \/ \E r \in Rows : RunInserted(r) \/ RunUpdated(r) \/ MessageAdded(r)
               \/ TimePasses \/ RunsPruned \/ MessagesPruned \/ EventsPruned
               \/ \E r \in Rows, t \in Tasks : TaskRunInserted(r, t)
               \/ \E t \in Tasks : TaskInserted(t) \/ TaskRunsDeleted(t) \/ TaskDeleted(t)
        PROVE  StoreInv'
    BY <2>5, RowsKeep
  <2> QED
    BY <1>1, <2>1, <2>2, <2>3, <2>4, <2>5 DEF StoreNext
<1>2. CASE UNCHANGED storeVars
  BY <1>2 DEF storeVars, schemaVars, rowVars, StoreInv, SchemaIsWhole, RecordsHaveATask
<1> QED
  BY <1>1, <1>2

(* Whatever cut a call of the store short, a crash, a full disk or a later *)
(* release: the schema is what the ledger says, no message is left of a    *)
(* run that is gone, and the only records of an automation that is gone    *)
(* are those a run of it wrote after the deletion (store.js).              *)
THEOREM StoreIsWhole == CoreSpec => []StoreHolds
<1>1. CoreInit => StoreInv
  BY StoreStarts DEF CoreInit
<1>2. [CoreNext]_coreAll => StoreNext \/ UNCHANGED storeVars
  <2> SUFFICES ASSUME [CoreNext]_coreAll PROVE StoreNext \/ UNCHANGED storeVars
    OBVIOUS
  <2>1. CASE OfEgress \/ OfPolicy \/ OfCron \/ OfStore
    BY <2>1 DEF OfEgress, OfPolicy, OfCron, OfStore
  <2>2. CASE OfLife \/ OfMock \/ OfLaunch \/ OfTools \/ OfFires \/ OfFiring \/ OfProvision
    BY <2>2 DEF OfLife, OfMock, OfLaunch, OfTools, OfFires, OfFiring, OfProvision
  <2>3. CASE UNCHANGED coreAll
    BY <2>3 DEF coreAll
  <2> QED
    BY <2>1, <2>2, <2>3 DEF CoreNext
<1>3. StoreInv /\ [CoreNext]_coreAll => StoreInv'
  BY <1>2, StoreStays
<1>4. StoreInv => StoreHolds
  BY MessagesFirst DEF StoreInv, NothingIsLeftOver, StoreHolds
<1> QED
  BY <1>1, <1>3, <1>4, PTL DEF CoreSpec

(***************************************************************************)
(* The clock of a schedule                                                 *)
(***************************************************************************)
(* Division, by the number that fits.                                      *)
LEMMA DivIs ==
  ASSUME NEW n \in Nat, NEW k \in Nat \ {0}
  PROVE  n \div k \in Nat /\ n % k \in 0..(k - 1) /\ n = k * (n \div k) + (n % k)
  OBVIOUS
LEMMA DivOf ==
  ASSUME NEW k \in Nat \ {0}, NEW q \in Nat, NEW r \in 0..(k - 1)
  PROVE  (k * q + r) \div k = q /\ (k * q + r) % k = r
  OBVIOUS
LEMMA TimesLeq ==
  ASSUME NEW a \in Nat, NEW b \in Nat, NEW m \in Nat, a <= b
  PROVE  a * m <= b * m
  OBVIOUS

(* What lies from the beginning of one stretch up to the beginning of the  *)
(* next is in the first.                                                   *)
LEMMA InStretch ==
  ASSUME NEW k \in Nat \ {0}, NEW n \in Nat, NEW v \in Nat, n <= v, v < (n \div k + 1) * k
  PROVE  v \div k = n \div k
<1>1. n \div k \in Nat /\ k * (n \div k) <= n
  BY DivIs
<1>2. PICK q \in Nat : q = n \div k
  BY <1>1
<1>3. (q + 1) * k = k * q + k /\ k * q \in Nat
  BY <1>2
<1>4. PICK m \in Nat : m = k * q
  BY <1>3
<1>5. m <= v /\ v < m + k
  BY <1>1, <1>2, <1>3, <1>4
<1>6. v - m \in 0..(k - 1) /\ v = m + (v - m)
  BY <1>5
<1>7. (k * q + (v - m)) \div k = q
  BY <1>6, DivOf
<1> QED
  BY <1>2, <1>4, <1>6, <1>7

ClockIsSound == /\ Minutes \in Nat \ {0} /\ Hours \in Nat \ {0} /\ MonthDays \in Nat \ {0} /\ Week \in Nat \ {0}
          /\ DayLength \in Nat \ {0} /\ PutBack \in Nat /\ PutForward \in Nat
          /\ PutBack + 2 * Minutes <= PutForward

LEMMA ClockBounds == ClockIsSound
<1>1. /\ Minutes \in Nat \ {0} /\ Hours \in Nat \ {0} /\ MonthDays \in Nat \ {0} /\ Week \in Nat \ {0}
      /\ Again \in Nat /\ Lost \in Nat /\ Again + 2 <= Lost
  BY CronConstants
<1>2. DayLength \in Nat \ {0} /\ PutBack \in Nat /\ PutForward \in Nat
  BY <1>1 DEF DayLength, PutBack, PutForward
<1>3. (Again + 2) * Minutes <= Lost * Minutes
  BY <1>1, TimesLeq
<1>4. (Again + 2) * Minutes = Again * Minutes + 2 * Minutes
  BY <1>1
<1> QED
  BY <1>1, <1>2, <1>3, <1>4 DEF ClockIsSound, PutBack, PutForward

LEMMA ClockIs ==
  ASSUME NEW t \in Nat, ~SecondTime(t)
  PROVE  /\ Wall(t) \in Nat /\ Instant(Wall(t)) = t
         /\ Wall(t) < PutForward \/ Wall(t) >= PutForward + Minutes
  BY ClockBounds DEF ClockIsSound, Wall, Instant, SecondTime
LEMMA InstantIs ==
  ASSUME NEW w \in Nat
  PROVE  Instant(w) \in Nat /\ ~SecondTime(Instant(w))
  BY ClockBounds DEF ClockIsSound, Instant, SecondTime
(* A wall clock beyond another, and not within the hour that is not lived, *)
(* is of a later instant, and none before that has come so far.            *)
LEMMA LaterIs ==
  ASSUME NEW t \in Nat, ~SecondTime(t), NEW s \in Nat, s > Wall(t), s <= PutForward \/ s >= PutForward + Minutes
  PROVE  /\ Instant(s) > t
         /\ \A u \in Nat : ~SecondTime(u) /\ u >= t /\ u < Instant(s) => Wall(t) <= Wall(u) /\ Wall(u) < s
  BY ClockBounds DEF ClockIsSound, Instant, Wall, SecondTime
LEMMA NextMinute ==
  ASSUME NEW t \in Nat
  PROVE  LET n == Instant(Wall(Instant(Wall(t))) + 1) IN
         /\ n \in Nat /\ ~SecondTime(n)
         /\ ~SecondTime(t) => n > t /\ \A u \in Nat : ~SecondTime(u) /\ u > t => u >= n
<1>1. PICK x \in Nat : x = Instant(Wall(t)) /\ ~SecondTime(x)
  BY ClockBounds, InstantIs DEF ClockIsSound, Wall
<1>2. PICK w \in Nat : w = Wall(x) /\ Instant(w) = x /\ (w < PutForward \/ w >= PutForward + Minutes)
  BY <1>1, ClockIs
<1>3. PICK n \in Nat : n = Instant(w + 1) /\ ~SecondTime(n)
  BY <1>2, InstantIs
<1>4. ASSUME ~SecondTime(t) PROVE n > t /\ \A u \in Nat : ~SecondTime(u) /\ u > t => u >= n
  <2>1. x = t /\ w = Wall(t)
    BY <1>1, <1>2, <1>4, ClockIs
  <2>2. w + 1 > Wall(t) /\ (w + 1 <= PutForward \/ w + 1 >= PutForward + Minutes)
    BY <1>2, <2>1, ClockBounds DEF ClockIsSound
  <2>3. n > t
    BY <1>3, <1>4, <2>2, LaterIs
  <2>4. ASSUME NEW u \in Nat, ~SecondTime(u), u > t, u < n PROVE FALSE
    <3>1. Wall(t) <= Wall(u) /\ Wall(u) < w + 1
      BY <1>3, <1>4, <2>2, <2>4, LaterIs
    <3>2. Wall(u) = Wall(t)
      BY <2>1, <2>4, <3>1, ClockIs
    <3>3. u = t
      BY <1>4, <2>4, <3>2, ClockIs
    <3> QED
      BY <2>4, <3>3
  <2> QED
    BY <1>3, <2>3, <2>4
<1> QED
  BY <1>1, <1>2, <1>3, <1>4

LEMMA HourIs ==
  ASSUME NEW w \in Nat
  PROVE  Hour(w) = (w \div Minutes) % Hours /\ DayOf(w) = (w \div Minutes) \div Hours
<1> USE ClockBounds DEF ClockIsSound
<1>1. PICK h \in Nat, m \in 0..(Minutes - 1) : h = w \div Minutes /\ w = Minutes * h + m
  BY DivIs
<1>2. PICK d \in Nat, r \in 0..(Hours - 1) : d = h \div Hours /\ r = h % Hours /\ h = Hours * d + r
  BY DivIs
<1>3. Minutes * h = DayLength * d + Minutes * r
  <2>1. Minutes * (Hours * d + r) = Minutes * (Hours * d) + Minutes * r
    OBVIOUS
  <2>2. Minutes * (Hours * d) = (Minutes * Hours) * d
    OBVIOUS
  <2> QED
    BY <1>2, <2>1, <2>2 DEF DayLength
<1>4. Minutes * r + m \in 0..(DayLength - 1)
  <2>1. r * Minutes <= (Hours - 1) * Minutes
    BY TimesLeq
  <2>2. (Hours - 1) * Minutes = DayLength - Minutes
    BY DEF DayLength
  <2>3. Minutes * r \in Nat /\ Minutes * r = r * Minutes
    OBVIOUS
  <2> QED
    BY <2>1, <2>2, <2>3
<1>5. PICK x \in 0..(DayLength - 1) : x = Minutes * r + m
  BY <1>4
<1>6. w = DayLength * d + x
  <2>1. Minutes * r \in Nat /\ DayLength * d \in Nat /\ Minutes * h \in Nat
    OBVIOUS
  <2> QED
    BY <1>1, <1>3, <1>5, <2>1
<1>7. w \div DayLength = d /\ w % DayLength = x
  BY <1>6, DivOf
<1>8. x \div Minutes = r
  BY <1>5, DivOf
<1> QED
  BY <1>1, <1>2, <1>7, <1>8 DEF Hour, DayOf

(* The beginning of an hour is not within the hour that is not lived.      *)
LEMMA HourBegins ==
  ASSUME NEW k \in Nat
  PROVE  k * Minutes <= PutForward \/ k * Minutes >= PutForward + Minutes
<1> USE ClockBounds DEF ClockIsSound
<1>1. Lost \in Nat
  BY CronConstants
<1>2. CASE k <= Lost
  BY <1>1, <1>2, TimesLeq DEF PutForward
<1>3. CASE k >= Lost + 1
  <2>1. (Lost + 1) * Minutes <= k * Minutes
    BY <1>1, <1>3, TimesLeq
  <2>2. (Lost + 1) * Minutes = Lost * Minutes + Minutes
    BY <1>1
  <2> QED
    BY <2>1, <2>2 DEF PutForward
<1> QED
  BY <1>1, <1>2, <1>3

LEMMA DayBegins ==
  ASSUME NEW k \in Nat
  PROVE  k * DayLength <= PutForward \/ k * DayLength >= PutForward + Minutes
<1>1. k * DayLength = (k * Hours) * Minutes /\ k * Hours \in Nat
  BY ClockBounds DEF ClockIsSound, DayLength
<1> QED
  BY <1>1, HourBegins

LEMMA SkipIs ==
  ASSUME NEW w \in Nat, w < PutForward \/ w >= PutForward + Minutes, NEW p, ~Matches(p, w)
  PROVE  /\ Skip(p, w) \in Nat /\ Skip(p, w) > w
         /\ Skip(p, w) <= PutForward \/ Skip(p, w) >= PutForward + Minutes
         /\ \A v \in Nat : w <= v /\ v < Skip(p, w) => ~Matches(p, v)
<1> USE ClockBounds DEF ClockIsSound
<1>1. CASE Month(w) \notin p["month"].set
  <2>1. PICK d \in Nat : d = DayOf(w)
    BY DivIs DEF DayOf
  <2>2. PICK m \in Nat, r \in 0..(MonthDays - 1) : m = d \div MonthDays /\ r = d % MonthDays /\ d = MonthDays * m + r
    BY DivIs
  <2>3. PICK e \in Nat : e = d + MonthDays - r
    BY <2>2
  <2>4. Skip(p, w) = e * DayLength
    BY <1>1, <2>1, <2>2, <2>3 DEF Skip
  <2>5. e = (m + 1) * MonthDays
    BY <2>2, <2>3
  <2>6. w < (d + 1) * DayLength
    <3>1. w = DayLength * d + (w % DayLength) /\ w % DayLength < DayLength /\ w % DayLength \in Nat
      BY <2>1, DivIs DEF DayOf
    <3>2. (d + 1) * DayLength = DayLength * d + DayLength /\ DayLength * d \in Nat
      OBVIOUS
    <3> QED
      BY <3>1, <3>2
  <2>7. (d + 1) * DayLength <= e * DayLength
    <3>1. d + 1 <= e
      BY <2>2, <2>3
    <3> QED
      BY <3>1, TimesLeq
  <2>8. ASSUME NEW v \in Nat, w <= v, v < e * DayLength PROVE Month(v) = Month(w)
    <3>1. PICK f \in Nat : f = DayOf(v)
      BY DivIs DEF DayOf
    <3>2. d <= f
      <4>1. ASSUME f + 1 <= d PROVE FALSE
        <5>1. (f + 1) * DayLength <= d * DayLength
          BY <4>1, TimesLeq
        <5>2. v < (f + 1) * DayLength
          <6>1. v = DayLength * f + (v % DayLength) /\ v % DayLength < DayLength /\ v % DayLength \in Nat
            BY <3>1, DivIs DEF DayOf
          <6>2. (f + 1) * DayLength = DayLength * f + DayLength /\ DayLength * f \in Nat
            OBVIOUS
          <6> QED
            BY <6>1, <6>2
        <5>3. d * DayLength <= w
          <6>1. w = DayLength * d + (w % DayLength) /\ w % DayLength \in Nat /\ DayLength * d = d * DayLength /\ d * DayLength \in Nat
            BY <2>1, DivIs DEF DayOf
          <6> QED
            BY <6>1
        <5> QED
          BY <2>8, <5>1, <5>2, <5>3
      <4> QED
        BY <4>1
    <3>3. f < e
      <4>1. ASSUME e <= f PROVE FALSE
        <5>1. e * DayLength <= f * DayLength
          BY <4>1, TimesLeq
        <5>2. f * DayLength <= v
          <6>1. v = DayLength * f + (v % DayLength) /\ v % DayLength \in Nat /\ DayLength * f = f * DayLength /\ f * DayLength \in Nat
            BY <3>1, DivIs DEF DayOf
          <6> QED
            BY <6>1
        <5> QED
          BY <2>8, <5>1, <5>2
      <4> QED
        BY <4>1
    <3>4. f \div MonthDays = d \div MonthDays
      BY <2>2, <2>5, <3>2, <3>3, InStretch
    <3> QED
      BY <2>1, <3>1, <3>4 DEF Month
  <2>9. \A v \in Nat : w <= v /\ v < e * DayLength => ~Matches(p, v)
    BY <1>1, <2>8 DEF Matches
  <2>10. e * DayLength \in Nat /\ e * DayLength > w
    BY <2>6, <2>7
  <2>11. e * DayLength <= PutForward \/ e * DayLength >= PutForward + Minutes
    BY DayBegins
  <2>12. Skip(p, w) \in Nat /\ Skip(p, w) > w
    BY <2>4, <2>10
  <2> QED
    BY <2>4, <2>9, <2>11, <2>12
<1>2. CASE Month(w) \in p["month"].set /\ ~DayMatches(p, w)
  <2>1. PICK d \in Nat : d = DayOf(w)
    BY DivIs DEF DayOf
  <2>2. Skip(p, w) = (d + 1) * DayLength
    BY <1>2, <2>1 DEF Skip
  <2>3. \A v \in Nat : w <= v /\ v < (d + 1) * DayLength => DayOf(v) = d
    BY <2>1, InStretch DEF DayOf
  <2>4. w < (d + 1) * DayLength
    <3>1. w = DayLength * d + (w % DayLength) /\ w % DayLength < DayLength /\ w % DayLength \in Nat
      BY <2>1, DivIs DEF DayOf
    <3>2. (d + 1) * DayLength = DayLength * d + DayLength /\ DayLength * d \in Nat
      OBVIOUS
    <3> QED
      BY <3>1, <3>2
  <2>5. \A v \in Nat : w <= v /\ v < (d + 1) * DayLength => ~DayMatches(p, v)
    BY <1>2, <2>1, <2>3 DEF DayMatches, Date, Weekday
  <2>6. (d + 1) * DayLength \in Nat
    OBVIOUS
  <2>7. (d + 1) * DayLength <= PutForward \/ (d + 1) * DayLength >= PutForward + Minutes
    <3>1. PICK e \in Nat : e = d + 1
      OBVIOUS
    <3>2. e * DayLength <= PutForward \/ e * DayLength >= PutForward + Minutes
      BY DayBegins
    <3> QED
      BY <3>1, <3>2
  <2>8. \A v \in Nat : w <= v /\ v < (d + 1) * DayLength => ~Matches(p, v)
    BY <2>5 DEF Matches
  <2> QED
    BY <2>2, <2>4, <2>6, <2>7, <2>8
<1>3. CASE Month(w) \in p["month"].set /\ DayMatches(p, w) /\ Hour(w) \notin p["hour"].set
  <2>1. PICK h \in Nat : h = w \div Minutes
    BY DivIs
  <2>2. Skip(p, w) = (h + 1) * Minutes
    BY <1>3, <2>1 DEF Skip
  <2>3. \A v \in Nat : w <= v /\ v < (h + 1) * Minutes => v \div Minutes = h
    BY <2>1, InStretch
  <2>4. w < (h + 1) * Minutes
    <3>1. w = Minutes * h + (w % Minutes) /\ w % Minutes < Minutes /\ w % Minutes \in Nat
      BY <2>1, DivIs
    <3>2. (h + 1) * Minutes = Minutes * h + Minutes /\ Minutes * h \in Nat
      OBVIOUS
    <3> QED
      BY <3>1, <3>2
  <2>5. \A v \in Nat : w <= v /\ v < (h + 1) * Minutes => Hour(v) = Hour(w)
    BY <2>1, <2>3, HourIs
  <2>6. (h + 1) * Minutes \in Nat
    OBVIOUS
  <2>7. (h + 1) * Minutes <= PutForward \/ (h + 1) * Minutes >= PutForward + Minutes
    <3>1. PICK e \in Nat : e = h + 1
      OBVIOUS
    <3>2. e * Minutes <= PutForward \/ e * Minutes >= PutForward + Minutes
      BY HourBegins
    <3> QED
      BY <3>1, <3>2
  <2>8. \A v \in Nat : w <= v /\ v < (h + 1) * Minutes => ~Matches(p, v)
    BY <1>3, <2>5 DEF Matches
  <2> QED
    BY <2>2, <2>4, <2>6, <2>7, <2>8
<1>4. CASE Month(w) \in p["month"].set /\ DayMatches(p, w) /\ Hour(w) \in p["hour"].set
  <2>1. Skip(p, w) = w + 1
    BY <1>4 DEF Skip
  <2>2. \A v \in Nat : w <= v /\ v < w + 1 => v = w
    OBVIOUS
  <2> QED
    BY <2>1, <2>2
<1> QED
  BY <1>1, <1>2, <1>3, <1>4

FieldsOK ==
  /\ DOMAIN fields = FieldNames
  /\ \A f \in FieldNames : fields[f].any \in BOOLEAN /\ fields[f].set \subseteq Lowest(f)..Highest(f)

Passed == \A t \in Times(fields) : t > askedAt => t >= walker

CronInv ==
  /\ FieldsOK
  /\ askedAt \in 0..Limit /\ walker \in Nat /\ found \in {"idle", "walking", "found", "none"}
  /\ found \in {"walking", "found"} => ~SecondTime(walker)
  /\ ~SecondTime(askedAt) /\ found \in {"walking", "found"} => walker > askedAt
  /\ ~SecondTime(askedAt) /\ found # "idle" => Passed
  /\ found = "found" => walker \in Times(fields)
  /\ found = "none" => walker > Limit \/ Times(fields) = {}
  /\ found = "idle" => fields = NoFields

LEMMA LimitIs == Limit \in Nat
<1>1. DayLength * StretchDays \in Nat \ {0}
  BY CronConstants, ClockBounds DEF ClockIsSound
<1> QED
  BY <1>1 DEF Limit

LEMMA TimesAre == \A t \in Times(fields) : t \in 0..Limit /\ t \in Nat /\ Matches(fields, Wall(t)) /\ ~SecondTime(t)
  BY LimitIs DEF Times

LEMMA CronStarts == CronInit => CronInv
<1> SUFFICES ASSUME CronInit PROVE CronInv
  OBVIOUS
<1>1. FieldsOK
  BY DEF CronInit, NoFields, FieldsOK
<1> QED
  BY <1>1, LimitIs DEF CronInit, CronInv

(* The texts that are tried are of numbers.                                *)
LEMMA TextsAre ==
  ASSUME NEW texts \in Texts, NEW f \in FieldNames, NEW i \in texts[f]
  PROVE  i.lo \in Int /\ i.hi \in Int /\ i.step \in Nat /\ i.kind \in {"star", "number", "range"}
<1> USE ClockBounds DEF ClockIsSound
<1>1. texts[f] \in {{Star}, {At(0)}, {[Star EXCEPT !.step = 2], At(Minutes - 1)},
                    {[At(1) EXCEPT !.step = 1]}, {At(1)}, {At(MonthDays)}, {At(2)}, {At(Week)},
                    {[kind |-> "range", lo |-> 2, hi |-> 1, step |-> 0]},
                    {[kind |-> "range", lo |-> 1, hi |-> Week, step |-> 0]}}
  BY DEF Texts, FieldNames
<1>3. \/ i \in {Star, At(0), [Star EXCEPT !.step = 2], At(Minutes - 1)}
      \/ i \in {[At(1) EXCEPT !.step = 1], At(1), At(MonthDays), At(2), At(Week)}
      \/ i \in {[kind |-> "range", lo |-> 2, hi |-> 1, step |-> 0], [kind |-> "range", lo |-> 1, hi |-> Week, step |-> 0]}
  BY <1>1
<1> QED
  BY <1>3 DEF Star, At

(* What is parsed is within its field.                                     *)
LEMMA ParsedWell ==
  ASSUME NEW texts \in Texts, Valid(texts), fields' = ParseCron(texts)
  PROVE  FieldsOK'
<1>1. DOMAIN fields' = FieldNames
  BY DEF ParseCron
<1>2. ASSUME NEW f \in FieldNames
      PROVE  fields'[f].any \in BOOLEAN /\ fields'[f].set \subseteq Lowest(f)..Highest(f)
  <2>1. fields'[f] = ParseField(texts[f], f)
    BY DEF ParseCron
  <2>2. fields'[f].any \in BOOLEAN
    BY <2>1 DEF ParseField
  <2>3. ASSUME NEW i \in texts[f] PROVE Values(i, f) \subseteq Lowest(f)..Highest(f)
    <3>1. Lowest(f) \in Int /\ Highest(f) \in Int
      BY ClockBounds DEF ClockIsSound, Lowest, Highest, FieldNames
    <3>2. From(i, f) \in Int /\ To(i, f) \in Int
      BY <3>1, TextsAre DEF From, To
    <3>3. Lowest(f) <= From(i, f) /\ To(i, f) <= Highest(f)
      BY DEF Valid, Fits
    <3> QED
      BY <3>1, <3>2, <3>3 DEF Values
  <2>4. UNION {Values(i, f) : i \in texts[f]} \subseteq Lowest(f)..Highest(f)
    BY <2>3
  <2>5. f = "weekday" => 0 \in Lowest(f)..Highest(f)
    BY ClockBounds DEF ClockIsSound, Lowest, Highest
  <2> QED
    BY <2>1, <2>2, <2>4, <2>5 DEF ParseField
<1> QED
  BY <1>1, <1>2 DEF FieldsOK

LEMMA CronKeeps == CronInv /\ CronNext => CronInv'
<1> SUFFICES ASSUME CronInv, CronNext PROVE CronInv'
  OBVIOUS
<1>1. ASSUME NEW x \in Texts, AsksNonsense(x) PROVE CronInv'
  <2>1. found = "idle" /\ found' = "none" /\ UNCHANGED <<fields, askedAt, walker>>
    BY <1>1 DEF AsksNonsense
  <2>2. Times(fields) = {}
    BY <2>1 DEF CronInv, Times, Matches, NoFields, FieldNames
  <2> QED
    BY <2>1, <2>2 DEF CronInv, FieldsOK, Passed
<1>2. ASSUME NEW x \in Texts, NEW t \in 0..Limit, Asks(x, t) PROVE CronInv'
  <2>1. Valid(x) /\ fields' = ParseCron(x) /\ askedAt' = t /\ found' = "walking"
        /\ walker' = Instant(Wall(Instant(Wall(t))) + 1)
    BY <1>2 DEF Asks
  <2>2. FieldsOK'
    BY <2>1, ParsedWell
  <2>3. t \in Nat
    BY LimitIs
  <2>4. /\ walker' \in Nat /\ ~SecondTime(walker')
        /\ ~SecondTime(t) => walker' > t /\ \A u \in Nat : ~SecondTime(u) /\ u > t => u >= walker'
    BY <2>1, <2>3, NextMinute
  <2>5. ~SecondTime(t) => Passed'
    BY <2>1, <2>4, LimitIs DEF Passed, Times
  <2> QED
    BY <2>1, <2>2, <2>4, <2>5 DEF CronInv
<1>3. CASE AsksOn
  <2>1. /\ found = "found" /\ found' = "walking" /\ askedAt' = walker /\ UNCHANGED fields
        /\ walker' = Instant(Wall(Instant(Wall(walker))) + 1)
    BY <1>3 DEF AsksOn
  <2>2. walker \in 0..Limit /\ walker \in Nat /\ ~SecondTime(walker)
    BY <2>1, TimesAre DEF CronInv
  <2>4. /\ walker' \in Nat /\ ~SecondTime(walker')
        /\ walker' > walker /\ \A u \in Nat : ~SecondTime(u) /\ u > walker => u >= walker'
    BY <2>1, <2>2, NextMinute
  <2>5. Passed'
    BY <2>1, <2>4, LimitIs DEF Passed, Times
  <2>6. FieldsOK'
    BY <2>1 DEF CronInv, FieldsOK
  <2> QED
    BY <2>1, <2>2, <2>4, <2>5, <2>6 DEF CronInv
<1>4. CASE Walk
  <2>1. found = "walking" /\ UNCHANGED <<fields, askedAt>> /\ walker \in Nat /\ ~SecondTime(walker)
    BY <1>4 DEF Walk, CronInv
  <2>2. FieldsOK'
    BY <2>1 DEF CronInv, FieldsOK
  <2>3. CASE walker > Limit
    <3>1. found' = "none" /\ walker' = walker
      BY <1>4, <2>1, <2>3, LimitIs DEF Walk
    <3> QED
      BY <2>1, <2>2, <2>3, <3>1 DEF CronInv, Passed
  <2>4. CASE walker <= Limit /\ Matches(fields, Wall(walker))
    <3>1. found' = "found" /\ walker' = walker
      BY <1>4, <2>1, <2>4, LimitIs DEF Walk
    <3>2. walker \in Times(fields)
      BY <2>1, <2>4, LimitIs DEF Times
    <3> QED
      BY <2>1, <2>2, <3>1, <3>2 DEF CronInv, Passed
  <2>5. CASE walker <= Limit /\ ~Matches(fields, Wall(walker))
    <3>1. found' = found /\ walker' = Instant(Skip(fields, Wall(walker)))
      BY <1>4, <2>1, <2>5, LimitIs DEF Walk
    <3>2. PICK w \in Nat : w = Wall(walker) /\ (w < PutForward \/ w >= PutForward + Minutes)
      BY <2>1, ClockIs
    <3>3. PICK s \in Nat : /\ s = Skip(fields, w) /\ s > w
                           /\ s <= PutForward \/ s >= PutForward + Minutes
                           /\ \A v \in Nat : w <= v /\ v < s => ~Matches(fields, v)
      BY <2>5, <3>2, SkipIs
    <3>4. /\ walker' > walker
          /\ \A u \in Nat : ~SecondTime(u) /\ u >= walker /\ u < walker' => w <= Wall(u) /\ Wall(u) < s
      BY <2>1, <3>1, <3>2, <3>3, LaterIs
    <3>5. walker' \in Nat /\ ~SecondTime(walker')
      BY <3>1, <3>2, <3>3, InstantIs
    <3>6. \A u \in Times(fields) : u >= walker => u >= walker'
      <4>1. ASSUME NEW u \in Times(fields), u >= walker, u < walker' PROVE FALSE
        <5>1. u \in Nat /\ Matches(fields, Wall(u)) /\ ~SecondTime(u) /\ Wall(u) \in Nat
          BY TimesAre, ClockIs
        <5> QED
          BY <3>3, <3>4, <4>1, <5>1
      <4> QED
        BY <3>5, <4>1, TimesAre
    <3>7. Passed => Passed'
      BY <2>1, <3>6 DEF Passed
    <3> QED
      BY <2>1, <2>2, <3>1, <3>4, <3>5, <3>7 DEF CronInv
  <2> QED
    BY <2>1, <2>3, <2>4, <2>5, LimitIs
<1> QED
  BY <1>1, <1>2, <1>3, <1>4 DEF CronNext

LEMMA CronStays == CronInv /\ UNCHANGED cronVars => CronInv'
  BY DEF CronInv, FieldsOK, Passed, cronVars

LEMMA NextFollows == CronInv => NextIsNext /\ FoundIsATime
<1> SUFFICES ASSUME CronInv PROVE NextIsNext /\ FoundIsATime
  OBVIOUS
<1>1. ASSUME found = "found", ~SecondTime(askedAt)
      PROVE  LET after == {t \in Times(fields) : t > askedAt} IN after # {} /\ walker = Min(after)
  <2> DEFINE after == {t \in Times(fields) : t > askedAt}
  <2>1. walker \in after /\ \A t \in after : walker <= t /\ t \in Nat
    BY <1>1, TimesAre DEF CronInv, Passed
  <2>2. \A x \in after : (\A y \in after : x <= y) => x = walker
    BY <2>1
  <2>3. walker = Min(after)
    BY <2>1, <2>2 DEF Min
  <2> QED
    BY <2>1, <2>3
<1>2. ASSUME found = "none", ~SecondTime(askedAt) PROVE {t \in Times(fields) : t > askedAt} = {}
  BY <1>2, TimesAre, LimitIs DEF CronInv, Passed
<1> QED
  BY <1>1, <1>2 DEF CronInv, NextIsNext, FoundIsATime

(* A moment of a day is its hour and its minute.                           *)
LEMMA HourAndMinute ==
  ASSUME NEW v \in Nat, NEW w \in Nat, DayOf(v) = DayOf(w), Hour(v) = Hour(w), Minute(v) = Minute(w)
  PROVE  v = w
<1> USE ClockBounds DEF ClockIsSound
<1>1. PICK g \in Nat, h \in Nat : g = v \div Minutes /\ h = w \div Minutes
  BY DivIs
<1>2. v = Minutes * g + (v % Minutes) /\ w = Minutes * h + (w % Minutes)
  BY <1>1, DivIs
<1>3. g \div Hours = h \div Hours /\ g % Hours = h % Hours
  BY <1>1, HourIs
<1>4. g = Hours * (g \div Hours) + (g % Hours) /\ h = Hours * (h \div Hours) + (h % Hours)
  BY DivIs
<1>5. g = h
  BY <1>3, <1>4
<1> QED
  BY <1>2, <1>5 DEF Minute

LEMMA LimitFollows == CronInv => LimitIsTrue
<1> SUFFICES ASSUME CronInv, NEW d \in 0..(StretchDays - 1)
             PROVE  Cardinality({t \in Times(fields) : DayOf(Wall(t)) = d}) <= FiresPerDay(fields)
  BY DEF LimitIsTrue
<1> DEFINE S == {t \in Times(fields) : DayOf(Wall(t)) = d}
           A == fields["minute"].set
           B == fields["hour"].set
           f == [t \in S |-> <<Minute(Wall(t)), Hour(Wall(t))>>]
<1>1. IsFiniteSet(A) /\ IsFiniteSet(B)
  <2>1. A \subseteq 0..(Minutes - 1) /\ B \subseteq 0..(Hours - 1)
    BY DEF CronInv, FieldsOK, FieldNames, Lowest, Highest
  <2>2. IsFiniteSet(0..(Minutes - 1)) /\ IsFiniteSet(0..(Hours - 1))
    BY ClockBounds, FS_Interval DEF ClockIsSound
  <2> QED
    BY <2>1, <2>2, FS_Subset
<1>2. f \in [S -> A \X B]
  BY TimesAre DEF Matches
<1>3. ASSUME NEW t \in S, NEW u \in S, f[t] = f[u] PROVE t = u
  <2>1. Minute(Wall(t)) = Minute(Wall(u)) /\ Hour(Wall(t)) = Hour(Wall(u)) /\ DayOf(Wall(t)) = DayOf(Wall(u))
    BY <1>3
  <2>2. /\ Wall(t) \in Nat /\ Wall(u) \in Nat /\ Instant(Wall(t)) = t /\ Instant(Wall(u)) = u
    BY TimesAre, ClockIs
  <2>3. Wall(t) = Wall(u)
    BY <2>1, <2>2, HourAndMinute
  <2> QED
    BY <2>2, <2>3
<1>4. f \in Injection(S, A \X B)
  BY <1>2, <1>3 DEF Injection, IsInjective
<1>5. IsFiniteSet(A \X B) /\ Cardinality(A \X B) = Cardinality(A) * Cardinality(B)
  BY <1>1, FS_Product
<1> HIDE DEF f, S, A, B
<1>6. Cardinality(S) <= Cardinality(A \X B)
  BY <1>4, <1>5, FS_Injection
<1> QED
  BY <1>5, <1>6 DEF S, A, B, FiresPerDay

(* nextCron, however long an hour, a day, a month and a week are, and      *)
(* wherever the clock is put back and forward: skipping months, days and   *)
(* hours it passes over no time of the schedule, what it returns is the    *)
(* next one (nothing, when there is none), and no day has more times than  *)
(* firesPerDay says (cron.js).                                             *)
THEOREM TimesAreTheNext == CoreSpec => []TimesAreFound
<1>1. CoreInit => CronInv
  BY CronStarts DEF CoreInit
<1>2. [CoreNext]_coreAll => CronNext \/ UNCHANGED cronVars
  <2> SUFFICES ASSUME [CoreNext]_coreAll PROVE CronNext \/ UNCHANGED cronVars
    OBVIOUS
  <2>1. CASE OfEgress \/ OfPolicy \/ OfCron \/ OfStore
    BY <2>1 DEF OfEgress, OfPolicy, OfCron, OfStore
  <2>2. CASE OfLife \/ OfMock \/ OfLaunch \/ OfTools \/ OfFires \/ OfFiring \/ OfProvision
    BY <2>2 DEF OfLife, OfMock, OfLaunch, OfTools, OfFires, OfFiring, OfProvision
  <2>3. CASE UNCHANGED coreAll
    BY <2>3 DEF coreAll
  <2> QED
    BY <2>1, <2>2, <2>3 DEF CoreNext
<1>3. CronInv /\ [CoreNext]_coreAll => CronInv'
  BY <1>2, CronKeeps, CronStays
<1>4. CronInv => TimesAreFound
  BY NextFollows, LimitFollows DEF TimesAreFound
<1> QED
  BY <1>1, <1>3, <1>4, PTL DEF CoreSpec

(***************************************************************************)
(* The watch over the host's schedules                                     *)
(***************************************************************************)
Listed == [seen : {TRUE}, there : BOOLEAN, row : 1 .. MaxRows + 1, slot : Nat, counts : [Ends -> Nat]]
Readings == [partial : BOOLEAN, row : RowIds \union {NoRow}, slot : Nat, counts : [Ends -> Nat],
             open : RowIds \union {NoRow}, settled : RowIds \union {NoRow}, pending : [Ends -> Nat]]
FwKinds ==
  /\ row \in 1 .. MaxRows + 1 /\ slot \in Nat /\ slot <= odd /\ odd <= MaxOdd
  /\ phase \in {"waiting", "due", "acked"} /\ (phase # "waiting" => row <= MaxRows)
  /\ hand \in {"none", "running", "acked", "over"} /\ call \in {"none", "sent", "answered"}
  /\ endOf \in [RowIds -> Ends \cup {"no"}]
  /\ (phase = "acked" => endOf[row] \in Ends) /\ (hand = "acked" => endOf[ByHand] \in Ends)
  /\ counts \in [Ends -> Nat] /\ watches \subseteq RowIds
  /\ (listing = NoList \/ listing \in Listed) /\ last \in Readings
  /\ runOf \in [RowIds -> {"none", "open", "counted", "ended"}]
  /\ records \in Nat /\ fires \in Nat /\ lets \in Nat /\ lives \in Nat /\ base \in Nat /\ odd \in Nat

AtMost(c, d) == c["completed"] <= d["completed"] /\ c["failed"] <= d["failed"]
CountsGrow ==
  /\ listing # NoList => listing.row <= row /\ listing.slot <= slot /\ AtMost(listing.counts, counts)
  /\ ~last.partial =>
       /\ last.row \in 1 .. MaxRows + 1 /\ last.row <= row /\ last.slot <= slot /\ AtMost(last.counts, counts)
       /\ listing # NoList => last.row <= listing.row /\ AtMost(last.counts, listing.counts)

(* Of a series nobody runs by hand: the counters are of the rows gone by.  *)
CountsAreRows ==
  call = "none" =>
    /\ hand = "none" /\ Ended(counts) + 1 = row
    /\ listing # NoList => Ended(listing.counts) + 1 = listing.row
    /\ ~last.partial => Ended(last.counts) + 1 = last.row

Blank == last.open = NoRow /\ last.settled = NoRow /\ Ended(last.pending) = 0 /\ \A r \in RowIds : runOf[r] = "none"
Follows ==
  call = "none" =>
    /\ last.partial => Blank
    /\ ~last.partial =>
         /\ \A r \in RowIds : /\ runOf[r] # "none" => r <= last.row
                              /\ runOf[r] = "counted" => r < last.row
         /\ last.open # NoRow => runOf[last.open] = "open" /\ last.open <= last.row /\ last.settled # last.open
         /\ last.settled # NoRow => last.settled <= last.row

Going == {r \in RowIds : runOf[r] = "open"}
Accounted == Ended(last.counts) + Ended(last.pending) + Cardinality(Going)
AllRecorded == (call = "none" /\ ~last.partial /\ lives = 1) => Accounted <= records + base

Steady == call = "none" /\ slot = 0
OneAtATime ==
  /\ Ended(last.pending) <= 1
  /\ \A r \in RowIds : runOf[r] = "open" => r = last.row /\ last.open = r /\ last.settled # r /\ Ended(last.pending) = 0
  /\ Ended(last.pending) = 1 => last.settled = last.row
  /\ runOf[last.row] # "none" => last.open = last.row \/ last.settled = last.row
  /\ Ended(last.pending) = 1 \/ runOf[last.row] = "open" => last.row < row \/ phase # "waiting"
NoneTwice ==
  Steady =>
    /\ fires + 1 = row + (IF phase = "waiting" THEN 0 ELSE 1)
    /\ last.partial => records + 1 <= lets + (IF listing = NoList THEN row ELSE listing.row)
    /\ ~last.partial => OneAtATime /\ records <= lets + Accounted

FwInv == FwKinds /\ CountsGrow /\ CountsAreRows /\ Follows /\ AllRecorded /\ NoneTwice

LEMMA EndedIs == \A c \in [Ends -> Nat] : Ended(c) \in Nat /\ c["completed"] \in Nat /\ c["failed"] \in Nat
                                           /\ Ended(c) = c["completed"] + c["failed"]
  BY DEF Ended, Ends

(* The ends that were seen explain the moves, or the moves all of them.    *)
LEMMA AbsorbsAll ==
  ASSUME NEW m \in [Ends -> Nat], NEW p \in [Ends -> Nat], NEW a, a = Absorbed(m, p)
  PROVE  /\ a.left \in [Ends -> Nat] /\ a.kept \in [Ends -> Nat]
         /\ Ended(a.left) + Ended(p) = Ended(m) + Ended(a.kept)
         /\ Ended(a.left) = 0 \/ Ended(a.kept) = 0
<1> DEFINE x(e) == IF m[e] < p[e] THEN m[e] ELSE p[e]
           o(e) == IF e = "completed" THEN "failed" ELSE "completed"
           c(e) == IF m[e] - x(e) < p[o(e)] - x(o(e)) THEN m[e] - x(e) ELSE p[o(e)] - x(o(e))
<1>1. a.left = [e \in Ends |-> (m[e] - x(e)) - c(e)] /\ a.kept = [e \in Ends |-> (p[e] - x(e)) - c(o(e))]
  BY DEF Absorbed, Least2, Ends
<1>2. "completed" \in Ends /\ "failed" \in Ends /\ o("completed") = "failed" /\ o("failed") = "completed"
  BY DEF Ends
<1>3. \A e \in Ends : x(e) \in Nat /\ x(e) <= m[e] /\ x(e) <= p[e] /\ (x(e) = m[e] \/ x(e) = p[e])
  OBVIOUS
<1>4. PICK m1 \in Nat, m2 \in Nat, p1 \in Nat, p2 \in Nat :
        m1 = m["completed"] /\ m2 = m["failed"] /\ p1 = p["completed"] /\ p2 = p["failed"]
  BY <1>2
<1>5. PICK x1 \in Nat, x2 \in Nat : x1 = x("completed") /\ x2 = x("failed")
  BY <1>2, <1>3
<1>6. x1 <= m1 /\ x1 <= p1 /\ x2 <= m2 /\ x2 <= p2 /\ (x1 = m1 \/ x1 = p1) /\ (x2 = m2 \/ x2 = p2)
  BY <1>2, <1>3, <1>4, <1>5
<1>7. PICK c1 \in Nat, c2 \in Nat : c1 = c("completed") /\ c2 = c("failed")
  BY <1>2, <1>4, <1>5, <1>6
<1>8. c1 <= m1 - x1 /\ c1 <= p2 - x2 /\ (c1 = m1 - x1 \/ c1 = p2 - x2)
  BY <1>2, <1>4, <1>5, <1>6, <1>7
<1>9. c2 <= m2 - x2 /\ c2 <= p1 - x1 /\ (c2 = m2 - x2 \/ c2 = p1 - x1)
  BY <1>2, <1>4, <1>5, <1>6, <1>7
<1>10. a.left["completed"] = (m1 - x1) - c1 /\ a.left["failed"] = (m2 - x2) - c2
       /\ a.kept["completed"] = (p1 - x1) - c2 /\ a.kept["failed"] = (p2 - x2) - c1
  BY <1>1, <1>2, <1>4, <1>5, <1>7
<1>11. a.left \in [Ends -> Nat] /\ a.kept \in [Ends -> Nat]
  <2>2. /\ a.left["completed"] \in Nat /\ a.left["failed"] \in Nat
        /\ a.kept["completed"] \in Nat /\ a.kept["failed"] \in Nat
    <3>1. /\ (m1 - x1) - c1 \in Nat /\ (m2 - x2) - c2 \in Nat
          /\ (p1 - x1) - c2 \in Nat /\ (p2 - x2) - c1 \in Nat
      <4> HIDE DEF x, o, c
      <4> QED
        BY <1>6, <1>8, <1>9
    <3> QED
      BY <1>10, <3>1, Zenon
  <2>1. \A e \in Ends : a.left[e] \in Nat /\ a.kept[e] \in Nat
    BY <2>2 DEF Ends
  <2> QED
    BY <1>1, <2>1
<1>12. Ended(a.left) + Ended(p) = Ended(m) + Ended(a.kept)
  BY <1>4, <1>6, <1>8, <1>9, <1>10 DEF Ended
<1>13. Ended(a.left) = 0 \/ Ended(a.kept) = 0
  BY <1>6, <1>8, <1>9, <1>10 DEF Ended
<1> QED
  BY <1>11, <1>12, <1>13

LEMMA MovesAre ==
  ASSUME FwKinds, CountsGrow, listing # NoList
  PROVE  /\ Moves(listing) \in [Ends -> Nat]
         /\ last.partial => Ended(Moves(listing)) = 0
         /\ ~last.partial => Ended(Moves(listing)) + Ended(last.counts) = Ended(listing.counts)
<1>1. listing.counts \in [Ends -> Nat] /\ last.counts \in [Ends -> Nat]
  BY DEF FwKinds, Listed, Readings
<1>2. CASE last.partial
  <2>1. Moves(listing) = [e \in Ends |-> 0]
    BY <1>2, Zenon DEF Moves
  <2> QED
    BY <1>2, <2>1 DEF Ended, Ends
<1>3. CASE ~last.partial
  <2>1. AtMost(last.counts, listing.counts)
    BY <1>3 DEF CountsGrow
  <2>2. Moves(listing) = [e \in Ends |-> listing.counts[e] - last.counts[e]]
    BY <1>3, Zenon DEF Moves
  <2>3. \A e \in Ends : last.counts[e] <= listing.counts[e]
    BY <2>1 DEF AtMost, Ends
  <2>4. Moves(listing) \in [Ends -> Nat]
    BY <1>1, <2>2, <2>3
  <2> QED
    BY <1>1, <1>3, <2>2, <2>4 DEF Ended, Ends
<1> QED
  BY <1>2, <1>3

TimeHasCome == listing.row # row \/ listing.slot # slot \/ phase # "waiting"
(* What a reading finds.                                                   *)
Finds(o, moved, kept) ==
  LET ends == moved > 0 /\ last.open # NoRow
      settled == IF ends THEN last.open ELSE last.settled
      open == IF ends THEN NoRow ELSE last.open IN
  /\ last.partial => moved = 0 /\ Ended(kept) = Ended(last.pending)
  /\ ~last.partial => moved + Ended(last.pending) + Ended(last.counts) = Ended(listing.counts) + Ended(kept)
  /\ moved = 0 \/ Ended(kept) = 0
  /\ o.settledRow = (IF ends THEN last.open ELSE NoRow) /\ o.missed = (IF ends THEN moved - 1 ELSE moved)
  /\ ~o.next.partial /\ o.next.row = listing.row /\ o.next.slot = listing.slot
  /\ o.next.counts = listing.counts /\ o.next.pending = kept
  /\ o.next.settled = settled \/ (o.next.settled = NoRow /\ ~last.partial /\ last.slot # listing.slot)
  /\ \/ /\ o.firedRow = listing.row /\ o.next.open = listing.row /\ TimeHasCome
        /\ open # listing.row /\ o.next.settled # listing.row
     \/ /\ o.firedRow = NoRow /\ o.next.open = open
        /\ TimeHasCome => open = listing.row \/ o.next.settled = listing.row

LEMMA ReadsTo ==
  ASSUME FwKinds, CountsGrow, listing # NoList, NEW o, o = Observed(listing)
  PROVE  /\ o.next \in Readings
         /\ \E moved \in Nat, kept \in [Ends -> Nat] : Finds(o, moved, kept)
<1>1. PICK a : a = Absorbed(Moves(listing), last.pending)
  OBVIOUS
<1>2. last.pending \in [Ends -> Nat] /\ last \in Readings /\ listing \in Listed
  BY DEF FwKinds, Readings
<1>3. /\ a.left \in [Ends -> Nat] /\ a.kept \in [Ends -> Nat]
      /\ Ended(a.left) + Ended(last.pending) = Ended(Moves(listing)) + Ended(a.kept)
      /\ Ended(a.left) = 0 \/ Ended(a.kept) = 0
  BY <1>1, <1>2, MovesAre, AbsorbsAll
<1>4. PICK moved \in Nat : moved = Ended(a.left)
  BY <1>3, EndedIs
<1>5. Ended(a.kept) \in Nat /\ Ended(last.pending) \in Nat /\ Ended(Moves(listing)) \in Nat /\ Ended(listing.counts) \in Nat
      /\ Ended(last.counts) \in Nat
  BY <1>2, <1>3, MovesAre, EndedIs DEF Readings, Listed
<1>6. /\ last.partial => moved = 0 /\ Ended(a.kept) = Ended(last.pending)
      /\ ~last.partial => moved + Ended(last.pending) + Ended(last.counts) = Ended(listing.counts) + Ended(a.kept)
      /\ moved = 0 \/ Ended(a.kept) = 0
  BY <1>3, <1>4, <1>5, MovesAre
<1> DEFINE ends == moved > 0 /\ last.open # NoRow
           settled1 == IF ends THEN last.open ELSE last.settled
           open1 == IF ends THEN NoRow ELSE last.open
           again == ~last.partial /\ last.row = listing.row /\ last.slot # listing.slot /\ settled1 = listing.row
           settled2 == IF again THEN NoRow ELSE settled1
           fired == (<<listing.row, listing.slot>> # <<row, slot>> \/ phase # "waiting") /\ open1 # listing.row /\ settled2 # listing.row
<1>7. o = [settledRow |-> IF ends THEN last.open ELSE NoRow, missed |-> Missed(moved, ends),
           firedRow |-> IF fired THEN listing.row ELSE NoRow,
           next |-> [partial |-> FALSE, row |-> listing.row, slot |-> listing.slot, counts |-> listing.counts,
                     open |-> IF fired THEN listing.row ELSE open1, settled |-> settled2, pending |-> a.kept]]
  BY <1>1, <1>4, Zenon DEF Observed, Ended
<1> HIDE DEF ends, settled1, open1, again, settled2, fired
<1>8. o.settledRow = (IF ends THEN last.open ELSE NoRow) /\ o.missed = (IF ends THEN moved - 1 ELSE moved)
  <2>1. Missed(moved, ends) = IF ends THEN moved - 1 ELSE moved
    BY Zenon DEF Missed
  <2>2. o.missed = Missed(moved, ends) /\ o.settledRow = IF ends THEN last.open ELSE NoRow
    BY <1>7
  <2> QED
    BY <2>1, <2>2, Zenon
<1>9. /\ o.firedRow = (IF fired THEN listing.row ELSE NoRow) /\ o.next.row = listing.row
      /\ o.next.slot = listing.slot /\ o.next.counts = listing.counts /\ o.next.pending = a.kept
      /\ o.next.open = (IF fired THEN listing.row ELSE open1) /\ o.next.settled = settled2
  BY <1>7
<1>10. ~o.next.partial
  BY <1>7
<1>11. TimeHasCome <=> <<listing.row, listing.slot>> # <<row, slot>> \/ phase # "waiting"
  BY DEF TimeHasCome
<1>12. listing.row \in RowIds /\ listing.slot \in Nat /\ listing.counts \in [Ends -> Nat]
       /\ last.open \in RowIds \union {NoRow} /\ last.settled \in RowIds \union {NoRow}
  BY <1>2, FireWatchAssumption DEF Listed, Readings, RowIds, ByHand
<1>13. o.next \in Readings
  <2>1. (IF fired THEN listing.row ELSE open1) \in RowIds \union {NoRow} /\ settled2 \in RowIds \union {NoRow}
    BY <1>12 DEF settled1, open1, settled2
  <2>2. [partial |-> FALSE, row |-> listing.row, slot |-> listing.slot, counts |-> listing.counts,
         open |-> IF fired THEN listing.row ELSE open1, settled |-> settled2, pending |-> a.kept] \in Readings
    <3>1. listing.row \in RowIds \union {NoRow}
      BY <1>12
    <3> QED
      BY <1>3, <1>12, <2>1, <3>1, Zenon DEF Readings
  <2>3. o.next = [partial |-> FALSE, row |-> listing.row, slot |-> listing.slot, counts |-> listing.counts,
         open |-> IF fired THEN listing.row ELSE open1, settled |-> settled2, pending |-> a.kept]
    BY <1>7
  <2> QED
    BY <2>2, <2>3, Zenon
<1>14. Finds(o, moved, a.kept)
  <2>1. o.next.settled = settled1 \/ (o.next.settled = NoRow /\ ~last.partial /\ last.slot # listing.slot)
    BY <1>9 DEF settled2, again
  <2>2. \/ /\ o.firedRow = listing.row /\ o.next.open = listing.row /\ TimeHasCome
           /\ open1 # listing.row /\ o.next.settled # listing.row
        \/ /\ o.firedRow = NoRow /\ o.next.open = open1
           /\ TimeHasCome => open1 = listing.row \/ o.next.settled = listing.row
    BY <1>9, <1>11, Zenon DEF fired
  <2> QED
    BY <1>6, <1>8, <1>9, <1>10, <2>1, <2>2, Zenon DEF Finds, ends, settled1, open1
<1> QED
  BY <1>3, <1>13, <1>14

LEMMA RowsAre == /\ IsFiniteSet(RowIds) /\ NoRow \notin RowIds /\ ByHand \in RowIds /\ NoRow \in Nat
                 /\ 1 .. MaxRows + 1 \subseteq RowIds /\ RowIds \subseteq Nat
  BY FireWatchAssumption, FS_Interval DEF RowIds, NoRow, ByHand

LEMMA GoingIs == IsFiniteSet(Going) /\ Cardinality(Going) \in Nat /\ Going \subseteq RowIds
  BY RowsAre, FS_Subset, FS_CardinalityType DEF Going

Settles(o, r) == r = o.settledRow /\ runOf[r] = "open"
Opens(o, run1) == o.firedRow # NoRow /\ run1[o.firedRow] \notin {"open", "counted"}
RunStates == {"none", "open", "counted", "ended"}
Reads(o, moved, kept, run1, explained, n) ==
  /\ Finds(o, moved, kept) /\ o.next \in Readings
  /\ run1 = [r \in RowIds |-> IF Settles(o, r) THEN "counted" ELSE runOf[r]]
  /\ n <= o.missed /\ Cardinality(explained) = n /\ explained \subseteq {r \in RowIds : run1[r] = "open"}
  /\ last' = o.next /\ base' = IF last.partial THEN Ended(listing.counts) ELSE base
  /\ runOf' = [r \in RowIds |-> IF r \in explained THEN "counted"
                                ELSE IF Opens(o, run1) /\ r = o.firedRow THEN "open" ELSE run1[r]]
  /\ records' = records + (o.missed - n) + (IF Opens(o, run1) THEN 1 ELSE 0)
  /\ watches' = IF Opens(o, run1) THEN watches \cup {o.firedRow} ELSE watches
  /\ Cardinality(Going)' + n + (IF \E r \in RowIds : Settles(o, r) THEN 1 ELSE 0)
       = Cardinality(Going) + (IF Opens(o, run1) THEN 1 ELSE 0)

ReadsAs(o, run1, going, n) ==
  /\ o = Observed(listing) /\ run1 = [r \in RowIds |-> IF Settles(o, r) THEN "counted" ELSE runOf[r]]
  /\ going = {r \in RowIds : run1[r] = "open"} /\ n = Least2(o.missed, Cardinality(going))
  /\ \E explained \in kSubset(n, going) :
        /\ last' = o.next /\ base' = IF last.partial THEN Ended(listing.counts) ELSE base
        /\ runOf' = [r \in RowIds |-> IF r \in explained THEN "counted"
                                      ELSE IF Opens(o, run1) /\ r = o.firedRow THEN "open" ELSE run1[r]]
        /\ records' = records + (o.missed - n) + (IF Opens(o, run1) THEN 1 ELSE 0)
        /\ watches' = IF Opens(o, run1) THEN watches \cup {o.firedRow} ELSE watches

LEMMA ReadIsAs == ListRead /\ listing.there => \E o, run1, going, n : ReadsAs(o, run1, going, n)
<1> SUFFICES ASSUME ListRead, listing.there PROVE \E o, run1, going, n : ReadsAs(o, run1, going, n)
  OBVIOUS
<1> DEFINE o == Observed(listing)
           run1 == [r \in RowIds |-> IF r = o.settledRow /\ runOf[r] = "open" THEN "counted" ELSE runOf[r]]
           going == {r \in RowIds : run1[r] = "open"}
           n == Least2(o.missed, Cardinality(going))
           firedOpens == o.firedRow # NoRow /\ run1[o.firedRow] \notin {"open", "counted"}
<1>1. /\ last' = o.next /\ base' = IF last.partial THEN Ended(listing.counts) ELSE base
      /\ \E explained \in kSubset(n, going) :
            runOf' = [r \in RowIds |-> IF r \in explained THEN "counted"
                                       ELSE IF firedOpens /\ r = o.firedRow THEN "open" ELSE run1[r]]
      /\ records' = records + (o.missed - n) + (IF firedOpens THEN 1 ELSE 0)
      /\ watches' = IF firedOpens THEN watches \cup {o.firedRow} ELSE watches
  BY Zenon DEF ListRead
<1>2. run1 = [r \in RowIds |-> IF Settles(o, r) THEN "counted" ELSE runOf[r]]
  BY Zenon DEF Settles
<1>3. firedOpens = Opens(o, run1) /\ o = Observed(listing) /\ going = {r \in RowIds : run1[r] = "open"}
      /\ n = Least2(o.missed, Cardinality(going))
  BY Zenon DEF Opens
<1> HIDE DEF o, run1, going, n, firedOpens
<1>4. ReadsAs(o, run1, going, n)
  BY <1>1, <1>2, <1>3, Zenon DEF ReadsAs
<1> QED
  BY <1>4, Zenon

LEMMA ReadIs ==
  ASSUME FwKinds, CountsGrow, ListRead, listing.there
  PROVE  \E o, run1, explained : \E moved \in Nat, kept \in [Ends -> Nat], n \in Nat :
           Reads(o, moved, kept, run1, explained, n)
<1>1. PICK o, run1, going, n : ReadsAs(o, run1, going, n)
  BY ReadIsAs
<1>2. listing # NoList
  BY DEF ListRead
<1>3. PICK moved \in Nat, kept \in [Ends -> Nat] : Finds(o, moved, kept)
  BY <1>1, <1>2, ReadsTo, Zenon DEF ReadsAs
<1>4. o.next \in Readings
  BY <1>1, <1>2, ReadsTo, Zenon DEF ReadsAs
<1>5. run1 = [r \in RowIds |-> IF Settles(o, r) THEN "counted" ELSE runOf[r]]
  BY <1>1, Zenon DEF ReadsAs
<1>6. going = {r \in RowIds : run1[r] = "open"}
  BY <1>1, Zenon DEF ReadsAs
<1>7. n = Least2(o.missed, Cardinality(going))
  BY <1>1, Zenon DEF ReadsAs
<1>8. PICK explained \in kSubset(n, going) :
        /\ last' = o.next /\ base' = IF last.partial THEN Ended(listing.counts) ELSE base
        /\ runOf' = [r \in RowIds |-> IF r \in explained THEN "counted"
                                      ELSE IF Opens(o, run1) /\ r = o.firedRow THEN "open" ELSE run1[r]]
        /\ records' = records + (o.missed - n) + (IF Opens(o, run1) THEN 1 ELSE 0)
        /\ watches' = IF Opens(o, run1) THEN watches \cup {o.firedRow} ELSE watches
  BY <1>1, Zenon DEF ReadsAs
<1>9. IsFiniteSet(going) /\ Cardinality(going) \in Nat /\ going \subseteq RowIds
  BY <1>6, RowsAre, FS_Subset, FS_CardinalityType
<1>10. o.missed \in Nat
  BY <1>3, FireWatchAssumption DEF Finds
<1>11. n \in Nat /\ n <= o.missed
  BY <1>7, <1>9, <1>10 DEF Least2
<1>12. explained \subseteq going /\ Cardinality(explained) = n
  BY <1>8 DEF kSubset
<1>13. runOf \in [RowIds -> RunStates]
  BY DEF FwKinds, RunStates
<1>14. Cardinality(going) + (IF \E r \in RowIds : Settles(o, r) THEN 1 ELSE 0) = Cardinality(Going)
  <2>1. CASE \E r \in RowIds : Settles(o, r)
    <3>1. PICK r \in RowIds : Settles(o, r)
      BY <2>1
    <3>2. going = Going \ {r} /\ r \in Going
      BY <3>1, <1>5, <1>6, <1>13 DEF Settles, Going
    <3>3. Cardinality(going) + 1 = Cardinality(Going)
      <4>1. IsFiniteSet(Going) /\ Cardinality(Going) \in Nat
        BY GoingIs
      <4>2. Cardinality(Going \ {r}) = Cardinality(Going) - 1
        BY <3>2, <4>1, FS_RemoveElement
      <4> QED
        BY <3>2, <4>1, <4>2
    <3> QED
      BY <2>1, <3>3
  <2>2. CASE ~ \E r \in RowIds : Settles(o, r)
    <3>1. going = Going
      BY <2>2, <1>5, <1>6, <1>13 DEF Going
    <3> QED
      BY <2>2, <3>1, <1>9
  <2> QED
    BY <2>1, <2>2
<1>15. IsFiniteSet(going \ explained) /\ Cardinality(going \ explained) = Cardinality(going) - n
       /\ Cardinality(going \ explained) \in Nat
  <2>1. going \cap explained = explained
    BY <1>12
  <2> QED
    BY <2>1, <1>9, <1>12, FS_Difference, FS_CardinalityType
<1>16. Cardinality(Going)' = Cardinality(going \ explained) + (IF Opens(o, run1) THEN 1 ELSE 0)
  <2>1. CASE Opens(o, run1)
    <3>1. o.firedRow \in RowIds /\ o.firedRow \notin going
      <4>1. o.firedRow = listing.row /\ listing.row \in RowIds
        BY <1>2, <1>3, <2>1, RowsAre DEF Finds, Opens, FwKinds, Listed
      <4> QED
        BY <4>1, <2>1, <1>6 DEF Opens
    <3>2. Going' = (going \ explained) \union {o.firedRow}
      BY <1>5, <1>6, <1>8, <1>12, <1>13, <2>1, <3>1 DEF Going
    <3> QED
      BY <2>1, <3>1, <3>2, <1>15, FS_AddElement
  <2>2. CASE ~Opens(o, run1)
    <3>1. Going' = going \ explained
      BY <1>5, <1>6, <1>8, <1>12, <1>13, <2>2 DEF Going
    <3> QED
      BY <2>2, <3>1, <1>15
  <2> QED
    BY <2>1, <2>2
<1>17. Cardinality(Going)' + n + (IF \E r \in RowIds : Settles(o, r) THEN 1 ELSE 0)
         = Cardinality(Going) + (IF Opens(o, run1) THEN 1 ELSE 0)
  BY <1>9, <1>11, <1>14, <1>15, <1>16
<1>18. explained \subseteq {r \in RowIds : run1[r] = "open"}
  BY <1>6, <1>12
<1>19. Reads(o, moved, kept, run1, explained, n)
  BY <1>3, <1>4, <1>5, <1>8, <1>11, <1>12, <1>17, <1>18 DEF Reads
<1> QED
  BY <1>11, <1>19, Zenon

(* What a list that is read means for a series nobody runs by hand.        *)
LEMMA ReadMeans ==
  ASSUME FwInv, listing # NoList, call = "none",
         NEW o, NEW run1, NEW explained, NEW moved \in Nat, NEW kept \in [Ends -> Nat], NEW n \in Nat,
         Reads(o, moved, kept, run1, explained, n)
  PROVE  /\ Ended(kept) \in Nat /\ Ended(last.pending) \in Nat /\ listing.row \in Nat /\ listing.row <= row
         /\ ~last.partial => /\ moved + Ended(last.pending) + last.row = listing.row + Ended(kept)
                             /\ last.row \in Nat /\ last.row <= listing.row
         /\ last.partial => moved = 0 /\ Ended(kept) = 0
         /\ moved > 0 => Ended(kept) = 0 /\ ~last.partial /\ last.row < listing.row
         /\ \A r \in explained : /\ r \in RowIds /\ runOf[r] = "open" /\ ~Settles(o, r) /\ r < listing.row
                                 /\ moved > 0 /\ r # last.open
         /\ \A r \in RowIds : Settles(o, r) <=> moved > 0 /\ r = last.open
<1>1. listing \in Listed /\ last \in Readings
  BY DEF FwInv, FwKinds
<1>2. /\ Ended(kept) \in Nat /\ Ended(last.pending) \in Nat /\ Ended(last.counts) \in Nat /\ Ended(listing.counts) \in Nat
      /\ listing.row \in Nat /\ listing.row <= row
  BY <1>1, EndedIs, FireWatchAssumption DEF Listed, Readings, FwInv, CountsGrow
<1>3. Finds(o, moved, kept)
  BY DEF Reads
<1>4. Ended(listing.counts) + 1 = listing.row /\ (~last.partial => Ended(last.counts) + 1 = last.row)
  BY DEF FwInv, CountsAreRows
<1>5. ~last.partial => /\ moved + Ended(last.pending) + last.row = listing.row + Ended(kept)
                       /\ last.row \in Nat /\ last.row <= listing.row
  <2>1. ~last.partial => moved + Ended(last.pending) + Ended(last.counts) = Ended(listing.counts) + Ended(kept)
    BY <1>3 DEF Finds
  <2>2. ~last.partial => last.row \in Nat /\ last.row <= listing.row
    BY FireWatchAssumption DEF FwInv, CountsGrow
  <2> QED
    BY <1>2, <1>4, <2>1, <2>2
<1>6. last.partial => moved = 0 /\ Ended(kept) = 0 /\ Blank
  BY <1>3 DEF Finds, FwInv, Follows, Blank
<1>7. moved > 0 => Ended(kept) = 0 /\ ~last.partial /\ last.row < listing.row
  <2>1. moved = 0 \/ Ended(kept) = 0
    BY <1>3 DEF Finds
  <2> QED
    BY <1>2, <1>5, <1>6, <2>1
<1>8. ASSUME NEW r \in RowIds PROVE Settles(o, r) <=> moved > 0 /\ r = last.open
  <2>1. o.settledRow = IF moved > 0 /\ last.open # NoRow THEN last.open ELSE NoRow
    BY <1>3 DEF Finds
  <2>2. r # NoRow
    BY RowsAre
  <2>3. moved > 0 /\ r = last.open => runOf[r] = "open"
    BY <1>7, <2>2 DEF FwInv, Follows
  <2> QED
    BY <2>1, <2>2, <2>3 DEF Settles
<1>9. ASSUME NEW r \in explained
      PROVE  r \in RowIds /\ runOf[r] = "open" /\ ~Settles(o, r) /\ r < listing.row /\ moved > 0 /\ r # last.open
  <2>1. /\ r \in RowIds /\ run1[r] = "open" /\ n <= o.missed /\ Cardinality(explained) = n
        /\ explained \subseteq RowIds
        /\ run1 = [q \in RowIds |-> IF Settles(o, q) THEN "counted" ELSE runOf[q]]
    BY <1>9 DEF Reads
  <2>2. runOf[r] = "open" /\ ~Settles(o, r)
    BY <2>1
  <2>3. n # 0
    BY <1>9, <2>1, RowsAre, FS_Subset, FS_EmptySet
  <2>4. o.missed <= moved /\ o.missed \in Nat
    BY <1>3 DEF Finds
  <2>5. moved > 0
    BY <2>1, <2>3, <2>4
  <2>6. r <= last.row
    BY <1>7, <2>1, <2>2, <2>5 DEF FwInv, Follows
  <2>7. r \in Nat
    BY <2>1, RowsAre
  <2>8. r # last.open
    BY <1>8, <2>1, <2>2, <2>5
  <2> QED
    BY <1>2, <1>5, <1>7, <2>1, <2>2, <2>5, <2>6, <2>7, <2>8
<1> QED
  BY <1>2, <1>5, <1>6, <1>7, <1>8, <1>9

LEMMA ReadFollows ==
  ASSUME FwInv, ListRead, call = "none",
         NEW o, NEW run1, NEW explained, NEW moved \in Nat, NEW kept \in [Ends -> Nat], NEW n \in Nat,
         Reads(o, moved, kept, run1, explained, n)
  PROVE  Follows'
<1>1. listing # NoList
  BY DEF ListRead
<1>2. last' = o.next /\ ~o.next.partial /\ o.next.row = listing.row /\ Finds(o, moved, kept)
  BY DEF Reads, Finds
<1>3. /\ run1 = [r \in RowIds |-> IF Settles(o, r) THEN "counted" ELSE runOf[r]]
      /\ runOf' = [r \in RowIds |-> IF r \in explained THEN "counted"
                                    ELSE IF Opens(o, run1) /\ r = o.firedRow THEN "open" ELSE run1[r]]
  BY DEF Reads
<1>4. listing.row \in RowIds /\ listing.row \in Nat /\ listing.row # NoRow
  BY <1>1, RowsAre DEF FwInv, FwKinds, Listed
<1>5. \A r \in RowIds : /\ runOf[r] # "none" => ~last.partial /\ r <= last.row
                        /\ runOf[r] = "counted" => r < last.row
  BY DEF FwInv, Follows, Blank
<1>6. \A r \in RowIds : r \in Nat
  BY RowsAre
<1>7. o.firedRow \in {NoRow, listing.row}
  BY <1>2 DEF Finds
<1>8. /\ ~last.partial => last.row \in Nat /\ last.row <= listing.row
      /\ moved > 0 => ~last.partial /\ last.row < listing.row
      /\ \A r \in explained : /\ r \in RowIds /\ runOf[r] = "open" /\ ~Settles(o, r) /\ r < listing.row
                              /\ moved > 0 /\ r # last.open
      /\ \A r \in RowIds : Settles(o, r) <=> moved > 0 /\ r = last.open
  <2>1. /\ Ended(kept) \in Nat /\ Ended(last.pending) \in Nat /\ listing.row \in Nat /\ listing.row <= row
        /\ ~last.partial => /\ moved + Ended(last.pending) + last.row = listing.row + Ended(kept)
                            /\ last.row \in Nat /\ last.row <= listing.row
        /\ last.partial => moved = 0 /\ Ended(kept) = 0
        /\ moved > 0 => Ended(kept) = 0 /\ ~last.partial /\ last.row < listing.row
        /\ \A r \in explained : /\ r \in RowIds /\ runOf[r] = "open" /\ ~Settles(o, r) /\ r < listing.row
                                /\ moved > 0 /\ r # last.open
        /\ \A r \in RowIds : Settles(o, r) <=> moved > 0 /\ r = last.open
    BY <1>1, ReadMeans, Zenon
  <2> QED
    BY <2>1, Zenon
<1>9. last.open # NoRow => ~last.partial /\ last.open \in RowIds /\ runOf[last.open] = "open" /\ last.open <= last.row
                           /\ last.settled # last.open
  BY DEF FwInv, Follows, Blank, FwKinds, Readings
<1>10. last.settled # NoRow => ~last.partial /\ last.settled <= last.row /\ last.settled \in RowIds
  BY DEF FwInv, Follows, Blank, FwKinds, Readings
<1>11. ASSUME NEW r \in RowIds
       PROVE  /\ runOf'[r] # "none" => r <= listing.row
              /\ runOf'[r] = "counted" => r < listing.row
  <2>1. CASE r \in explained
    BY <1>3, <1>4, <1>6, <1>8, <2>1
  <2>2. CASE r \notin explained /\ Opens(o, run1) /\ r = o.firedRow
    <3>1. runOf'[r] = "open" /\ r = listing.row
      BY <1>3, <1>7, <2>2 DEF Opens
    <3> QED
      BY <1>4, <3>1
  <2>3. CASE r \notin explained /\ ~(Opens(o, run1) /\ r = o.firedRow)
    <3>1. runOf'[r] = IF Settles(o, r) THEN "counted" ELSE runOf[r]
      BY <1>3, <2>3
    <3>2. CASE Settles(o, r)
      <4>1. moved > 0 /\ r = last.open /\ r # NoRow
        BY <1>8, <3>2, RowsAre
      <4>2. r <= last.row /\ last.row \in Nat /\ last.row < listing.row /\ r \in Nat
        BY <1>6, <1>8, <1>9, <4>1
      <4>3. r < listing.row
        BY <1>4, <4>2
      <4> QED
        BY <4>2, <4>3, <1>4
    <3>3. CASE ~Settles(o, r)
      BY <1>4, <1>5, <1>6, <1>8, <3>1, <3>3
    <3> QED
      BY <3>2, <3>3
  <2> QED
    BY <2>1, <2>2, <2>3
<1>12. ASSUME o.firedRow = listing.row PROVE runOf'[listing.row] = "open"
  <2>1. o.next.open = listing.row /\ o.next.settled # listing.row
        /\ (IF moved > 0 /\ last.open # NoRow THEN NoRow ELSE last.open) # listing.row
    BY <1>2, <1>4, <1>12 DEF Finds
  <2>2. listing.row \notin explained
    BY <1>4, <1>8
  <2>3. runOf'[listing.row] = "open"
    <3>1. CASE Opens(o, run1)
      BY <1>3, <1>4, <1>12, <2>2, <3>1
    <3>2. CASE ~Opens(o, run1)
      <4>1. run1[listing.row] \in {"open", "counted"}
        BY <1>4, <1>12, <3>2 DEF Opens
      <4>2. ~Settles(o, listing.row)
        BY <1>4, <1>8, <1>9
      <4>3. run1[listing.row] = runOf[listing.row]
        BY <1>3, <1>4, <4>2
      <4>4. runOf[listing.row] # "counted"
        BY <1>4, <1>5, <1>8
      <4> QED
        BY <1>3, <1>4, <2>2, <3>2, <4>1, <4>3, <4>4
    <3> QED
      BY <3>1, <3>2
  <2> QED
    BY <2>3
<1>13. ASSUME o.firedRow = NoRow, o.next.open # NoRow
       PROVE  o.next.open = last.open /\ runOf'[last.open] = "open" /\ o.next.settled # last.open
  <2>1. o.next.open = (IF moved > 0 /\ last.open # NoRow THEN NoRow ELSE last.open)
    BY <1>2, <1>4, <1>13 DEF Finds
  <2>2. o.next.open # NoRow => o.next.open = last.open /\ moved = 0
    BY <2>1
  <2>3. o.next.open # NoRow => runOf'[last.open] = "open"
    BY <1>3, <1>8, <1>9, <1>13, <2>2 DEF Opens
  <2>4. o.next.open # NoRow => o.next.settled \in {last.settled, NoRow}
    BY <1>2, <2>2 DEF Finds
  <2> QED
    BY <1>8, <1>9, <1>13, <2>2, <2>3, <2>4
<1>14. /\ o.next.open # NoRow => runOf'[o.next.open] = "open"
       /\ o.next.open # NoRow => o.next.open <= listing.row
       /\ o.next.open # NoRow => o.next.settled # o.next.open
  <2>1. CASE o.firedRow = listing.row
    <3>1. o.next.open = listing.row /\ o.next.settled # listing.row
      BY <1>2, <1>4, <2>1 DEF Finds
    <3> QED
      BY <1>4, <1>12, <2>1, <3>1
  <2>2. CASE o.firedRow = NoRow
    BY <1>4, <1>6, <1>8, <1>9, <1>13, <2>2
  <2> QED
    BY <1>7, <2>1, <2>2
<1>15. o.next.settled # NoRow => o.next.settled <= listing.row
  <2>1. o.next.settled # NoRow => o.next.settled = last.settled \/ (o.next.settled = last.open /\ last.open # NoRow)
    BY <1>2 DEF Finds
  <2> QED
    BY <1>4, <1>6, <1>8, <1>9, <1>10, <2>1
<1>16. /\ ~last'.partial /\ last'.row = listing.row /\ last'.open = o.next.open /\ last'.settled = o.next.settled
  BY <1>2
<1> QED
  BY <1>11, <1>14, <1>15, <1>16 DEF Follows

(* What a list is read as adds to the records what it adds to the account. *)
LEMMA ReadAccounts ==
  ASSUME FwInv, ListRead, call = "none",
         NEW o, NEW run1, NEW explained, NEW moved \in Nat, NEW kept \in [Ends -> Nat], NEW n \in Nat,
         Reads(o, moved, kept, run1, explained, n)
  PROVE  /\ Accounted \in Nat /\ Accounted' \in Nat /\ records' \in Nat
         /\ ~last.partial => records' + Accounted = records + Accounted'
         /\ last.partial => records' + Ended(listing.counts) = records + Accounted'
<1>1. listing # NoList /\ listing \in Listed /\ last \in Readings /\ records \in Nat
  BY DEF ListRead, FwInv, FwKinds
<1>2. Finds(o, moved, kept) /\ last' = o.next /\ o.next.counts = listing.counts /\ o.next.pending = kept
  BY DEF Reads, Finds
<1>3. PICK x \in Nat, k \in Nat, c \in Nat, l \in Nat :
        x = Ended(last.pending) /\ k = Ended(kept) /\ c = Ended(last.counts) /\ l = Ended(listing.counts)
  BY <1>1, EndedIs DEF Listed, Readings
<1>4. PICK g \in Nat : g = Cardinality(Going)
  BY GoingIs
<1>5. PICK s \in Nat : s \in {0, 1} /\ s = IF \E r \in RowIds : Settles(o, r) THEN 1 ELSE 0
  OBVIOUS
<1>6. PICK op \in Nat : op = IF Opens(o, run1) THEN 1 ELSE 0
  OBVIOUS
<1>7. runOf' \in [RowIds -> RunStates]
  <2>1. runOf \in [RowIds -> RunStates]
    BY DEF FwInv, FwKinds, RunStates
  <2>2. run1 \in [RowIds -> RunStates]
    BY <2>1 DEF Reads, RunStates
  <2> QED
    BY <2>2 DEF Reads, RunStates
<1>8. Cardinality(Going)' + n + s = g + op
  BY <1>4, <1>5, <1>6 DEF Reads
<1>9. PICK h \in Nat : h = Cardinality(Going')
  BY RowsAre, FS_Subset, FS_CardinalityType DEF Going
<1>10. records' = records + (o.missed - n) + op /\ n <= o.missed
  BY <1>6 DEF Reads
<1>11. o.missed \in Nat /\ o.missed + s = moved
  <2>1. s = 1 <=> moved > 0 /\ last.open # NoRow
    <3>1. \A r \in RowIds : Settles(o, r) <=> moved > 0 /\ r = last.open
      BY <1>1, ReadMeans
    <3>2. last.open # NoRow => last.open \in RowIds
      BY <1>1 DEF Readings
    <3>3. NoRow \notin RowIds
      BY RowsAre
    <3> QED
      BY <1>5, <3>1, <3>2, <3>3
  <2>2. o.missed = IF moved > 0 /\ last.open # NoRow THEN moved - 1 ELSE moved
    BY <1>2 DEF Finds
  <2> QED
    BY <1>5, <2>1, <2>2
<1>12. Accounted = c + x + g /\ Accounted' = l + k + h
  BY <1>2, <1>3, <1>4, <1>9 DEF Accounted
<1>13. h + n + s = g + op /\ records' = records + (o.missed - n) + op
  BY <1>8, <1>9, <1>10
<1>14. Accounted \in Nat /\ Accounted' \in Nat /\ records' \in Nat
  BY <1>1, <1>10, <1>11, <1>12
<1>15. ASSUME ~last.partial PROVE records' + Accounted = records + Accounted'
  <2>1. moved + x + c = l + k
    BY <1>2, <1>3, <1>15 DEF Finds
  <2>2. PICK q \in Nat, v \in Nat, w \in Nat : q = records /\ v = o.missed /\ w = records'
    BY <1>1, <1>11, <1>14
  <2>3. /\ w = q + (v - n) + op /\ n <= v /\ v + s = moved /\ h + n + s = g + op
        /\ moved + x + c = l + k
    BY <1>10, <1>11, <1>13, <2>1, <2>2
  <2>4. w + (c + x + g) = q + (l + k + h)
    BY <2>3
  <2> QED
    BY <1>12, <2>2, <2>4
<1>16. ASSUME last.partial PROVE records' + Ended(listing.counts) = records + Accounted'
  <2>1. moved = 0 /\ k = 0
    <3>1. last.partial => moved = 0 /\ Ended(kept) = 0
      BY <1>1, ReadMeans
    <3> QED
      BY <1>3, <1>16, <3>1
  <2>2. Going = {}
    BY <1>16 DEF FwInv, Follows, Blank, Going
  <2>3. g = 0
    BY <1>4, <2>2, FS_EmptySet
  <2>4. PICK q \in Nat, v \in Nat, w \in Nat : q = records /\ v = o.missed /\ w = records'
    BY <1>1, <1>11, <1>14
  <2>5. w = q + (v - n) + op /\ n <= v /\ v + s = 0 /\ h + n + s = op
    BY <1>10, <1>11, <1>13, <2>1, <2>3, <2>4
  <2>6. w + l = q + (l + k + h)
    BY <2>1, <2>5
  <2> QED
    BY <1>3, <1>12, <2>4, <2>6
<1> QED
  BY <1>14, <1>15, <1>16

(* In a series that is given no new time, a reading keeps to one at a time. *)
LEMMA ReadOneAtATime ==
  ASSUME FwInv, ListRead, Steady, UNCHANGED host,
         NEW o, NEW run1, NEW explained, NEW moved \in Nat, NEW kept \in [Ends -> Nat], NEW n \in Nat,
         Reads(o, moved, kept, run1, explained, n)
  PROVE  OneAtATime'
<1>1. call = "none" /\ slot = 0 /\ listing # NoList /\ (~last.partial => OneAtATime)
  BY DEF Steady, ListRead, FwInv, NoneTwice
<1>2. last' = o.next /\ ~o.next.partial /\ o.next.row = listing.row /\ o.next.pending = kept /\ Finds(o, moved, kept)
  BY DEF Reads, Finds
<1>3. /\ run1 = [r \in RowIds |-> IF Settles(o, r) THEN "counted" ELSE runOf[r]]
      /\ runOf' = [r \in RowIds |-> IF r \in explained THEN "counted"
                                    ELSE IF Opens(o, run1) /\ r = o.firedRow THEN "open" ELSE run1[r]]
  BY DEF Reads
<1>4. listing.row \in RowIds /\ listing.row \in Nat /\ listing.row # NoRow /\ listing.row <= row /\ row \in Nat
  BY <1>1, RowsAre DEF FwInv, FwKinds, Listed, CountsGrow
<1>5. /\ Ended(kept) \in Nat /\ Ended(last.pending) \in Nat
      /\ ~last.partial => moved + Ended(last.pending) + last.row = listing.row + Ended(kept)
      /\ ~last.partial => last.row \in Nat
      /\ ~last.partial => last.row <= listing.row
      /\ last.partial => moved = 0 /\ Ended(kept) = 0
      /\ moved > 0 => Ended(kept) = 0 /\ ~last.partial /\ last.row < listing.row
      /\ \A r \in explained : /\ r \in RowIds /\ runOf[r] = "open" /\ ~Settles(o, r) /\ r < listing.row
                              /\ moved > 0 /\ r # last.open
      /\ \A r \in RowIds : Settles(o, r) <=> moved > 0 /\ r = last.open
  <2>1. /\ Ended(kept) \in Nat /\ Ended(last.pending) \in Nat /\ listing.row \in Nat /\ listing.row <= row
        /\ ~last.partial => /\ moved + Ended(last.pending) + last.row = listing.row + Ended(kept)
                            /\ last.row \in Nat /\ last.row <= listing.row
        /\ last.partial => moved = 0 /\ Ended(kept) = 0
        /\ moved > 0 => Ended(kept) = 0 /\ ~last.partial /\ last.row < listing.row
        /\ \A r \in explained : /\ r \in RowIds /\ runOf[r] = "open" /\ ~Settles(o, r) /\ r < listing.row
                                /\ moved > 0 /\ r # last.open
        /\ \A r \in RowIds : Settles(o, r) <=> moved > 0 /\ r = last.open
    BY <1>1, ReadMeans, Zenon
  <2> QED
    BY <2>1, Zenon
<1>6. ~last.partial => last.row \in RowIds
  BY RowsAre DEF FwInv, CountsGrow
<1>7. listing.slot = 0 /\ (~last.partial => last.slot = 0)
  <2>1. listing.slot \in Nat /\ last.slot \in Nat
    BY <1>1 DEF FwInv, FwKinds, Listed, Readings
  <2>2. listing.slot <= 0 /\ (~last.partial => last.slot <= 0)
    BY <1>1 DEF FwInv, CountsGrow
  <2> QED
    BY <2>1, <2>2
<1>8. explained = {}
  <2> SUFFICES ASSUME NEW r \in explained PROVE FALSE
    OBVIOUS
  <2>1. runOf[r] = "open" /\ r \in RowIds /\ moved > 0 /\ ~last.partial /\ r # last.open
    BY <1>5
  <2>2. last.open = r
    BY <1>1, <2>1 DEF OneAtATime
  <2> QED
    BY <2>1, <2>2
<1>9. o.next.settled = IF moved > 0 /\ last.open # NoRow THEN last.open ELSE last.settled
  BY <1>2, <1>7 DEF Finds
<1>10. TimeHasCome <=> listing.row < row \/ phase # "waiting"
  BY <1>1, <1>4, <1>7 DEF TimeHasCome
<1>11. /\ runOf[listing.row] # "none" => ~last.partial /\ listing.row = last.row
       /\ runOf[listing.row] \in {"open", "counted"} => runOf[listing.row] = "open"
       /\ last.settled # NoRow => ~last.partial /\ last.settled <= last.row
       /\ last.open # NoRow => ~last.partial /\ last.open <= last.row
  BY <1>1, <1>4, <1>5 DEF FwInv, Follows, Blank
<1>12. /\ last.open \in RowIds \union {NoRow} /\ last.settled \in RowIds \union {NoRow}
       /\ \A r \in RowIds : r \in Nat
       /\ last.open # NoRow => runOf[last.open] = "open"
  BY <1>1, RowsAre DEF FwInv, FwKinds, Readings, Follows, Blank
<1>16. row' = row /\ phase' = phase
  BY DEF host
(* The row is another than it was, or there was no reading.                *)
<1>13. ASSUME last.partial \/ last.row # listing.row
       PROVE  /\ Ended(kept) = 0 /\ runOf[listing.row] = "none" /\ o.next.settled # listing.row
              /\ \A r \in RowIds : run1[r] # "open"
              /\ (IF moved > 0 /\ last.open # NoRow THEN NoRow ELSE last.open) = NoRow
  <2>1. runOf[listing.row] = "none"
    BY <1>11, <1>13
  <2>2. ~last.partial => last.row < listing.row
    BY <1>4, <1>5, <1>13
  <2>3. CASE last.partial
    <3>1. last.open = NoRow /\ last.settled = NoRow /\ moved = 0 /\ Ended(kept) = 0 /\ \A r \in RowIds : runOf[r] = "none"
      BY <1>5, <1>11, <2>3, <1>1 DEF FwInv, Follows, Blank
    <3> QED
      BY <1>3, <1>4, <1>9, <2>1, <3>1
  <2>4. CASE ~last.partial
    <3>1. o.next.settled # listing.row
      BY <1>4, <1>5, <1>9, <1>11, <1>12, <2>2, <2>4
    <3>2. Ended(last.pending) <= 1
      BY <1>1, <2>4 DEF OneAtATime
    <3>3. Ended(kept) = 0
      BY <1>2, <1>4, <1>5, <2>2, <2>4, <3>2 DEF Finds
    <3>4. ASSUME NEW r \in RowIds, runOf[r] = "open" PROVE Settles(o, r) /\ moved > 0
      <4>1. last.open = r /\ Ended(last.pending) = 0
        BY <1>1, <2>4, <3>4 DEF OneAtATime
      <4>2. moved > 0
        BY <1>4, <1>5, <2>2, <2>4, <3>3, <4>1
      <4> QED
        BY <1>5, <4>1, <4>2
    <3>5. \A r \in RowIds : run1[r] # "open"
      BY <1>3, <3>4
    <3>6. last.open # NoRow => moved > 0
      BY <1>12, <3>4
    <3> QED
      BY <2>1, <3>1, <3>3, <3>5, <3>6
  <2> QED
    BY <2>3, <2>4
<1>14. CASE last.partial \/ last.row # listing.row
  <2>1. CASE TimeHasCome
    <3>1. o.firedRow = listing.row /\ o.next.open = listing.row
      BY <1>2, <1>4, <1>13, <1>14, <2>1 DEF Finds
    <3>2. run1[listing.row] \notin {"open", "counted"}
      <4>1. ~Settles(o, listing.row)
        BY <1>13, <1>14 DEF Settles
      <4> QED
        BY <1>3, <1>4, <1>13, <1>14, <4>1
    <3>3. Opens(o, run1)
      BY <1>4, <3>1, <3>2 DEF Opens
    <3>4. \A r \in RowIds : runOf'[r] = "open" => r = listing.row
      BY <1>3, <1>8, <1>13, <1>14, <3>1
    <3>5. runOf'[listing.row] = "open"
      BY <1>3, <1>4, <1>8, <3>1, <3>3
    <3> QED
      BY <1>2, <1>4, <1>10, <1>13, <1>14, <1>16, <2>1, <3>1, <3>4, <3>5 DEF OneAtATime
  <2>2. CASE ~TimeHasCome
    <3>1. o.firedRow = NoRow
      BY <1>2, <1>4, <2>2 DEF Finds
    <3>2. runOf' = run1
      BY <1>3, <1>8, <3>1 DEF Opens
    <3>3. runOf'[listing.row] = "none"
      <4>1. ~Settles(o, listing.row)
        BY <1>13, <1>14 DEF Settles
      <4> QED
        BY <1>3, <1>4, <1>13, <1>14, <3>2, <4>1
    <3> QED
      BY <1>2, <1>13, <1>14, <3>2, <3>3 DEF OneAtATime
  <2> QED
    BY <2>1, <2>2
(* It is the same row, and the counters have not moved.                    *)
<1>15. CASE ~last.partial /\ last.row = listing.row
  <2>1. moved = 0 /\ Ended(kept) = Ended(last.pending)
    BY <1>4, <1>5, <1>15
  <2>2. o.next.settled = last.settled /\ run1 = runOf
    <3>1. runOf \in [RowIds -> RunStates]
      BY DEF FwInv, FwKinds, RunStates
    <3>2. \A r \in RowIds : ~Settles(o, r)
      BY <1>5, <2>1
    <3> QED
      BY <1>3, <1>9, <2>1, <3>1, <3>2
  <2>3. OneAtATime
    BY <1>1, <1>15
  <2>4. CASE o.firedRow = listing.row
    <3>1. o.next.open = listing.row /\ TimeHasCome /\ last.open # listing.row /\ last.settled # listing.row
      BY <1>2, <1>4, <2>1, <2>2, <2>4 DEF Finds
    <3>2. runOf[listing.row] = "none" /\ Ended(last.pending) = 0
      BY <1>4, <1>5, <1>15, <2>3, <3>1 DEF OneAtATime
    <3>3. Opens(o, run1)
      BY <1>4, <2>2, <2>4, <3>2 DEF Opens
    <3>4. \A r \in RowIds : runOf[r] # "open"
      BY <1>15, <2>3, <3>1 DEF OneAtATime
    <3>5. \A r \in RowIds : runOf'[r] = "open" <=> r = listing.row
      BY <1>3, <1>8, <2>2, <2>4, <3>3, <3>4
    <3> QED
      BY <1>2, <1>4, <1>10, <1>16, <2>1, <2>2, <3>1, <3>2, <3>5 DEF OneAtATime
  <2>5. CASE o.firedRow # listing.row
    <3>1. o.firedRow = NoRow /\ o.next.open = last.open
      BY <1>2, <2>1, <2>5 DEF Finds
    <3>2. runOf' = runOf
      BY <1>3, <1>8, <2>2, <3>1 DEF Opens
    <3> QED
      BY <1>2, <1>15, <2>1, <2>2, <2>3, <3>1, <3>2, <1>16 DEF OneAtATime
  <2> QED
    BY <2>4, <2>5
<1> QED
  BY <1>14, <1>15

LEMMA ListIs ==
  ASSUME FwInv, listing # NoList
  PROVE  /\ listing.row \in Nat /\ listing.slot \in Nat /\ listing.counts \in [Ends -> Nat]
         /\ listing.row <= row /\ listing.slot <= slot /\ AtMost(listing.counts, counts)
<1>1. listing \in Listed
  BY DEF FwInv, FwKinds
<1>2. listing.row \in Nat /\ listing.slot \in Nat /\ listing.counts \in [Ends -> Nat]
  BY <1>1, FireWatchAssumption DEF Listed
<1>3. listing.row <= row /\ listing.slot <= slot /\ AtMost(listing.counts, counts)
  BY DEF FwInv, CountsGrow
<1> QED
  BY <1>2, <1>3

LEMMA ReadKeeps == FwInv /\ ListRead => FwInv'
<1> SUFFICES ASSUME FwInv, ListRead PROVE FwInv'
  OBVIOUS
<1>1. /\ UNCHANGED <<host, call, tally>> /\ listing # NoList /\ listing' = NoList
      /\ UNCHANGED <<row, slot, phase, hand, endOf, counts, fires, lets, lives, odd>>
  BY DEF ListRead, host, tally
<1>2. CASE ~listing.there
  <2>1. UNCHANGED <<last, runOf, records, watches, base>>
    BY <1>2 DEF ListRead
  <2>2. FwKinds' /\ CountsGrow' /\ CountsAreRows' /\ Follows'
    BY <1>1, <2>1 DEF FwInv, FwKinds, CountsGrow, CountsAreRows, Follows, Blank
  <2>3. Accounted' = Accounted /\ (OneAtATime => OneAtATime') /\ (Steady' => Steady)
    BY <1>1, <2>1 DEF Accounted, Going, OneAtATime, Steady
  <2>4. AllRecorded'
    BY <1>1, <2>1, <2>3 DEF FwInv, AllRecorded
  <2>5. NoneTwice'
    <3>3. row \in Nat /\ records \in Nat /\ lets \in Nat
      BY FireWatchAssumption DEF FwInv, FwKinds
    <3>1. listing.row <= row /\ listing.row \in Nat /\ row \in Nat /\ records \in Nat /\ lets \in Nat
      BY <1>1, <3>3, ListIs
    <3>2. Steady /\ last.partial => records + 1 <= lets + row
      BY <1>1, <3>1 DEF FwInv, NoneTwice
    <3> QED
      BY <1>1, <2>1, <2>3, <3>2 DEF FwInv, NoneTwice
  <2> QED
    BY <2>2, <2>4, <2>5 DEF FwInv
<1>3. CASE listing.there
  <2>1. PICK o, run1, explained : \E moved \in Nat, kept \in [Ends -> Nat], n \in Nat :
          Reads(o, moved, kept, run1, explained, n)
    BY <1>3, ReadIs DEF FwInv
  <2>2. PICK moved \in Nat, kept \in [Ends -> Nat], n \in Nat : Reads(o, moved, kept, run1, explained, n)
    BY <2>1
  <2>3. /\ last' = o.next /\ o.next \in Readings /\ ~o.next.partial /\ o.next.row = listing.row
        /\ o.next.slot = listing.slot /\ o.next.counts = listing.counts /\ Finds(o, moved, kept)
    BY <2>2 DEF Reads, Finds
  <2>4. listing \in Listed /\ listing.row <= row /\ listing.slot <= slot /\ AtMost(listing.counts, counts)
    BY <1>1 DEF FwInv, FwKinds, CountsGrow
  <2>5. listing.row \in 1 .. MaxRows + 1 /\ listing.counts \in [Ends -> Nat] /\ Ended(listing.counts) \in Nat
    BY <2>4, EndedIs DEF Listed
  <2>6. CountsGrow'
    BY <1>1, <2>3, <2>4, <2>5 DEF CountsGrow
  <2>7. CountsAreRows'
    BY <1>1, <2>3 DEF FwInv, CountsAreRows
  <2>8. FwKinds'
    <3>1. runOf' \in [RowIds -> RunStates]
      <4>1. runOf \in [RowIds -> RunStates]
        BY DEF FwInv, FwKinds, RunStates
      <4>2. run1 \in [RowIds -> RunStates]
        BY <2>2, <4>1 DEF Reads, RunStates
      <4> QED
        BY <2>2, <4>2 DEF Reads, RunStates
    <3>2. watches' \subseteq RowIds
      <4>1. o.firedRow \in {NoRow, listing.row} /\ listing.row \in RowIds
        BY <2>3, <2>5, RowsAre DEF Finds
      <4> QED
        BY <2>2, <4>1 DEF FwInv, FwKinds, Reads, Opens
    <3>3. records' \in Nat
      <4>1. o.missed \in Nat /\ n <= o.missed
        BY <2>2, <2>3 DEF Finds, Reads
      <4>2. records \in Nat /\ records' = records + (o.missed - n) + (IF Opens(o, run1) THEN 1 ELSE 0)
        BY <2>2 DEF FwInv, FwKinds, Reads
      <4> QED
        BY <4>1, <4>2
    <3>4. base' \in Nat
      BY <2>2, <2>5 DEF Reads, FwInv, FwKinds
    <3>5. last' \in Readings
      BY <2>3
    <3> QED
      BY <1>1, <3>1, <3>2, <3>3, <3>4, <3>5 DEF FwInv, FwKinds, RunStates
  <2>9. Follows'
    <3>1. CASE call = "none"
      BY <2>2, <3>1, ReadFollows
    <3>2. CASE call # "none"
      BY <1>1, <3>2 DEF Follows
    <3> QED
      BY <3>1, <3>2
  <2>10. call = "none" =>
           /\ Accounted \in Nat /\ Accounted' \in Nat /\ records' \in Nat
           /\ ~last.partial => records' + Accounted = records + Accounted'
           /\ last.partial => records' + Ended(listing.counts) = records + Accounted'
    BY <2>2, ReadAccounts
  <2>11. records \in Nat /\ lets \in Nat /\ base \in Nat
    BY DEF FwInv, FwKinds
  <2>12. AllRecorded'
    <3> SUFFICES ASSUME call = "none", lives = 1 PROVE Accounted' <= records' + base'
      BY <1>1 DEF AllRecorded
    <3>1. CASE last.partial
      <4>1. base' = Ended(listing.counts)
        BY <2>2, <3>1 DEF Reads
      <4> QED
        BY <2>5, <2>10, <2>11, <3>1, <4>1
    <3>2. CASE ~last.partial
      <4>1. base' = base /\ Accounted <= records + base
        BY <2>2, <3>2 DEF Reads, FwInv, AllRecorded
      <4> QED
        BY <2>10, <2>11, <3>2, <4>1
    <3> QED
      BY <3>1, <3>2
  <2>13. NoneTwice'
    <3>1. Steady' => Steady
      BY <1>1 DEF Steady
    <3>2. ASSUME Steady PROVE OneAtATime'
      BY <1>1, <2>2, <3>2, ReadOneAtATime
    <3>3. ASSUME Steady PROVE records' <= lets + Accounted'
      <4>1. CASE last.partial
        <5>1. records + 1 <= lets + listing.row /\ Ended(listing.counts) + 1 = listing.row
          BY <1>1, <3>3, <4>1 DEF FwInv, NoneTwice, CountsAreRows, Steady
        <5> QED
          BY <2>5, <2>10, <2>11, <3>3, <4>1, <5>1 DEF Steady
      <4>2. CASE ~last.partial
        <5>1. records <= lets + Accounted
          BY <3>3, <4>2 DEF FwInv, NoneTwice
        <5> QED
          BY <2>10, <2>11, <3>3, <4>2, <5>1 DEF Steady
      <4> QED
        BY <4>1, <4>2
    <3>4. Steady => fires' + 1 = row' + (IF phase' = "waiting" THEN 0 ELSE 1)
      BY <1>1 DEF FwInv, NoneTwice
    <3> QED
      BY <1>1, <2>3, <3>1, <3>2, <3>3, <3>4 DEF NoneTwice
  <2> QED
    BY <2>6, <2>7, <2>8, <2>9, <2>12, <2>13 DEF FwInv
<1> QED
  BY <1>2, <1>3

(* What the host does alone.                                               *)
LEMMA HostMoves ==
  ASSUME FwInv, FwKinds', UNCHANGED <<call, listing, last, runOf, records, lets, lives, base>>,
         row <= row', slot <= slot', AtMost(counts, counts'),
         call = "none" => hand' = "none" /\ Ended(counts)' + 1 = row',
         Steady' => /\ fires' + 1 = row' + (IF phase' = "waiting" THEN 0 ELSE 1)
                    /\ row < row' \/ phase' # "waiting" \/ (row' = row /\ phase' = phase)
  PROVE  FwInv'
<1>1. row \in Nat /\ row' \in Nat /\ slot \in Nat /\ slot' \in Nat
  BY FireWatchAssumption DEF FwInv, FwKinds
<1>2. \A c \in [Ends -> Nat] : AtMost(c, counts) => AtMost(c, counts')
  <2>1. counts \in [Ends -> Nat] /\ counts' \in [Ends -> Nat]
    BY DEF FwInv, FwKinds
  <2> QED
    BY <2>1, EndedIs DEF AtMost
<1>3. CountsGrow'
  <2>1. listing # NoList => /\ listing.row \in Nat /\ listing.slot \in Nat /\ listing.counts \in [Ends -> Nat]
                            /\ listing.row <= row /\ listing.slot <= slot /\ AtMost(listing.counts, counts)
    BY ListIs
  <2>2. ~last.partial => /\ last.row \in 1 .. MaxRows + 1 /\ last.row \in Nat /\ last.slot \in Nat /\ last.counts \in [Ends -> Nat]
                         /\ last.row <= row /\ last.slot <= slot /\ AtMost(last.counts, counts)
                         /\ listing # NoList => last.row <= listing.row /\ AtMost(last.counts, listing.counts)
    BY FireWatchAssumption DEF FwInv, FwKinds, CountsGrow, Readings
  <2>3. listing # NoList => listing.row <= row' /\ listing.slot <= slot' /\ AtMost(listing.counts, counts')
    BY <1>1, <1>2, <2>1
  <2>4. ~last.partial => last.row <= row' /\ last.slot <= slot' /\ AtMost(last.counts, counts')
    BY <1>1, <1>2, <2>2
  <2> QED
    BY <2>2, <2>3, <2>4 DEF CountsGrow
<1>4. CountsAreRows' /\ Follows'
  BY DEF FwInv, CountsAreRows, Follows, Blank
<1>5. Accounted' = Accounted /\ AllRecorded'
  BY DEF FwInv, AllRecorded, Accounted, Going
<1>6. NoneTwice'
  <2> SUFFICES ASSUME Steady' PROVE NoneTwice'
    BY DEF NoneTwice
  <2>1. Steady
    BY <1>1 DEF Steady
  <2>2. last.partial => records + 1 <= lets + (IF listing = NoList THEN row' ELSE listing.row)
    <3>1. records \in Nat /\ lets \in Nat
      BY DEF FwInv, FwKinds
    <3>2. last.partial => records + 1 <= lets + (IF listing = NoList THEN row ELSE listing.row)
      BY <2>1 DEF FwInv, NoneTwice
    <3> QED
      BY <1>1, <3>1, <3>2
  <2>3. ~last.partial => OneAtATime'
    <3> SUFFICES ASSUME ~last.partial PROVE OneAtATime'
      OBVIOUS
    <3>1. OneAtATime /\ last.row <= row /\ last.row \in Nat
      BY <2>1, FireWatchAssumption DEF FwInv, NoneTwice, CountsGrow
    <3>2. last.row < row \/ phase # "waiting" => last.row < row' \/ phase' # "waiting"
      BY <1>1, <3>1
    <3> QED
      BY <3>1, <3>2 DEF OneAtATime
  <2>4. ~last.partial => records <= lets + Accounted
    BY <2>1 DEF FwInv, NoneTwice
  <2> QED
    BY <1>5, <2>2, <2>3, <2>4 DEF NoneTwice
<1> QED
  BY <1>3, <1>4, <1>5, <1>6 DEF FwInv

LEMMA HostKeeps ==
  ASSUME FwInv, \/ HostDue \/ HostRetries \/ HostSweeps \/ HandSwept
                \/ \E e \in Ends : HostAcks(e) \/ HandAcks(e)
  PROVE  FwInv'
<1> USE FireWatchAssumption
<1>1. /\ FwKinds /\ row \in Nat /\ slot \in Nat /\ fires \in Nat /\ odd \in Nat /\ counts \in [Ends -> Nat]
      /\ AtMost(counts, counts)
  BY DEF FwInv, FwKinds, AtMost, Ends
<1>2. Steady => fires + 1 = row + (IF phase = "waiting" THEN 0 ELSE 1)
  BY DEF FwInv, NoneTwice
<1>3. call = "none" => hand = "none" /\ Ended(counts) + 1 = row
  BY DEF FwInv, CountsAreRows
<1>4. CASE HostDue
  <2>1. FwKinds'
    BY <1>4, <1>1 DEF HostDue, FwKinds
  <2> QED
    BY <1>1, <1>2, <1>3, <1>4, <2>1, HostMoves DEF HostDue, Steady
<1>5. CASE HostRetries
  <2>1. FwKinds'
    BY <1>5, <1>1 DEF HostRetries, Odd, FwKinds
  <2>2. ~Steady'
    BY <1>1, <1>5 DEF HostRetries, Steady
  <2> QED
    BY <1>1, <1>3, <1>5, <2>1, <2>2, HostMoves DEF HostRetries
<1>6. CASE HostSweeps
  <2>1. endOf[row] \in Ends /\ row <= MaxRows
    BY <1>6 DEF HostSweeps, FwInv, FwKinds
  <2>2. counts' \in [Ends -> Nat] /\ AtMost(counts, counts') /\ Ended(counts') = Ended(counts) + 1
    BY <1>1, <1>6, <2>1 DEF HostSweeps, AtMost, Ended, Ends
  <2>3. FwKinds'
    BY <1>1, <1>6, <2>1, <2>2 DEF HostSweeps, FwKinds, tally
  <2>4. Ended(counts) \in Nat
    BY <1>1, EndedIs
  <2> QED
    BY <1>1, <1>2, <1>3, <1>6, <2>2, <2>3, <2>4, HostMoves DEF HostSweeps, Steady, tally
<1>7. CASE HandSwept
  <2>1. endOf[ByHand] \in Ends /\ call # "none"
    BY <1>7, <1>3 DEF HandSwept, FwInv, FwKinds
  <2>2. counts' \in [Ends -> Nat] /\ AtMost(counts, counts')
    BY <1>1, <1>7, <2>1 DEF HandSwept, AtMost, Ends
  <2>3. FwKinds'
    BY <1>1, <1>7, <2>2 DEF HandSwept, FwKinds, tally
  <2> QED
    BY <1>1, <1>7, <2>1, <2>2, <2>3, HostMoves DEF HandSwept, Steady, tally
<1>8. ASSUME NEW e \in Ends, HostAcks(e) PROVE FwInv'
  <2>1. row \in RowIds /\ ByHand \in RowIds /\ row # ByHand
    BY <1>1, RowsAre DEF FwKinds, ByHand
  <2>2. endOf' \in [RowIds -> Ends \cup {"no"}] /\ endOf'[row] \in Ends /\ endOf'[ByHand] = endOf[ByHand]
    BY <1>1, <1>8, <2>1 DEF HostAcks, FwKinds
  <2>3. phase # "waiting"
    BY <1>8 DEF HostAcks
  <2>4. FwKinds'
    BY <1>1, <1>8, <2>2, <2>3 DEF HostAcks, FwKinds, tally
  <2> QED
    BY <1>1, <1>2, <1>3, <1>8, <2>3, <2>4, HostMoves DEF HostAcks, Steady, tally
<1>9. ASSUME NEW e \in Ends, HandAcks(e) PROVE FwInv'
  <2>1. row \in RowIds /\ ByHand \in RowIds /\ row # ByHand /\ call # "none"
    BY <1>1, <1>3, <1>9, RowsAre DEF FwKinds, ByHand, HandAcks
  <2>2. endOf' \in [RowIds -> Ends \cup {"no"}] /\ endOf'[ByHand] \in Ends /\ endOf'[row] = endOf[row]
    BY <1>1, <1>9, <2>1 DEF HandAcks, FwKinds
  <2>3. FwKinds'
    BY <1>1, <1>9, <2>2 DEF HandAcks, FwKinds, tally
  <2> QED
    BY <1>1, <1>9, <2>1, <2>3, HostMoves DEF HandAcks, Steady, tally
<1> QED
  BY <1>4, <1>5, <1>6, <1>7, <1>8, <1>9

LEMMA AsksKeeps ==
  ASSUME FwInv, RunByHand \/ Registers \/ ListAsked
  PROVE  FwInv'
<1> USE FireWatchAssumption
<1>1. CASE RunByHand
  <2>1. FwKinds'
    BY <1>1 DEF RunByHand, Odd, FwInv, FwKinds
  <2>2. CountsGrow'
    BY <1>1 DEF RunByHand, FwInv, CountsGrow
  <2>3. call' # "none"
    BY <1>1 DEF RunByHand
  <2> QED
    BY <2>1, <2>2, <2>3 DEF FwInv, CountsAreRows, Follows, AllRecorded, NoneTwice, Steady
<1>2. CASE Registers
  <2>1. FwKinds'
    BY <1>2, RowsAre DEF Registers, host, tally, FwInv, FwKinds
  <2>2. CountsGrow'
    BY <1>2 DEF Registers, host, FwInv, CountsGrow
  <2>3. call' # "none"
    BY <1>2 DEF Registers
  <2> QED
    BY <2>1, <2>2, <2>3 DEF FwInv, CountsAreRows, Follows, AllRecorded, NoneTwice, Steady
<1>3. CASE ListAsked
  <2>1. /\ UNCHANGED <<host, call, watches, last, runOf, records, tally, base>>
        /\ UNCHANGED <<row, slot, phase, hand, endOf, counts, fires, lets, lives, odd>>
        /\ listing = NoList
    BY <1>3 DEF ListAsked, host, tally
  <2>2. listing' \in Listed
    <3>1. (phase \in {"waiting", "due"}) \in BOOLEAN
      OBVIOUS
    <3>2. row \in 1 .. MaxRows + 1 /\ slot \in Nat /\ counts \in [Ends -> Nat]
      BY DEF FwInv, FwKinds
    <3>3. [seen |-> TRUE, there |-> phase \in {"waiting", "due"}, row |-> row, slot |-> slot, counts |-> counts] \in Listed
      BY <3>1, <3>2, Zenon DEF Listed
    <3> QED
      BY <1>3, <3>3, Zenon DEF ListAsked
  <2>3. listing'.row = row /\ listing'.slot = slot /\ listing'.counts = counts
    BY <1>3 DEF ListAsked
  <2>4. listing' # NoList
    <3>1. listing'.seen = TRUE /\ NoList.seen = FALSE
      BY <1>3 DEF ListAsked, NoList
    <3> QED
      BY <3>1
  <2>5. FwKinds'
    BY <2>1, <2>2 DEF FwInv, FwKinds
  <2>6. AtMost(counts, counts) /\ row \in Nat /\ slot \in Nat
    BY DEF FwInv, FwKinds, AtMost, Ends
  <2>7. CountsGrow'
    BY <2>1, <2>3, <2>6 DEF FwInv, CountsGrow
  <2>8. CountsAreRows' /\ Follows'
    BY <2>1, <2>3 DEF FwInv, CountsAreRows, Follows, Blank
  <2>9. Accounted' = Accounted /\ OneAtATime' = OneAtATime /\ (Steady' <=> Steady)
    BY <2>1 DEF Accounted, Going, OneAtATime, Steady
  <2>10. AllRecorded' /\ NoneTwice'
    BY <2>1, <2>3, <2>4, <2>9 DEF FwInv, AllRecorded, NoneTwice
  <2> QED
    BY <2>5, <2>7, <2>8, <2>10 DEF FwInv
<1> QED
  BY <1>1, <1>2, <1>3

(* A run ends of which there is a turn frame to come, or a cancel.         *)
LEMMA OneGoes ==
  ASSUME FwInv, FwKinds', NEW r \in RowIds, runOf[r] = "open", runOf' = [runOf EXCEPT ![r] = "ended"],
         UNCHANGED <<row, slot, phase, hand, counts, call, listing, records, fires, lives, base>>, lets <= lets',
         last'.partial = last.partial, last'.row = last.row, last'.slot = last.slot, last'.counts = last.counts,
         \/ last' = last /\ last.settled = r
         \/ /\ last'.open = (IF last.open = r THEN NoRow ELSE last.open) /\ last'.settled = r
            /\ \/ Ended(last'.pending) = Ended(last.pending) + 1
               \/ Ended(last'.pending) = Ended(last.pending) /\ lets' = lets + 1
  PROVE  FwInv'
<1>1. CountsGrow' /\ CountsAreRows'
  BY DEF FwInv, CountsGrow, CountsAreRows
<1>2. /\ last \in Readings /\ lets \in Nat /\ lets' \in Nat /\ records \in Nat /\ base \in Nat /\ r \in Nat /\ r # NoRow
      /\ Ended(last.pending) \in Nat /\ Ended(last.counts) \in Nat /\ Ended(last'.pending) \in Nat
  BY RowsAre, EndedIs DEF FwInv, FwKinds, Readings
<1>3. runOf \in [RowIds -> RunStates]
  BY DEF FwInv, FwKinds, RunStates
<1>4. Going' = Going \ {r} /\ r \in Going
  BY <1>3 DEF Going
<1>5. PICK g \in Nat : g = Cardinality(Going)
  BY GoingIs
<1>6. Cardinality(Going') + 1 = g /\ Cardinality(Going') \in Nat
  <2>1. Cardinality(Going \ {r}) = Cardinality(Going) - 1
    BY <1>4, GoingIs, FS_RemoveElement
  <2>2. Cardinality(Going') \in Nat
    BY RowsAre, FS_Subset, FS_CardinalityType DEF Going
  <2> QED
    BY <1>4, <1>5, <2>1, <2>2
<1>7. call = "none" => ~last.partial
  BY DEF FwInv, Follows, Blank
<1>8. Follows'
  <2> SUFFICES ASSUME call = "none" PROVE Follows'
    BY DEF Follows
  <2>1. /\ \A q \in RowIds : /\ runOf[q] # "none" => q <= last.row
                             /\ runOf[q] = "counted" => q < last.row
        /\ last.open # NoRow => runOf[last.open] = "open" /\ last.open <= last.row /\ last.settled # last.open
        /\ last.settled # NoRow => last.settled <= last.row
    BY <1>7 DEF FwInv, Follows
  <2>2. \A q \in RowIds : runOf'[q] = IF q = r THEN "ended" ELSE runOf[q]
    BY <1>3
  <2>3. \A q \in RowIds : /\ runOf'[q] # "none" => q <= last.row
                          /\ runOf'[q] = "counted" => q < last.row
    BY <2>1, <2>2
  <2>4. last'.open # NoRow => last'.open = last.open /\ last.open # r /\ last'.settled # last.open
    BY <2>1
  <2>5. last'.open # NoRow => runOf'[last.open] = "open" /\ last.open <= last.row
    BY <1>2, <2>1, <2>2, <2>4 DEF Readings
  <2>6. last'.settled # NoRow => last'.settled <= last.row
    BY <2>1
  <2> QED
    BY <1>7, <2>3, <2>4, <2>5, <2>6 DEF Follows
<1>9. PICK h \in Nat : h = Cardinality(Going') /\ h + 1 = g
  BY <1>6
<1>10. Accounted = Ended(last.counts) + Ended(last.pending) + g
       /\ Accounted' = Ended(last.counts) + Ended(last'.pending) + h
  BY <1>5, <1>9 DEF Accounted
<1>11. Accounted' <= Accounted /\ Accounted \in Nat /\ Accounted' \in Nat
  BY <1>2, <1>9, <1>10
<1>12. AllRecorded'
  BY <1>2, <1>11 DEF FwInv, AllRecorded
<1>13. NoneTwice'
  <2> SUFFICES ASSUME Steady PROVE NoneTwice'
    BY DEF NoneTwice, Steady
  <2>1. ~last.partial /\ OneAtATime /\ records <= lets + Accounted
    BY <1>7 DEF FwInv, NoneTwice, Steady
  <2>2. r = last.row /\ last.open = r /\ last.settled # r /\ Ended(last.pending) = 0
        /\ (last.row < row \/ phase # "waiting")
    BY <2>1 DEF OneAtATime
  <2>3. last'.open = NoRow /\ last'.settled = r
    BY <2>2
  <2>4. \A q \in RowIds : runOf'[q] # "open"
    BY <1>3, <2>1, <2>2 DEF OneAtATime
  <2>5. Ended(last'.pending) = 1 \/ (Ended(last'.pending) = 0 /\ lets' = lets + 1)
    BY <2>2
  <2>6. OneAtATime'
    BY <2>2, <2>3, <2>4, <2>5 DEF OneAtATime
  <2>7. records' <= lets' + Accounted'
    BY <1>2, <1>9, <1>10, <1>11, <2>1, <2>2, <2>5
  <2>8. fires' + 1 = row' + (IF phase' = "waiting" THEN 0 ELSE 1)
    BY DEF FwInv, NoneTwice
  <2> QED
    BY <2>1, <2>6, <2>7, <2>8 DEF NoneTwice
<1> QED
  BY <1>1, <1>8, <1>12, <1>13 DEF FwInv

(* A run that was counted, or none, ends, and nothing else is known.       *)
LEMMA NoneGoes ==
  ASSUME FwInv, FwKinds', NEW r \in RowIds, runOf[r] # "open",
         \/ runOf' = runOf
         \/ runOf[r] = "counted" /\ runOf' = [runOf EXCEPT ![r] = "ended"],
         UNCHANGED <<row, slot, phase, hand, counts, call, listing, last, records, fires, lives, base>>, lets <= lets'
  PROVE  FwInv'
<1>1. CountsGrow' /\ CountsAreRows'
  BY DEF FwInv, CountsGrow, CountsAreRows
<1>2. runOf \in [RowIds -> RunStates] /\ lets \in Nat /\ lets' \in Nat /\ records \in Nat /\ last \in Readings
  BY DEF FwInv, FwKinds, RunStates
<1>3. \A q \in RowIds : /\ runOf'[q] = "open" <=> runOf[q] = "open"
                        /\ runOf'[q] = "none" <=> runOf[q] = "none"
                        /\ runOf'[q] = "counted" => runOf[q] = "counted"
  BY <1>2
<1>4. Going' = Going /\ Accounted' = Accounted
  BY <1>3 DEF Going, Accounted
<1>5. Follows'
  <2>1. last.open # NoRow => last.open \in RowIds
    BY <1>2 DEF Readings
  <2> QED
    BY <1>3, <2>1 DEF FwInv, Follows, Blank
<1>6. AllRecorded'
  BY <1>4 DEF FwInv, AllRecorded
<1>7. NoneTwice'
  <2> SUFFICES ASSUME Steady PROVE NoneTwice'
    BY DEF NoneTwice, Steady
  <2>1. fires' + 1 = row' + (IF phase' = "waiting" THEN 0 ELSE 1)
    BY DEF FwInv, NoneTwice
  <2>2. last.partial => records' + 1 <= lets' + (IF listing = NoList THEN row ELSE listing.row)
    <3>1. row \in Nat /\ (listing # NoList => listing.row \in Nat)
      BY FireWatchAssumption, ListIs DEF FwInv, FwKinds
    <3>2. last.partial => records + 1 <= lets + (IF listing = NoList THEN row ELSE listing.row)
      BY DEF FwInv, NoneTwice
    <3> QED
      BY <1>2, <3>1, <3>2
  <2>3. ~last.partial => OneAtATime'
    <3> SUFFICES ASSUME ~last.partial PROVE OneAtATime'
      OBVIOUS
    <3>1. last.row \in RowIds
      BY RowsAre DEF FwInv, CountsGrow
    <3>2. OneAtATime
      BY DEF FwInv, NoneTwice
    <3> QED
      BY <1>3, <3>1, <3>2 DEF OneAtATime
  <2>4. ~last.partial => records' <= lets' + Accounted'
    <3>1. Accounted \in Nat
      BY <1>2, EndedIs, GoingIs DEF Accounted, Readings
    <3>2. ~last.partial => records <= lets + Accounted
      BY DEF FwInv, NoneTwice
    <3>3. PICK a \in Nat : a = Accounted
      BY <3>1
    <3> SUFFICES ASSUME ~last.partial PROVE records' <= lets' + Accounted'
      OBVIOUS
    <3>4. PICK q \in Nat, b \in Nat, d \in Nat : q = records /\ b = lets /\ d = lets'
      BY <1>2
    <3>5. q <= b + a /\ b <= d
      BY <3>2, <3>3, <3>4
    <3>6. q <= d + a
      BY <3>5
    <3> QED
      BY <1>4, <3>3, <3>4, <3>6
  <2> QED
    BY <2>1, <2>2, <2>3, <2>4 DEF NoneTwice
<1> QED
  BY <1>1, <1>5, <1>6, <1>7 DEF FwInv

(* One more end to be explained.                                           *)
LEMMA OneMore ==
  ASSUME NEW p \in [Ends -> Nat], NEW e \in Ends
  PROVE  /\ [p EXCEPT ![e] = @ + 1] \in [Ends -> Nat] /\ Ended([p EXCEPT ![e] = @ + 1]) = Ended(p) + 1
<1>1. CASE e = "completed"
  BY <1>1 DEF Ended, Ends
<1>2. CASE e = "failed"
  BY <1>2 DEF Ended, Ends
<1> QED
  BY <1>1, <1>2 DEF Ends

LEMMA EndsKeep ==
  ASSUME FwInv, NEW r \in RowIds, TurnComes(r) \/ GraceEnds(r) \/ Cancelled(r)
  PROVE  FwInv'
<1>1. /\ FwKinds /\ last \in Readings /\ runOf \in [RowIds -> RunStates] /\ last.pending \in [Ends -> Nat]
      /\ r \in RowIds \union {NoRow} /\ lets \in Nat /\ odd \in Nat
      /\ NoRow \in RowIds \union {NoRow} /\ lets <= lets
  BY DEF FwInv, FwKinds, RunStates, Readings
<1>2. [runOf EXCEPT ![r] = "ended"] \in [RowIds -> RunStates]
  BY <1>1 DEF RunStates
<1>3. [last EXCEPT !.open = IF @ = r THEN NoRow ELSE @, !.settled = r] \in Readings
  BY <1>1 DEF Readings
<1>4. CASE TurnComes(r)
  <2>1. /\ endOf[r] \in Ends /\ watches' \subseteq RowIds /\ UNCHANGED <<host, call, listing, records, tally, base>>
        /\ UNCHANGED <<row, slot, phase, hand, endOf, counts, fires, lets, lives, odd>>
        /\ lets <= lets'
    BY <1>1, <1>4 DEF TurnComes, FwKinds, host, tally
  <2>2. CASE runOf[r] # "open"
    <3>1. \/ runOf' = runOf
          \/ runOf[r] = "counted" /\ runOf' = [runOf EXCEPT ![r] = "ended"]
      BY <1>4, <2>2 DEF TurnComes
    <3>2. last' = last
      BY <1>4, <2>2 DEF TurnComes
    <3>3. FwKinds'
      BY <1>1, <1>2, <2>1, <3>1, <3>2 DEF FwKinds, RunStates
    <3> QED
      BY <1>1, <2>1, <2>2, <3>1, <3>2, <3>3, NoneGoes
  <2>3. CASE runOf[r] = "open"
    <3>1. runOf' = [runOf EXCEPT ![r] = "ended"] /\ Remembers(r)
      BY <1>4, <2>3 DEF TurnComes
    <3>2. CASE last.settled = r
      <4>1. last' = last
        BY <3>1, <3>2 DEF Remembers
      <4>2. FwKinds'
        BY <1>1, <1>2, <2>1, <3>1, <4>1 DEF FwKinds, RunStates
      <4> QED
        BY <1>1, <2>1, <2>3, <3>1, <3>2, <4>1, <4>2, OneGoes
    <3>3. CASE last.settled # r
      <4>1. PICK p : p = [last.pending EXCEPT ![endOf[r]] = @ + 1]
        OBVIOUS
      <4>2. p \in [Ends -> Nat] /\ Ended(p) = Ended(last.pending) + 1
        BY <1>1, <2>1, <4>1, OneMore
      <4>3. last' = [last EXCEPT !.open = IF @ = r THEN NoRow ELSE @, !.settled = r, !.pending = p]
        BY <1>1, <3>1, <3>3, <4>1 DEF Remembers, Readings
      <4>4. last' \in Readings
        BY <1>1, <4>2, <4>3 DEF Readings
      <4>5. /\ last'.partial = last.partial /\ last'.row = last.row /\ last'.slot = last.slot /\ last'.counts = last.counts
            /\ last'.open = (IF last.open = r THEN NoRow ELSE last.open) /\ last'.settled = r /\ last'.pending = p
        BY <1>1, <4>3 DEF Readings
      <4>6. FwKinds'
        BY <1>1, <1>2, <2>1, <3>1, <4>4 DEF FwKinds, RunStates
      <4> QED
        BY <1>1, <2>1, <2>3, <3>1, <4>2, <4>5, <4>6, OneGoes
    <3> QED
      BY <3>2, <3>3
  <2> QED
    BY <2>2, <2>3
<1>5. CASE GraceEnds(r)
  <2>1. /\ runOf[r] = "counted" /\ runOf' = [runOf EXCEPT ![r] = "ended"]
        /\ UNCHANGED <<watches, last, row, slot, phase, hand, endOf, counts, call, listing, records, fires, lets, lives, odd, base>>
        /\ lets <= lets'
    BY <1>1, <1>5 DEF GraceEnds, host, tally
  <2>2. FwKinds'
    BY <1>1, <1>2, <2>1 DEF FwKinds, RunStates
  <2> QED
    BY <1>1, <2>1, <2>2, NoneGoes
<1>6. CASE Cancelled(r)
  <2>1. /\ runOf' = [runOf EXCEPT ![r] = "ended"] /\ lets' = lets + 1 /\ odd' = odd + 1 /\ odd < MaxOdd
        /\ UNCHANGED <<watches, row, slot, phase, hand, endOf, counts, call, listing, records, fires, lives, base>>
    BY <1>6 DEF Cancelled, host, Odd
  <2>2. CASE runOf[r] = "open"
    <3>1. last' = [last EXCEPT !.open = IF @ = r THEN NoRow ELSE @, !.settled = r]
      BY <1>6, <2>2 DEF Cancelled
    <3>2. /\ last'.partial = last.partial /\ last'.row = last.row /\ last'.slot = last.slot /\ last'.counts = last.counts
          /\ last'.open = (IF last.open = r THEN NoRow ELSE last.open) /\ last'.settled = r /\ last'.pending = last.pending
      BY <1>1, <3>1 DEF Readings
    <3>3. FwKinds'
      BY <1>1, <1>2, <1>3, <2>1, <3>1, FireWatchAssumption DEF FwKinds, RunStates
    <3>4. lets <= lets'
      BY <1>1, <2>1
    <3> QED
      BY <2>1, <2>2, <3>2, <3>3, <3>4, OneGoes
  <2>3. CASE runOf[r] # "open"
    <3>1. runOf[r] = "counted" /\ last' = last
      BY <1>6, <2>3 DEF Cancelled
    <3>2. FwKinds'
      BY <1>1, <1>2, <2>1, <3>1, FireWatchAssumption DEF FwKinds, RunStates
    <3>3. lets <= lets'
      BY <1>1, <2>1
    <3> QED
      BY <2>1, <2>3, <3>1, <3>2, <3>3, NoneGoes
  <2> QED
    BY <2>2, <2>3
<1> QED
  BY <1>4, <1>5, <1>6

(* One end fewer to be explained.                                          *)
LEMMA OneLess ==
  ASSUME NEW p \in [Ends -> Nat], NEW e \in Ends, p[e] > 0
  PROVE  /\ [p EXCEPT ![e] = @ - 1] \in [Ends -> Nat] /\ Ended([p EXCEPT ![e] = @ - 1]) + 1 = Ended(p)
<1>1. CASE e = "completed"
  BY <1>1 DEF Ended, Ends
<1>2. CASE e = "failed"
  BY <1>2 DEF Ended, Ends
<1> QED
  BY <1>1, <1>2 DEF Ends

(* An end is forgotten: the move it explained will be a record too many.   *)
LEMMA ForgetsKeep == ASSUME FwInv, NEW e \in Ends, Forgets(e) PROVE FwInv'
<1>1. /\ last \in Readings /\ last.pending \in [Ends -> Nat] /\ lets \in Nat /\ records \in Nat
      /\ row \in Nat /\ base \in Nat
  BY FireWatchAssumption DEF FwInv, FwKinds, Readings
<1>2. PICK p : p = [last.pending EXCEPT ![e] = @ - 1]
  OBVIOUS
<1>3. p \in [Ends -> Nat] /\ Ended(p) + 1 = Ended(last.pending)
  BY <1>1, <1>2, OneLess DEF Forgets
<1>4. /\ last' = [last EXCEPT !.pending = p] /\ lets' = lets + 1
      /\ UNCHANGED <<row, slot, phase, hand, endOf, counts, call, watches, listing, runOf>>
      /\ UNCHANGED <<records, fires, lives, base, odd>>
  BY <1>1, <1>2 DEF Forgets, host, Readings
<1>5. /\ last' \in Readings /\ last'.pending = p /\ last'.partial = last.partial /\ last'.row = last.row
      /\ last'.slot = last.slot /\ last'.counts = last.counts /\ last'.open = last.open
      /\ last'.settled = last.settled
  BY <1>1, <1>3, <1>4 DEF Readings
<1>6. FwKinds' /\ CountsGrow' /\ CountsAreRows'
  BY <1>1, <1>4, <1>5 DEF FwInv, FwKinds, CountsGrow, CountsAreRows
<1>7. Follows'
  <2>1. ~(call = "none" /\ last.partial)
    <3>1. call = "none" /\ last.partial => Ended(last.pending) = 0
      BY DEF FwInv, Follows, Blank
    <3>2. Ended(p) \in Nat
      BY <1>3, EndedIs
    <3> QED
      BY <1>3, <3>1, <3>2
  <2> QED
    BY <1>4, <1>5, <2>1 DEF FwInv, Follows
<1>8. Going' = Going
  BY <1>4 DEF Going
<1>9. PICK c \in Nat, x \in Nat, g \in Nat :
        c = Ended(last.counts) /\ x = Ended(p) /\ g = Cardinality(Going)
  BY <1>1, <1>3, EndedIs, GoingIs DEF Readings
<1>10. Accounted = c + (x + 1) + g /\ Accounted' = c + x + g
  BY <1>3, <1>5, <1>8, <1>9 DEF Accounted
<1>11. AllRecorded'
  <2>1. (call = "none" /\ ~last.partial /\ lives = 1) => c + (x + 1) + g <= records + base
    BY <1>10 DEF FwInv, AllRecorded
  <2>2. (call = "none" /\ ~last.partial /\ lives = 1) => c + x + g <= records + base
    BY <1>1, <2>1
  <2> QED
    BY <1>4, <1>5, <1>10, <2>2 DEF AllRecorded
<1>12. NoneTwice'
  <2> SUFFICES ASSUME Steady PROVE NoneTwice'
    BY <1>4 DEF NoneTwice, Steady
  <2>1. fires' + 1 = row' + (IF phase' = "waiting" THEN 0 ELSE 1)
    BY <1>4 DEF FwInv, NoneTwice
  <2>2. last.partial => records + 1 <= (lets + 1) + (IF listing = NoList THEN row ELSE listing.row)
    <3>1. listing # NoList => listing.row \in Nat
      BY ListIs
    <3>2. last.partial => records + 1 <= lets + (IF listing = NoList THEN row ELSE listing.row)
      BY DEF FwInv, NoneTwice
    <3> QED
      BY <1>1, <3>1, <3>2
  <2>3. ~last.partial => OneAtATime'
    <3> SUFFICES ASSUME ~last.partial PROVE OneAtATime'
      OBVIOUS
    <3>1. OneAtATime /\ Ended(last.pending) = x + 1
      BY <1>3, <1>9 DEF FwInv, NoneTwice
    <3>2. x = 0 /\ Ended(last.pending) = 1
      BY <3>1 DEF OneAtATime
    <3>3. \A r \in RowIds : runOf[r] # "open"
      BY <3>1, <3>2 DEF OneAtATime
    <3>4. last.row \in RowIds
      BY RowsAre DEF FwInv, CountsGrow
    <3>5. Ended(last'.pending) = 0 /\ Ended(last'.pending) # 1 /\ Ended(last'.pending) <= 1
      BY <1>5, <1>9, <3>2
    <3>6. /\ runOf' = runOf /\ row' = row /\ phase' = phase /\ last'.row = last.row
          /\ last'.open = last.open /\ last'.settled = last.settled
      BY <1>4, <1>5
    <3>7. runOf[last.row] # "none" => last.open = last.row \/ last.settled = last.row
      BY <3>1 DEF OneAtATime
    <3> QED
      BY <3>3, <3>4, <3>5, <3>6, <3>7 DEF OneAtATime
  <2>4. ~last.partial => records' <= lets' + Accounted'
    <3>1. ~last.partial => records <= lets + (c + (x + 1) + g)
      BY <1>10 DEF FwInv, NoneTwice
    <3>2. ~last.partial => records <= (lets + 1) + (c + x + g)
      BY <1>1, <3>1
    <3> QED
      BY <1>4, <1>10, <3>2
  <2> QED
    BY <1>4, <1>5, <2>1, <2>2, <2>3, <2>4 DEF NoneTwice
<1> QED
  BY <1>6, <1>7, <1>11, <1>12 DEF FwInv

LEMMA LifeBegins == FwInv /\ NewLife => FwInv'
<1> SUFFICES ASSUME FwInv, NewLife PROVE FwInv'
  OBVIOUS
<1>1. /\ UNCHANGED <<host, records, fires, base>> /\ last' = NoReading /\ runOf' = [r \in RowIds |-> "none"]
      /\ watches' = {} /\ listing' = NoList /\ lives' = lives + 1 /\ odd' = odd + 1 /\ odd < MaxOdd
      /\ UNCHANGED <<row, slot, phase, hand, endOf, counts>>
  BY DEF NewLife, Odd, host
<1>2. call' \in {"none", "sent", "answered"} /\ (call' = "none" => call = "none")
  BY DEF NewLife, FwInv, FwKinds
<1>3. PICK known : known = Cardinality({r \in RowIds : runOf[r] # "none"})
  OBVIOUS
<1>4. known \in Nat /\ lets' = lets + 1 + known /\ Cardinality(Going) <= known
  <2>1. IsFiniteSet({r \in RowIds : runOf[r] # "none"}) /\ Going \subseteq {r \in RowIds : runOf[r] # "none"}
    BY RowsAre, FS_Subset DEF Going
  <2> QED
    BY <1>3, <2>1, FS_Subset, FS_CardinalityType DEF NewLife
<1>5. lets \in Nat /\ records \in Nat /\ row \in Nat /\ last \in Readings /\ lives \in Nat /\ odd \in Nat
  BY FireWatchAssumption DEF FwInv, FwKinds
<1>6. NoReading \in Readings /\ NoReading.partial = TRUE /\ NoReading.open = NoRow /\ NoReading.settled = NoRow
      /\ Ended(NoReading.pending) = 0
  BY DEF NoReading, Readings, Zero, Ended, Ends
<1>7. FwKinds'
  BY <1>1, <1>2, <1>4, <1>5, <1>6, FireWatchAssumption DEF FwInv, FwKinds
<1>8. CountsGrow' /\ CountsAreRows' /\ AllRecorded'
  BY <1>1, <1>2, <1>6 DEF FwInv, CountsGrow, CountsAreRows, AllRecorded
<1>9. Follows'
  BY <1>1, <1>6 DEF Follows, Blank
<1>10. NoneTwice'
  <2> SUFFICES ASSUME Steady' PROVE NoneTwice'
    BY DEF NoneTwice
  <2>1. Steady /\ call = "none"
    BY <1>1, <1>2 DEF Steady
  <2>2. records + 1 <= lets' + row
    <3>1. CASE last.partial
      <4>1. listing # NoList => listing.row <= row /\ listing.row \in Nat
        BY ListIs
      <4>2. records + 1 <= lets + (IF listing = NoList THEN row ELSE listing.row)
        BY <2>1, <3>1 DEF FwInv, NoneTwice
      <4> QED
        BY <1>4, <1>5, <4>1, <4>2
    <3>2. CASE ~last.partial
      <4>1. OneAtATime /\ records <= lets + Accounted
        BY <2>1, <3>2 DEF FwInv, NoneTwice
      <4>2. last.row <= row /\ last.row \in Nat /\ Ended(last.counts) + 1 = last.row
        BY <2>1, <3>2, FireWatchAssumption DEF FwInv, CountsGrow, CountsAreRows
      <4>3. PICK c \in Nat, x \in Nat, g \in Nat :
              c = Ended(last.counts) /\ x = Ended(last.pending) /\ g = Cardinality(Going)
        BY <1>5, EndedIs, GoingIs DEF Readings
      <4>4. x <= 1 /\ records <= lets + (c + x + g) /\ c + 1 <= row /\ g <= known
        BY <1>4, <1>5, <4>1, <4>2, <4>3 DEF OneAtATime, Accounted
      <4>5. records + 1 <= (lets + 1 + known) + row
        BY <1>4, <1>5, <4>4
      <4> QED
        BY <1>4, <4>5
    <3> QED
      BY <3>1, <3>2
  <2>3. fires' + 1 = row' + (IF phase' = "waiting" THEN 0 ELSE 1)
    BY <1>1, <2>1 DEF FwInv, NoneTwice
  <2> QED
    BY <1>1, <1>6, <2>2, <2>3 DEF NoneTwice
<1> QED
  BY <1>7, <1>8, <1>9, <1>10 DEF FwInv

LEMMA FwStarts == FwInit => FwInv
<1> SUFFICES ASSUME FwInit PROVE FwInv
  OBVIOUS
<1>1. NoReading \in Readings /\ NoReading.partial = TRUE /\ NoReading.open = NoRow /\ NoReading.settled = NoRow
      /\ Ended(NoReading.pending) = 0 /\ Zero \in [Ends -> Nat] /\ Ended(Zero) = 0
  BY DEF NoReading, Readings, Zero, Ended, Ends
<1>2. /\ row = 1 /\ slot = 0 /\ phase = "waiting" /\ hand = "none" /\ call = "none"
      /\ endOf = [r \in RowIds |-> "no"] /\ counts = Zero /\ watches = {}
      /\ listing = NoList /\ last = NoReading /\ runOf = [r \in RowIds |-> "none"]
      /\ records = 0 /\ fires = 0 /\ lets = 0 /\ lives = 1 /\ base = 0 /\ odd = 0
  BY DEF FwInit
<1>3. FwKinds
  BY <1>1, <1>2, FireWatchAssumption DEF FwKinds
<1>4. CountsGrow /\ CountsAreRows /\ AllRecorded
  BY <1>1, <1>2 DEF CountsGrow, CountsAreRows, AllRecorded
<1>5. Follows /\ NoneTwice
  BY <1>1, <1>2 DEF Follows, Blank, NoneTwice
<1> QED
  BY <1>3, <1>4, <1>5 DEF FwInv

LEMMA FwStays == FwInv /\ (FwNext \/ UNCHANGED fwVars) => FwInv'
<1> SUFFICES ASSUME FwInv, FwNext \/ UNCHANGED fwVars PROVE FwInv'
  OBVIOUS
<1>1. CASE UNCHANGED fwVars
  <2>1. /\ UNCHANGED <<call, watches, listing, last, runOf, records, base>>
        /\ UNCHANGED <<row, slot, phase, hand, endOf, counts, fires, lets, lives, odd>>
    BY <1>1 DEF fwVars, host, tally
  <2>2. FwKinds' /\ CountsGrow' /\ CountsAreRows' /\ Follows'
    BY <2>1 DEF FwInv, FwKinds, CountsGrow, CountsAreRows, Follows, Blank
  <2>3. AllRecorded' /\ NoneTwice'
    BY <2>1 DEF FwInv, AllRecorded, NoneTwice, Steady, OneAtATime, Accounted, Going
  <2> QED
    BY <2>2, <2>3 DEF FwInv
<1> QED
  BY <1>1, HostKeeps, AsksKeeps, EndsKeep, ForgetsKeep, ReadKeeps, LifeBegins DEF FwNext

(* What the invariant says of the properties.                              *)
LEMMA FiresFollow == FwInv => NeverTwice /\ NoneMissed
<1> SUFFICES ASSUME FwInv PROVE NeverTwice /\ NoneMissed
  OBVIOUS
<1>1. last \in Readings /\ lets \in Nat /\ records \in Nat /\ row \in Nat /\ fires \in Nat /\ base \in Nat
  BY FireWatchAssumption DEF FwInv, FwKinds
<1>2. PICK c \in Nat, x \in Nat, g \in Nat :
        c = Ended(last.counts) /\ x = Ended(last.pending) /\ g = Cardinality(Going)
  BY <1>1, EndedIs, GoingIs DEF Readings
<1>3. Accounted = c + x + g
  BY <1>2 DEF Accounted
<1>4. NoneMissed
  BY <1>1, <1>2, <1>3 DEF FwInv, AllRecorded, NoneMissed
<1>5. ASSUME Steady PROVE records <= fires + lets
  <2>1. fires + 1 = row + (IF phase = "waiting" THEN 0 ELSE 1)
    BY <1>5 DEF FwInv, NoneTwice
  <2>2. CASE last.partial
    <3>1. listing # NoList => listing.row <= row /\ listing.row \in Nat
      BY ListIs
    <3>2. records + 1 <= lets + (IF listing = NoList THEN row ELSE listing.row)
      BY <1>5, <2>2 DEF FwInv, NoneTwice
    <3>3. records + 1 <= lets + row
      BY <1>1, <3>1, <3>2
    <3> QED
      BY <1>1, <2>1, <3>3
  <2>3. CASE ~last.partial
    <3>1. OneAtATime /\ records <= lets + (c + x + g)
      BY <1>3, <1>5, <2>3 DEF FwInv, NoneTwice
    <3>2. last.row <= row /\ last.row \in Nat /\ c + 1 = last.row /\ last.row \in RowIds
      BY <1>2, <1>5, <2>3, FireWatchAssumption, RowsAre DEF FwInv, CountsGrow, CountsAreRows, Steady
    <3>3. CASE runOf[last.row] = "open"
      <4>1. Going = {last.row}
        BY <3>1, <3>2, <3>3 DEF Going, OneAtATime
      <4>2. g = 1
        BY <1>2, <4>1, FS_Singleton
      <4>3. x = 0 /\ (last.row < row \/ phase # "waiting")
        BY <1>2, <3>1, <3>2, <3>3 DEF OneAtATime
      <4>4. records <= lets + last.row
        BY <1>1, <3>1, <3>2, <4>2, <4>3
      <4>5. last.row <= fires
        BY <1>1, <2>1, <3>2, <4>3
      <4> QED
        BY <1>1, <3>2, <4>4, <4>5
    <3>4. CASE runOf[last.row] # "open"
      <4>1. Going = {}
        BY <3>1, <3>4 DEF Going, OneAtATime
      <4>2. g = 0
        BY <1>2, <4>1, FS_EmptySet
      <4>3. x <= 1 /\ (x = 1 => last.row < row \/ phase # "waiting")
        BY <1>2, <3>1 DEF OneAtATime
      <4>4. last.row <= fires + 1 /\ (x = 1 => last.row <= fires)
        BY <1>1, <2>1, <3>2, <4>3
      <4> QED
        BY <1>1, <1>2, <3>1, <3>2, <4>2, <4>3, <4>4
    <3> QED
      BY <3>3, <3>4
  <2> QED
    BY <2>2, <2>3
<1> QED
  BY <1>4, <1>5 DEF NeverTwice, Steady

LEMMA FwFollows == FwInv => FwTypeOK
<1> SUFFICES ASSUME FwInv PROVE FwTypeOK
  OBVIOUS
<1>1. slot \in Nat /\ slot <= odd /\ odd <= MaxOdd /\ odd \in Nat
  BY DEF FwInv, FwKinds
<1>2. slot \in 0 .. MaxOdd
  BY <1>1, FireWatchAssumption
<1> QED
  BY <1>2 DEF FwInv, FwKinds, FwTypeOK, Readings

(* Whatever the order of readings, turn frames, ends read off the counters *)
(* and sweeps, and over a new life: of a series nobody runs by hand no     *)
(* fire the host made is recorded twice while it gives no new time, except *)
(* one whose end was forgotten because the sweep came more than ten        *)
(* minutes later, and in one life of FREN no end is missed that the        *)
(* counters have shown (schedule-watch.js observe, remember).              *)
THEOREM FiresAreTold == CoreSpec => []FiresAreCounted
<1>1. CoreInit => FwInv
  BY FwStarts DEF CoreInit
<1>2. [CoreNext]_coreAll => FwNext \/ UNCHANGED fwVars
  <2> SUFFICES ASSUME [CoreNext]_coreAll PROVE FwNext \/ UNCHANGED fwVars
    OBVIOUS
  <2>1. CASE OfEgress \/ OfPolicy \/ OfCron \/ OfStore
    BY <2>1 DEF OfEgress, OfPolicy, OfCron, OfStore, coreRest
  <2>2. CASE OfLife \/ OfMock \/ OfLaunch \/ OfTools \/ OfFires \/ OfFiring \/ OfProvision
    BY <2>2 DEF OfLife, OfMock, OfLaunch, OfTools, OfFires, OfFiring, OfProvision
  <2>3. CASE UNCHANGED coreAll
    BY <2>3 DEF coreAll
  <2> QED
    BY <2>1, <2>2, <2>3 DEF CoreNext
<1>3. FwInv /\ [CoreNext]_coreAll => FwInv'
  BY <1>2, FwStays
<1>4. FwInv => FiresAreCounted
  BY FiresFollow DEF FiresAreCounted
<1> QED
  BY <1>1, <1>3, <1>4, PTL DEF CoreSpec
=============================================================================
