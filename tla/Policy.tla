------------------------------- MODULE Policy -------------------------------
(***************************************************************************)
(* What a standing rule lets an agent do (packages/permissions/index.js,   *)
(* and the policy() the broker of fren-core gives it): the scope of an     *)
(* action, the order of the rules, and where the grants come from and go.  *)
(* The cards themselves are PermissionBroker's.                            *)
(***************************************************************************)
EXTENDS FiniteSets, Sequences, Integers

CONSTANTS
  Talkers,    \* conversations
  Chores,     \* automations
  NoOne,      \* an action that comes from no automation, or from no conversation
  ActionNames, \* names of the runtime's actions: each the set of the scopes it has words of
  MaxCardsAsked   \* bound: cards open at one time

\* The patterns of scopeForRuntimeAction, in their order; the scopes an agent can be
\* granted beside those are no action's.
Order == <<"runtime.self_modify", "runtime.agents", "runtime.schedule", "shell.execute", "network.request">>
Known == {Order[i] : i \in 1..Len(Order)}

ASSUME PolicyConstants ==
  /\ NoOne \notin Talkers \union Chores /\ ActionNames \subseteq SUBSET Known /\ MaxCardsAsked \in Nat

Actions == [name : ActionNames, talk : Talkers \union {NoOne}, chore : Chores \union {NoOne}]
NoAction == [name |-> {}, talk |-> NoOne, chore |-> NoOne]

VARIABLES
  mayDo,      \* store: the permissions of each automation; of one that is no more, none
  sessionGrants,  \* the broker's, for this life of the runtime
  openAsks,   \* the actions on cards nobody has answered
  verdict,    \* the latest answer of the policy, with what the automation had then
  allowedFor  \* what the person said yes to for a conversation, and the runtime still lives

polVars == <<mayDo, sessionGrants, openAsks, verdict, allowedFor>>
NoVerdict == [of |-> NoAction, out |-> "none", had |-> {}]

PolTypeOK ==
  /\ mayDo \in [Chores -> SUBSET Known]
  /\ sessionGrants \in [Talkers -> SUBSET Known]
  /\ openAsks \subseteq Actions /\ Cardinality(openAsks) <= MaxCardsAsked
  /\ verdict \in [of : Actions \union {NoAction}, out : {"none", "ALLOW", "ASK_USER"}, had : SUBSET Known]
  /\ allowedFor \subseteq Talkers \X Known

PolInit ==
  /\ mayDo = [c \in Chores |-> {}] /\ sessionGrants = [t \in Talkers |-> {}]
  /\ openAsks = {} /\ verdict = NoVerdict /\ allowedFor = {}

(***************************************************************************)
(* The rules                                                               *)
(***************************************************************************)
\* scopeForRuntimeAction: the first pattern that fits.
ScopeOf(name) ==
  IF name = {} THEN "unknown"
  ELSE Order[CHOOSE i \in 1..Len(Order) : Order[i] \in name /\ \A j \in 1..(i - 1) : Order[j] \notin name]

GrantsOf(f, x) == IF x \in DOMAIN f THEN f[x] ELSE {}

\* Broken form of Decide: whatever word of the name was granted will do.
DecideByAnyWord(a) ==
  IF \E s \in a.name : s \in GrantsOf(mayDo, a.chore) \/ s \in GrantsOf(sessionGrants, a.talk) \/ s = "network.request"
  THEN "ALLOW" ELSE "ASK_USER"

\* decide, with policy(): nothing is denied beforehand, and the one default is the network's.
Decide(a) ==
  LET s == ScopeOf(a.name) IN
  IF s # "unknown" /\ (s \in GrantsOf(mayDo, a.chore) \/ s \in GrantsOf(sessionGrants, a.talk)
                       \/ s = "network.request")
  THEN "ALLOW" ELSE "ASK_USER"

(***************************************************************************)
(* Steps                                                                   *)
(***************************************************************************)
\* onRuntimeEvent.
AgentActs(a) ==
  /\ verdict' = [of |-> a, out |-> Decide(a), had |-> GrantsOf(mayDo, a.chore)]
  /\ openAsks' = IF Decide(a) = "ALLOW" THEN openAsks ELSE openAsks \union {a}
  /\ Cardinality(openAsks') <= MaxCardsAsked
  /\ UNCHANGED <<mayDo, sessionGrants, allowedFor>>

\* decideRequest: yes, for once or for the conversation, or no.
CardAnswered(a, yes, remember) ==
  /\ a \in openAsks /\ openAsks' = openAsks \ {a}
  /\ LET s == ScopeOf(a.name) IN
     IF yes /\ remember = "session" /\ a.talk # NoOne /\ s # "unknown"
     THEN /\ sessionGrants' = [sessionGrants EXCEPT ![a.talk] = @ \union {s}]
          /\ allowedFor' = allowedFor \union {<<a.talk, s>>}
     ELSE UNCHANGED <<sessionGrants, allowedFor>>
  /\ UNCHANGED <<mayDo, verdict>>

\* policy() reads the automations at each action: one made, edited or deleted counts at once.
ChoreChanges(c, S) ==
  /\ S # mayDo[c] /\ mayDo' = [mayDo EXCEPT ![c] = S]
  /\ UNCHANGED <<sessionGrants, openAsks, verdict, allowedFor>>

\* runtimeGone, or Core itself is gone.
GrantsLapse ==
  /\ openAsks' = {} /\ verdict' = NoVerdict /\ allowedFor' = {}
  /\ sessionGrants' = [t \in Talkers |-> {}] /\ UNCHANGED mayDo

PolNext ==
  \/ \E a \in Actions : AgentActs(a)
  \/ \E a \in openAsks, yes \in BOOLEAN, r \in {"once", "session"} : CardAnswered(a, yes, r)
  \/ \E c \in Chores, S \in {{}, {"runtime.schedule"}} : ChoreChanges(c, S)
  \/ GrantsLapse

PolSpec == PolInit /\ [][PolNext]_polVars

-----------------------------------------------------------------------------
(* An agent's action goes through unasked only when somebody said so: the  *)
(* automation it came from had that very scope then, the person said yes   *)
(* for that conversation in this life of the runtime, or it is about the   *)
(* network alone (permissions/index.js decide, broker policy, runtimeGone).*)
LetThroughIsGranted ==
  verdict.out = "ALLOW" =>
    \/ verdict.of.name = {"network.request"}
    \/ \E s \in verdict.of.name : s \in verdict.had \/ <<verdict.of.talk, s>> \in allowedFor

(* An action that changes the runtime itself is never let through by what  *)
(* was granted of something else in its name (scopeForRuntimeAction).      *)
SelfChangesAreAsked ==
  verdict.out = "ALLOW" /\ "runtime.self_modify" \in verdict.of.name =>
    \/ "runtime.self_modify" \in verdict.had
    \/ <<verdict.of.talk, "runtime.self_modify">> \in allowedFor
=============================================================================
