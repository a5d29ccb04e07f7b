-------------------------- MODULE PermissionBroker --------------------------
(***************************************************************************)
(* Permission requests: FREN as the human in the loop.                     *)
(*                                                                         *)
(* A card is a row of core.db.  An ask comes from the runtime host, whose  *)
(* agent is held until the answer is sent back over the link; a hold is    *)
(* raised inside Core by the egress proxy or a tool, whose caller waits on *)
(* a promise.  The broker (packages/fren-core/permission-broker.js)        *)
(* answers by a standing grant, or the person does, or time does, or the   *)
(* runtime goes away first.  The adapter forwards an answer to the host    *)
(* (packages/runtime-nanoclaw/index.js).                                   *)
(*                                                                         *)
(* Every handler runs to its end in one turn of Core's event loop.         *)
(***************************************************************************)
EXTENDS Integers, FiniteSets

CONSTANTS
  Asks, Holds,  (* cards of the runtime; cards raised inside Core             *)
  Keys, NoKey,  (* a key is one scope in one conversation; no such            *)
  KeyOf,        (* the key an ask is about: the same action asks the same     *)
  Standing,     (* keys allowed without asking: automation grants, defaults   *)
  MaxFaults,    (* bound: link drops and runtime stops in all *)
  MaxCrashes    (* bound: Core crashes                        *)

Cards == Asks \cup Holds

ASSUME BrokerAssumption ==
  /\ Asks \cap Holds = {}
  /\ NoKey \notin Keys /\ Standing \subseteq Keys
  /\ KeyOf \in [Asks -> Keys \cup {NoKey}]
  /\ MaxFaults \in Nat /\ MaxCrashes \in Nat

VARIABLES
  core,     (* "up" or "down"                                              *)
  row,      (* core.db: the status of each card                            *)
  due,      (* cards whose expiresAt has passed                            *)
  grants,   (* sessionGrants: keys remembered for the conversation         *)
  waiting,  (* pendingEgress: holds with a caller waiting                  *)
  heard,    (* what a hold's caller was told                               *)
  rt,       (* the runtime: "up", "tearing" or "stopped"                   *)
  link,     (* the host is connected                                       *)
  pending,  (* the adapter's pending: asks it can still answer             *)
  host,     (* what the host knows of each ask                             *)
  faults, crashes

coreVars == <<row, due, grants, waiting, heard>>
hostVars == <<pending, host>>
vars == <<core, coreVars, rt, link, hostVars, faults, crashes>>

Closed == {"approved", "denied", "expired"}
OpenCards == {c \in Cards : row[c] = "open"}

Init ==
  /\ core = "up"
  /\ row = [c \in Cards |-> "none"] /\ due = {}
  /\ grants = {} /\ waiting = {}
  /\ heard = [h \in Holds |-> "none"]
  /\ rt = "up" /\ link = FALSE
  /\ pending = {} /\ host = [a \in Asks |-> "none"]
  /\ faults = 0 /\ crashes = 0

-----------------------------------------------------------------------------
(* Answers *)

(* Broken form of AnswerRuntime: the adapter keeps what it has answered. *)
AnswerRuntimeKept(S, word) ==
  /\ host' = [a \in Asks |-> IF a \in S \cap pending /\ link /\ host[a] = "held" THEN word ELSE host[a]]
  /\ UNCHANGED pending

(* answerRuntime and the adapter's resolvePermission, for the asks of S: one *)
(* it still has is forgotten, and the word goes to the host if there is a    *)
(* link; the host heeds it if it has not given the ask up.                   *)
AnswerRuntime(S, word) ==
  /\ pending' = pending \ S
  /\ host' = [a \in Asks |-> IF a \in S \cap pending /\ link /\ host[a] = "held" THEN word ELSE host[a]]

(* resolveEgress: a caller that waits on a card of S hears the word. *)
AnswerCallers(S, word) ==
  /\ waiting' = waiting \ S
  /\ heard' = [h \in Holds |-> IF h \in S \cap waiting THEN word ELSE heard[h]]

(* Broken form of Expire: the caller is left to its own timeout. *)
ExpireUnheard(S) ==
  /\ row' = [c \in Cards |-> IF c \in S THEN "expired" ELSE row[c]]
  /\ AnswerRuntime(S, "reject")
  /\ UNCHANGED <<waiting, heard>>

(* expire(), for every card of S: whoever waits hears no. *)
Expire(S) ==
  /\ row' = [c \in Cards |-> IF c \in S THEN "expired" ELSE row[c]]
  /\ AnswerRuntime(S, "reject")
  /\ AnswerCallers(S, "deny")

-----------------------------------------------------------------------------
(* Requests *)

(* The host delivers the card of an ask, and Core acknowledges it.  The link *)
(* may die right then: the answer to the acknowledgement never comes, or the *)
(* broker's automatic answer is lost.  A host without its acknowledgement    *)
(* gives the ask up.                                                         *)
Asked(a) ==
  /\ core = "up" /\ link
  /\ host[a] = "none" /\ row[a] = "none"
  /\ LET auto == KeyOf[a] \in Standing \cup grants
     IN  /\ row' = [row EXCEPT ![a] = IF auto THEN "approved" ELSE "open"]
         /\ pending' = IF auto THEN pending ELSE pending \cup {a}
         /\ \/ /\ host' = [host EXCEPT ![a] = IF auto THEN "approve" ELSE "held"]
               /\ UNCHANGED <<link, faults>>
            \/ /\ faults < MaxFaults /\ faults' = faults + 1 /\ link' = FALSE
               /\ host' \in {[host EXCEPT ![a] = k] : k \in {"held", "withdrawn"}}
  /\ UNCHANGED <<core, due, grants, waiting, heard, rt, crashes>>

(* ask(): the proxy holds a connection, or a tool call waits. *)
Held(h) ==
  /\ core = "up" /\ row[h] = "none"
  /\ row' = [row EXCEPT ![h] = "open"]
  /\ waiting' = waiting \cup {h}
  /\ UNCHANGED <<core, due, grants, heard, rt, link, hostVars, faults, crashes>>

(* Broken form of Approve: the expiry is the sweep's business alone. *)
ApproveLate(c) ==
  /\ core = "up" /\ row[c] = "open"
  /\ row' = [row EXCEPT ![c] = "approved"]
  /\ \/ UNCHANGED grants
     \/ c \in Asks /\ KeyOf[c] # NoKey /\ grants' = grants \cup {KeyOf[c]}
  /\ AnswerRuntime({c}, "approve") /\ AnswerCallers({c}, "approve")
  /\ UNCHANGED <<core, due, rt, link, faults, crashes>>

(* Broken form of Approve: "for this conversation" of an action no rule knows. *)
ApproveUnknown(c) ==
  /\ core = "up" /\ row[c] = "open" /\ c \notin due
  /\ row' = [row EXCEPT ![c] = "approved"]
  /\ \/ UNCHANGED grants
     \/ c \in Asks /\ grants' = grants \cup {KeyOf[c]}
  /\ AnswerRuntime({c}, "approve") /\ AnswerCallers({c}, "approve")
  /\ UNCHANGED <<core, due, rt, link, faults, crashes>>

(* decideRequest, the person saying yes: for once, or -- an ask about a      *)
(* known scope of a conversation -- for the session.                         *)
Approve(c) ==
  /\ core = "up" /\ row[c] = "open" /\ c \notin due
  /\ row' = [row EXCEPT ![c] = "approved"]
  /\ \/ UNCHANGED grants
     \/ c \in Asks /\ KeyOf[c] # NoKey /\ grants' = grants \cup {KeyOf[c]}
  /\ AnswerRuntime({c}, "approve") /\ AnswerCallers({c}, "approve")
  /\ UNCHANGED <<core, due, rt, link, faults, crashes>>

(* decideRequest, the person saying no. *)
Deny(c) ==
  /\ core = "up" /\ row[c] = "open" /\ c \notin due
  /\ row' = [row EXCEPT ![c] = "denied"]
  /\ AnswerRuntime({c}, "reject") /\ AnswerCallers({c}, "deny")
  /\ UNCHANGED <<core, due, grants, rt, link, faults, crashes>>

(* Broken form of AnswerTooLate: the card expires, the yes goes through. *)
AnswerTooLateForwarded(c) ==
  /\ core = "up" /\ row[c] = "open" /\ c \in due
  /\ row' = [row EXCEPT ![c] = "expired"]
  /\ AnswerRuntime({c}, "approve") /\ AnswerCallers({c}, "approve")
  /\ UNCHANGED <<core, due, grants, rt, link, faults, crashes>>

(* decideRequest on a card whose time has passed, whatever the person says. *)
AnswerTooLate(c) ==
  /\ core = "up" /\ row[c] = "open" /\ c \in due
  /\ Expire({c})
  /\ UNCHANGED <<core, due, grants, rt, link, faults, crashes>>

-----------------------------------------------------------------------------
(* Time *)

(* A card's time passes, whether Core runs or not. *)
Lapse(c) ==
  /\ row[c] = "open" /\ c \notin due
  /\ due' = due \cup {c}
  /\ UNCHANGED <<core, row, grants, waiting, heard, rt, link, hostVars, faults, crashes>>

(* expireStale, every half minute. *)
Sweep ==
  /\ core = "up" /\ OpenCards \cap due # {}
  /\ Expire(OpenCards \cap due)
  /\ UNCHANGED <<core, due, grants, rt, link, faults, crashes>>

-----------------------------------------------------------------------------
(* The runtime and Core *)

LinkUp ==
  /\ core = "up" /\ rt # "stopped" /\ ~link
  /\ link' = TRUE
  /\ UNCHANGED <<core, coreVars, rt, hostVars, faults, crashes>>

LinkDown ==
  /\ link
  /\ faults < MaxFaults /\ faults' = faults + 1
  /\ link' = FALSE
  /\ UNCHANGED <<core, coreVars, rt, hostVars, crashes>>

(* Broken form of StopBegins: the promises are left to the garbage collector. *)
StopBeginsSilently ==
  /\ core = "up"
  /\ faults < MaxFaults /\ faults' = faults + 1
  /\ row' = [c \in Cards |-> IF c \in OpenCards THEN "expired" ELSE row[c]]
  /\ AnswerRuntime(OpenCards, "reject")
  /\ waiting' = {} /\ UNCHANGED heard
  /\ grants' = {}
  /\ rt' = IF rt = "stopped" THEN rt ELSE "tearing"
  /\ UNCHANGED <<core, due, link, crashes>>

(* stopRuntime(): runtimeGone() closes every card and forgets every grant;   *)
(* then the adapter takes its time to stop.                                  *)
StopBegins ==
  /\ core = "up"
  /\ faults < MaxFaults /\ faults' = faults + 1
  /\ Expire(OpenCards)
  /\ grants' = {}
  /\ rt' = IF rt = "stopped" THEN rt ELSE "tearing"
  /\ UNCHANGED <<core, due, link, crashes>>

(* The adapter's teardown is through. *)
StopEnds ==
  /\ core = "up" /\ rt = "tearing"
  /\ rt' = "stopped" /\ link' = FALSE /\ pending' = {}
  /\ UNCHANGED <<core, coreVars, host, faults, crashes>>

Start ==
  /\ core = "up" /\ rt = "stopped"
  /\ rt' = "up"
  /\ UNCHANGED <<core, coreVars, link, hostVars, faults, crashes>>

Crash ==
  /\ core = "up" /\ crashes < MaxCrashes /\ crashes' = crashes + 1
  /\ core' = "down" /\ rt' = "stopped" /\ link' = FALSE
  /\ grants' = {} /\ waiting' = {} /\ pending' = {}
  /\ UNCHANGED <<row, due, heard, host, faults>>

(* Core's start(): what lapsed while it was away expires -- to an adapter    *)
(* that knows nothing of it -- and the runtime is started.                   *)
Boot ==
  /\ core = "down"
  /\ core' = "up" /\ rt' = "up"
  /\ Expire(OpenCards \cap due)
  /\ UNCHANGED <<due, grants, link, faults, crashes>>

-----------------------------------------------------------------------------
Requests == (\E a \in Asks : Asked(a)) \/ (\E h \in Holds : Held(h))
Person == \E c \in Cards : Approve(c) \/ Deny(c) \/ AnswerTooLate(c)
Time == (\E c \in Cards : Lapse(c)) \/ Sweep
Life == LinkUp \/ LinkDown \/ StopBegins \/ StopEnds \/ Start \/ Crash \/ Boot

Next == Requests \/ Person \/ Time \/ Life

Spec == Init /\ [][Next]_vars

(* Time passes, the sweep's interval fires, and somebody starts Core again. *)
Fairness == WF_vars(Sweep) /\ WF_vars(Boot) /\ \A c \in Cards : WF_vars(Lapse(c))

FairSpec == Spec /\ Fairness

-----------------------------------------------------------------------------
TypeOK ==
  /\ core \in {"up", "down"}
  /\ row \in [Cards -> {"none", "open"} \cup Closed]
  /\ due \subseteq Cards /\ grants \subseteq Keys /\ waiting \subseteq Holds
  /\ heard \in [Holds -> {"none", "approve", "deny"}]
  /\ rt \in {"up", "tearing", "stopped"} /\ link \in BOOLEAN
  /\ pending \subseteq Asks
  /\ host \in [Asks -> {"none", "held", "withdrawn", "approve", "reject"}]
  /\ faults \in Nat /\ crashes \in Nat

(* The record and the act agree: what the host or a waiting caller was told  *)
(* is what the card says, whoever closed it -- a yes only of an approved     *)
(* card, a no only of one that was denied or expired.                        *)
ActsMatchCards ==
  /\ \A a \in Asks : /\ host[a] = "approve" => row[a] = "approved"
                     /\ host[a] = "reject" => row[a] \in {"denied", "expired"}
  /\ \A h \in Holds : /\ heard[h] = "approve" => row[h] = "approved"
                      /\ heard[h] = "deny" => row[h] \in {"denied", "expired"}

(* Nobody waits on a card the person can no longer answer: the adapter's     *)
(* pending asks and the broker's waiting callers all have an open card.      *)
WaitersHaveCards ==
  pending \cup waiting \subseteq OpenCards

(* A hold's caller always gets its answer: as long as Core lives, a card     *)
(* that closes has told its caller.                                          *)
CallersHear ==
  crashes = 0 => \A h \in Holds : row[h] \in Closed => heard[h] # "none"

(* Nothing is approved by silence, or late: a card is approved in its time,  *)
(* or at once by a grant that stands; a grant comes only with a card that is *)
(* approved.  A closed card stays as it was closed.                          *)
YesIsGiven ==
  [][/\ \A c \in Cards :
          /\ row[c] \in Closed => row'[c] = row[c]
          /\ row[c] # "approved" /\ row'[c] = "approved" =>
               /\ c \notin due
               /\ row[c] = "none" => c \in Asks /\ KeyOf[c] \in Standing \cup grants
     /\ \A k \in grants' \ grants :
          \E a \in Asks : KeyOf[a] = k /\ row[a] = "open" /\ row'[a] = "approved"]_vars

(* Every card closes, answered or not, and no caller waits for ever. *)
EveryCardCloses ==
  /\ \A c \in Cards : row[c] = "open" ~> row[c] \in Closed
  /\ \A h \in Holds : h \in waiting ~> h \notin waiting

-----------------------------------------------------------------------------
(* A statement of the documentation that the code does not keep *)

(* docs/runtime-architecture.md 12: an approval unanswered is "request       *)
(* `expired`; runtime told `deny`".                                          *)
ExpiryIsTold ==
  \A a \in Asks : row[a] = "expired" => host[a] # "held"
=============================================================================
