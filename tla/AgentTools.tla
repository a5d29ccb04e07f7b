----------------------------- MODULE AgentTools ----------------------------
(***************************************************************************)
(* What an agent in a sandbox can ask of the desktop through Core's tool   *)
(* lane (fren-core/sandbox-proxy.js handleTools, fren-core/index.js        *)
(* handleToolCall): to notify the person, and to read the page they are    *)
(* looking at. Core asks the person; the page itself is in the desktop, so *)
(* a read is an event to the desktop, answered by a post, within six       *)
(* seconds. Meanwhile the person goes on browsing, switches the light off, *)
(* and the event may reach the desktop late, or twice after a reconnect.   *)
(***************************************************************************)
EXTENDS Naturals, FiniteSets

CONSTANTS
  Calls,      \* tool calls that read the page
  Pages,      \* the pages the person may be on
  Hidden,     \* those of them that are private: excluded, or without text
  Absent      \* no page

ASSUME AgentToolsAssumption == Hidden \subseteq Pages /\ Absent \notin Pages

VARIABLES
  page,       \* the page in front, as the desktop's sensor has it; Absent with the light off
  named,      \* latestBrowser of Core: the page its question names
  always,     \* the person let it always (tools.browserRead)
  callOf,       \* each call: "new", "asking", "waiting", "done"
  question,   \* the page the question of a call named
  requested,  \* browser.read.request events on their way to the desktop
  posted,     \* answers on their way back: which call, which page
  result,     \* what the agent got for a call
  times       \* history: how often a call was answered

toolVars == <<page, named, always, callOf, question, requested, posted, result, times>>

ToolInit ==
  /\ page \in Pages \cup {Absent} /\ named = Absent /\ always \in BOOLEAN
  /\ callOf = [c \in Calls |-> "new"] /\ question = [c \in Calls |-> Absent]
  /\ requested = {} /\ posted = {}
  /\ result = [c \in Calls |-> Absent] /\ times = [c \in Calls |-> 0]

-----------------------------------------------------------------------------
(* The person moves to another page, or the light goes off or on. Core     *)
(* hears of a page that is not private, some time later.                   *)
Browse ==
  /\ page' \in Pages \cup {Absent}
  /\ page' # page
  /\ UNCHANGED <<named, always, callOf, question, requested, posted, result, times>>

PageNoticed ==
  /\ page \notin Hidden \cup {Absent}
  /\ named' = page /\ named' # named
  /\ UNCHANGED <<page, always, callOf, question, requested, posted, result, times>>

(* handleToolCall: the broker is asked, unless the person let it always.   *)
(* The waiter is registered before the event is emitted.                   *)
Requests(c) == requested' = requested \cup {c}

Call(c) ==
  /\ callOf[c] = "new"
  /\ IF always
     THEN /\ callOf' = [callOf EXCEPT ![c] = "waiting"]
          /\ Requests(c) /\ UNCHANGED question
     ELSE /\ callOf' = [callOf EXCEPT ![c] = "asking"]
          /\ question' = [question EXCEPT ![c] = named]
          /\ UNCHANGED requested
  /\ UNCHANGED <<page, named, always, posted, result, times>>

Approve(c) ==
  /\ callOf[c] = "asking"
  /\ callOf' = [callOf EXCEPT ![c] = "waiting"]
  /\ Requests(c)
  /\ always' \in {always, TRUE}
  /\ UNCHANGED <<page, named, question, posted, result, times>>

(* One answer to the agent: it ends the call.                              *)
CallEnds(c, p) ==
  /\ callOf'   = [callOf EXCEPT ![c] = "done"]
  /\ result' = [result EXCEPT ![c] = p]
  /\ times'  = [times EXCEPT ![c] = IF @ < 2 THEN @ + 1 ELSE @]

(* Denied, expired, or the six seconds are over.                           *)
Refuse(c) ==
  /\ callOf[c] = "asking"
  /\ CallEnds(c, Absent)
  /\ UNCHANGED <<page, named, always, question, requested, posted>>

TimesOut(c) ==
  /\ callOf[c] = "waiting"
  /\ CallEnds(c, Absent)
  /\ UNCHANGED <<page, named, always, question, requested, posted>>

-----------------------------------------------------------------------------
(* The desktop (respondBrowserRead): the page in front at this moment, if  *)
(* the light is on and it is not private. The event may come once more,    *)
(* when its stream reconnects.                                             *)
(* Mutation: the page is handed over whatever it is.                       *)
Anything == page
Shown == IF page \in Hidden THEN Absent ELSE page

Respond(c) ==
  /\ c \in requested
  /\ posted' = posted \cup {[of |-> c, page |-> Shown]}
  /\ requested' \in {requested, requested \ {c}}
  /\ UNCHANGED <<page, named, always, callOf, question, result, times>>

(* fulfillBrowserRead: only a request that still waits is settled.         *)
(* Mutation: a late answer is taken as well.                               *)
WaitsOrWaited(c) == callOf[c] \in {"waiting", "done"}
Waits(c) == callOf[c] = "waiting"

Fulfil(a) ==
  /\ a \in posted /\ posted' = posted \ {a}
  /\ IF Waits(a.of) THEN CallEnds(a.of, a.page) ELSE UNCHANGED <<callOf, result, times>>
  /\ UNCHANGED <<page, named, always, question, requested>>

(* Core stops: its waiters and the agents go with it.                      *)
ToolNext ==
  \/ Browse \/ PageNoticed
  \/ \E c \in Calls : Call(c) \/ Approve(c) \/ Refuse(c) \/ TimesOut(c) \/ Respond(c)
  \/ \E a \in posted : Fulfil(a)

ToolSpec == ToolInit /\ [][ToolNext]_toolVars

-----------------------------------------------------------------------------
ToolTypeOK ==
  /\ page \in Pages \cup {Absent} /\ named \in Pages \cup {Absent} /\ always \in BOOLEAN
  /\ callOf \in [Calls -> {"new", "asking", "waiting", "done"}]
  /\ question \in [Calls -> Pages \cup {Absent}] /\ result \in [Calls -> Pages \cup {Absent}]
  /\ requested \subseteq Calls /\ times \in [Calls -> 0..2]
  /\ \A a \in posted : a.of \in Calls /\ a.page \in Pages \cup {Absent}

(* An agent gets one answer for a call, and never a page that is private:  *)
(* not from an answer that arrives after the six seconds, nor from the     *)
(* second answer to an event delivered twice.                              *)
OneHonestAnswer ==
  \A c \in Calls : /\ times[c] = IF callOf[c] = "done" THEN 1 ELSE 0
                   /\ result[c] \notin Hidden

(* "It crosses to the agent only after the person allows it, and only the  *)
(* one page": what a single permission let through is the page the         *)
(* question named.                                                         *)
NamedPageIsRead ==
  \A c \in Calls : question[c] # Absent => result[c] \in {question[c], Absent}
=============================================================================
