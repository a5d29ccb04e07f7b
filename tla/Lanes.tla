--------------------------------- MODULE Lanes ---------------------------------
(***************************************************************************)
(* The gateway's lanes (apps/gateway/server.js, its providers, the model   *)
(* lane of fren-core/sandbox-proxy.js, and the desktop's gatewayClient).   *)
(* Which models there are is settled at boot, from the keys found; which   *)
(* one answers is settled for each request, and a model of one provider    *)
(* means nothing to another.                                               *)
(***************************************************************************)
EXTENDS Naturals, FiniteSets

CONSTANTS
  Requests,      \* requests of the desktop, in flight together
  Beside,        \* bound: the lanes of one that comes while another is under way
  AgentCalls,    \* the agent's calls to its model
  Chosen,       \* models the person may choose in the settings
  Default,       \* the provider's own model
  Environments   \* bound: the sets of keys found at boot

ASSUME LanesAssumption == Default \notin Chosen

Providers == {"deepseek", "anthropic"}
Verdicts == {"suggest", "narrate"}     \* and curious, learn, routine, pattern: yes, in words, or no
Lanes == {"summarize", "extract", "chat", "greet", "vision", "speak", "session", "model"} \union Verdicts
Models == Chosen \union {Default}
Forced == Providers \union {"", "mock"}

VARIABLES
  provider, upstream, vision, speech,   \* what was picked at boot
  default,     \* the model the gateway's provider answers with
  choice,      \* settings.chatModel, as the client's overrides hold it
  sandbox,     \* the model the sandbox proxy was told, or Default for the upstream's own
  req, call    \* the requests and the agent's calls

boot == <<provider, upstream, vision, speech>>
laneVars == <<boot, default, choice, sandbox, req, call>>

NoRequest == [lane |-> "none", own |-> Default, stage |-> "idle", by |-> "none", with |-> Default,
         model |-> "none", reply |-> "none"]
NoCall == [stage |-> "idle", with |-> Default]
Saids == {"none", "nothing", "failed", "unread", "no", "empty", "words"}
ReplyKinds == {"none", "refused", "unable", "failed", "quiet", "raw", "empty", "words", "told"}

LanesTypeOK ==
  /\ provider \in Providers \union {"mock"} /\ upstream \in Providers \union {"none"}
  /\ vision \in {"none", "openai", "anthropic"} /\ speech \in BOOLEAN
  /\ {default, choice, sandbox} \subseteq Models
  /\ req \in [Requests -> [lane : Lanes \union {"none"}, own : Models, stage : {"idle", "reading", "asking", "done"},
                           by : Providers \union {"none", "mock", "openai", "elevenlabs"}, with : Models,
                           model : Saids, reply : ReplyKinds]]
  /\ call \in [AgentCalls -> [stage : {"idle", "reading", "asking", "done"}, with : Models]]

(***************************************************************************)
(* Boot                                                                    *)
(***************************************************************************)
\* FREN_LLM_PROVIDER forces; else whichever key is there, DeepSeek first.  DeepSeek
\* without its key does not construct; Anthropic does, and fails with each request.
PickProvider(keys, forced) ==
  CASE forced = "mock" -> "mock"
    [] forced = "anthropic" -> "anthropic"
    [] forced = "deepseek" /\ "deepseek" \notin keys -> "mock"
    [] forced # "anthropic" /\ "deepseek" \in keys -> "deepseek"
    [] forced = "" /\ keys \intersect Providers = {} -> "mock"
    [] OTHER -> "anthropic"

PickVision(keys) ==
  IF "vision" \in keys THEN "openai" ELSE IF "anthropic" \in keys THEN "anthropic" ELSE "none"

\* The environment's own upstream: Anthropic first, here.
ChooseUpstream(keys, forced) ==
  LET pick == IF forced # "" THEN forced
              ELSE IF "anthropic" \in keys THEN "anthropic" ELSE "deepseek"
  IN IF pick \in keys \intersect Providers THEN pick ELSE "none"

LanesInit ==
  /\ \E keys \in Environments, forced \in Forced, forcedUp \in Providers \union {""} :
       /\ provider = PickProvider(keys, forced) /\ upstream = ChooseUpstream(keys, forcedUp)
       /\ vision = PickVision(keys) /\ speech = ("voice" \in keys)
  /\ default = Default /\ choice = Default /\ sandbox = Default
  /\ req = [q \in Requests |-> NoRequest] /\ call = [a \in AgentCalls |-> NoCall]

(***************************************************************************)
(* A request of the desktop                                                *)
(***************************************************************************)
Open(q) == req[q].stage \in {"reading", "asking"}
StillOpen == [q \in Requests |-> IF Open(q) THEN req[q] ELSE NoRequest]   \* what is over is forgotten

\* What a request is answered (whoever asked may have given up by then: the gateway
\* goes on regardless, and the answer goes nowhere).
Sent(q, reply) == [req[q] EXCEPT !.stage = "done", !.reply = reply]

\* The client merges the person's model into what it sends.  What tells the gateway
\* which model was chosen goes as it is.
Comes(q, lane) ==
  /\ ~Open(q)
  /\ lane \in IF \E p \in Requests : Open(p) THEN Beside ELSE Lanes \ {"model"}
  /\ req' = [StillOpen EXCEPT ![q] = [NoRequest EXCEPT !.lane = lane, !.own = choice, !.stage = "reading"]]
  /\ UNCHANGED <<boot, default, choice, sandbox, call>>

\* The person chooses, or goes back to the default.
ChoosesModel(q, m) ==
  /\ ~Open(q) /\ m # choice /\ choice' = m
  /\ req' = [StillOpen EXCEPT ![q] = [NoRequest EXCEPT !.lane = "model", !.own = m, !.stage = "reading"]]
  /\ UNCHANGED <<boot, default, sandbox, call>>

\* A wrong token, a body too large, cut off or malformed, or without what the lane needs.
Refuses(q) ==
  /\ req[q].stage = "reading" /\ req' = [req EXCEPT ![q] = Sent(q, "refused")]
  /\ UNCHANGED <<boot, default, choice, sandbox, call>>

\* Nobody here can see, or speak.
Lacks(lane) == (lane = "vision" /\ vision = "none") \/ (lane \in {"speak", "session"} /\ ~speech)
Unable(q) ==
  /\ req[q].stage = "reading" /\ Lacks(req[q].lane) /\ req' = [req EXCEPT ![q] = Sent(q, "unable")]
  /\ UNCHANGED <<boot, default, choice, sandbox, call>>

\* With no model, no hello is better than a canned one.
MockGreets(q) ==
  /\ req[q].stage = "reading" /\ req[q].lane = "greet" /\ provider = "mock"
  /\ req' = [req EXCEPT ![q] = Sent(q, "quiet")]
  /\ UNCHANGED <<boot, default, choice, sandbox, call>>

AskedOf(lane) == CASE lane = "vision" -> vision [] lane \in {"speak", "session"} -> "elevenlabs" [] OTHER -> provider

\* Broken form of Overrides: the shared provider keeps it.
OverridesShared(q) ==
  /\ default' = IF req[q].own # Default THEN req[q].own ELSE default
  /\ req' = [req EXCEPT ![q].stage = "asking", ![q].by = AskedOf(req[q].lane), ![q].with = default']

\* The override is for this request: the shared provider keeps its own model.
Overrides(q) ==
  LET x == req[q]
      text == x.lane \notin {"vision", "speak", "session"}
  IN /\ req' = [req EXCEPT ![q].stage = "asking", ![q].by = AskedOf(x.lane),
                           ![q].with = IF text /\ x.own # Default THEN x.own ELSE default]
     /\ UNCHANGED default

AsksModel(q) ==
  /\ req[q].stage = "reading" /\ req[q].lane # "model" /\ ~Lacks(req[q].lane)
  /\ ~(req[q].lane = "greet" /\ provider = "mock") /\ Overrides(q)
  /\ UNCHANGED <<boot, choice, sandbox, call>>

\* What is sent for what the model said.  Silence is the default of a verdict; an
\* answer is kept as it came; only a summary that cannot be read is an error.
ReplyFor(lane, said) ==
  CASE said = "failed" -> "failed"
    [] lane = "summarize" -> (IF said = "unread" THEN "failed" ELSE "words")
    [] lane = "extract" -> (IF said \in {"unread", "empty"} THEN "raw" ELSE "words")
    [] lane \in Verdicts -> (IF said = "words" THEN "words" ELSE "quiet")
    [] OTHER -> (IF said = "empty" THEN "empty" ELSE "words")

\* What it can say: nothing of ElevenLabs is empty, nor of DeepSeek; free text is read
\* as it is; the mock answers every verdict with something else, which is a no.
CanSay(q) ==
  LET lane == req[q].lane
  IN {"failed", "words"}
     \union (IF lane \in {"summarize", "extract"} \union Verdicts THEN {"unread"} ELSE {})
     \union (IF lane \in Verdicts THEN {"no", "empty"} ELSE {})
     \union (IF lane = "extract" \/ (lane \in {"chat", "greet", "vision"} /\ req[q].by # "deepseek") THEN {"empty"} ELSE {})

ModelSays(q, said) ==
  /\ req[q].stage = "asking" /\ said \in CanSay(q)
  /\ req[q].by = "mock" => said = (IF req[q].lane \in Verdicts THEN "no" ELSE "words")
  /\ req' = [req EXCEPT ![q] = [Sent(q, ReplyFor(req[q].lane, said)) EXCEPT !.model = said]]
  /\ UNCHANGED <<boot, default, choice, sandbox, call>>

(***************************************************************************)
(* The agent's model                                                       *)
(***************************************************************************)
\* Broken form of SandboxModelFor: it always crosses.
SandboxModelAlways(m) == m

\* The choice crosses only when the two lanes talk to the same provider.
SandboxModelFor(m) == IF m # Default /\ upstream = provider THEN m ELSE Default

\* POST /v1/runtime/model.
SetsModel(q) ==
  /\ req[q].stage = "reading" /\ req[q].lane = "model"
  /\ sandbox' = SandboxModelFor(req[q].own) /\ req' = [req EXCEPT ![q] = Sent(q, "told")]
  /\ UNCHANGED <<boot, default, choice, call>>

\* The model is read when the call comes, and its body is rewritten when it is whole.
CallComes(a) ==
  /\ call[a].stage = "idle" /\ upstream # "none"
  /\ call' = [call EXCEPT ![a] = [stage |-> "reading", with |-> sandbox]]
  /\ UNCHANGED <<boot, default, choice, sandbox, req>>

\* No credential: 503, and nothing is forwarded.
CallRefused(a) ==
  /\ call[a].stage = "idle" /\ upstream = "none" /\ call' = [call EXCEPT ![a].stage = "done"]
  /\ UNCHANGED <<boot, default, choice, sandbox, req>>

Forwards(a) ==
  /\ call[a].stage = "reading" /\ call' = [call EXCEPT ![a].stage = "asking"]
  /\ UNCHANGED <<boot, default, choice, sandbox, req>>

\* The answer, the upstream's error, or the agent hanging up; it calls again.
CallEnds(a) ==
  /\ call[a].stage \in {"asking", "reading"} /\ call' = [call EXCEPT ![a] = NoCall]
  /\ UNCHANGED <<boot, default, choice, sandbox, req>>

LanesNext ==
  \/ \E q \in Requests :
       \/ Refuses(q) \/ Unable(q) \/ MockGreets(q) \/ AsksModel(q) \/ SetsModel(q)
       \/ \E lane \in Lanes : Comes(q, lane)
       \/ \E m \in Models : ChoosesModel(q, m)
       \/ \E said \in Saids : ModelSays(q, said)
  \/ \E a \in AgentCalls : CallComes(a) \/ CallRefused(a) \/ Forwards(a) \/ CallEnds(a)

LanesSpec == LanesInit /\ [][LanesNext]_laneVars

(***************************************************************************)
(* Properties                                                              *)
(***************************************************************************)

\* A request is answered by the model its sender chose, or by the default: another
\* request's choice, in flight at the same time or before it, is not its own.
OwnModel == \A q \in Requests : req[q].stage = "asking" => req[q].with \in {req[q].own, Default}
                                                          /\ (req[q].own = Default => req[q].with = Default)

\* The agent is never asked to think with a model of another provider: with both keys
\* there, the fast lane and the environment prefer different ones.
AgentModelFits == \A a \in AgentCalls : call[a].with # Default => upstream = provider

\* Silence is the safe direction: fren speaks, asks, learns or promises on a verdict
\* only when the model could be read and said so, in words.
SilenceUnlessSaid == \A q \in Requests : req[q].lane \in Verdicts /\ req[q].reply = "words" => req[q].model = "words"

\* "They did reply, and losing it is worse than keeping it untidy": whatever the model
\* makes of an answer, something of it comes back.
AnswersAreKept == \A q \in Requests : req[q].lane = "extract" => req[q].reply \notin {"quiet", "empty"}

\* Only what can see is asked to look; nothing canned is said for a hello.
AskedAreAble == \A q \in Requests : /\ req[q].lane = "vision" => req[q].by \in {"none", "openai", "anthropic"}
                                    /\ req[q].lane = "greet" => req[q].by # "mock"
=================================================================================
