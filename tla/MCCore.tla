------------------------------- MODULE MCCore -------------------------------
(***************************************************************************)
(* The Core service and what stands around it: the life of the runtime and *)
(* its host and what a start of it makes, the egress proxy, the mock       *)
(* runtime, the gateway, the agent's tools and the policy on its actions,  *)
(* the watch over the host's schedules, the automations' records, the      *)
(* clock of a schedule and the store. They keep no variable in common, so  *)
(* each behaviour is of one part, the others at their start.               *)
(***************************************************************************)
EXTENDS RuntimeLife, Egress, Mock, Launch, AgentTools, FireWatch, Firing, Provision,
        Policy, Cron, Store

CONSTANTS
  MaxJobs,    \* bound: starts, stops and restarts of the runtime under way at one time
  MaxCards    \* bound: cards about connections open at one time

VARIABLE part

CoreParts == {"life", "egress", "mock", "launch", "tools", "fires", "firing", "provision",
              "policy", "cron", "store"}
coreAll == <<part, lifeVars, egressVars, mockVars, launchVars, toolVars, fwVars, firingVars, provVars, polVars, cronVars, storeVars>>

CoreInit ==
  /\ part \in CoreParts
  /\ LifeInit /\ EgressInit /\ MockInit /\ LaunchInit /\ ToolInit /\ FwInit /\ FiringInit /\ ProvInit
  /\ PolInit /\ CronInit /\ StoreInit
  /\ part # "egress" => declared = {}
  /\ part # "tools" => page = Absent /\ always
  /\ part # "provision" => ~mac /\ want = "process" /\ docker = "absent" /\ \A x \in Pieces : pieces[x] = "none"
  /\ part # "firing" => trigger = "event" /\ foremost

OfLife ==
  /\ part = "life" /\ LifeNext /\ Cardinality(jobs') <= MaxJobs
  /\ UNCHANGED <<part, egressVars, mockVars, launchVars, toolVars, fwVars, firingVars, provVars, polVars, cronVars, storeVars>>
OfEgress ==
  /\ part = "egress" /\ EgressNext /\ Cardinality(cards') <= MaxCards
  /\ UNCHANGED <<part, lifeVars, mockVars, launchVars, toolVars, fwVars, firingVars, provVars, polVars, cronVars, storeVars>>
OfMock ==
  /\ part = "mock" /\ MockNext
  /\ UNCHANGED <<part, lifeVars, egressVars, launchVars, toolVars, fwVars, firingVars, provVars, polVars, cronVars, storeVars>>
OfLaunch ==
  /\ part = "launch" /\ LaunchNext
  /\ UNCHANGED <<part, lifeVars, egressVars, mockVars, toolVars, fwVars, firingVars, provVars, polVars, cronVars, storeVars>>
OfTools ==
  /\ part = "tools" /\ ToolNext
  /\ UNCHANGED <<part, lifeVars, egressVars, mockVars, launchVars, fwVars, firingVars, provVars, polVars, cronVars, storeVars>>
OfFires ==
  /\ part = "fires" /\ FwNext
  /\ UNCHANGED <<part, lifeVars, egressVars, mockVars, launchVars, toolVars, firingVars, provVars, polVars, cronVars, storeVars>>
OfFiring ==
  /\ part = "firing" /\ FiringNext
  /\ UNCHANGED <<part, lifeVars, egressVars, mockVars, launchVars, toolVars, fwVars, provVars, polVars, cronVars, storeVars>>
OfProvision ==
  /\ part = "provision" /\ ProvNext
  /\ UNCHANGED <<part, lifeVars, egressVars, mockVars, launchVars, toolVars, fwVars, firingVars,
                 polVars, cronVars, storeVars>>
coreRest == <<lifeVars, egressVars, mockVars, launchVars, toolVars, fwVars, firingVars, provVars>>
OfPolicy == part = "policy" /\ PolNext /\ UNCHANGED <<part, coreRest, cronVars, storeVars>>
OfCron == part = "cron" /\ CronNext /\ UNCHANGED <<part, coreRest, polVars, storeVars>>
OfStore == part = "store" /\ StoreNext /\ UNCHANGED <<part, coreRest, polVars, cronVars>>

CoreNext == OfLife \/ OfEgress \/ OfMock \/ OfLaunch \/ OfTools \/ OfFires \/ OfFiring
            \/ OfProvision \/ OfPolicy \/ OfCron \/ OfStore

(* The fairness of Launch and of Provision (LaunchFair, ProvFairness), in   *)
(* the runs that are of them.                                              *)
InLaunch(A) == part = "launch" /\ A
CoreFairness ==
  /\ WF_launchVars(InLaunch(Beat)) /\ WF_launchVars(InLaunch(Ensure)) /\ WF_launchVars(InLaunch(Poll))
  /\ \A m \in Models : WF_launchVars(InLaunch(Hear(m)))
  /\ \A g \in Slots : /\ WF_launchVars(InLaunch(Listen(g))) /\ WF_launchVars(InLaunch(Watch(g)))
                      /\ WF_launchVars(InLaunch(Exit(g)))
  /\ WF_provVars(part = "provision" /\ ProvStep)

CoreSpec == CoreInit /\ [][CoreNext]_coreAll /\ CoreFairness

-----------------------------------------------------------------------------
(* Every variable of every part holds a value of its kind.                 *)
CoreTypeOK ==
  LifeTypeOK /\ EgressTypeOK /\ MockTypeOK /\ LaunchTypeOK /\ ToolTypeOK /\ FwTypeOK
  /\ FiringTypeOK /\ ProvTypeOK /\ PolTypeOK /\ CronTypeOK /\ StoreTypeOK

(* The runtime is what it says it is: no two hosts work for one life of    *)
(* it, who asks is handed a start that goes on (fren-core/index.js         *)
(* startRuntime, supervisor.js start), a start that says ready has made    *)
(* all it says, and a stop leaves no agent (runtime-nanoclaw               *)
(* ensureHostReady, runtime-setup.js, teardown).                           *)
RuntimeHolds == OneHostEach /\ MemoIsLive /\ ReadyIsWired /\ StopLeavesNoAgent

(* An agent's call has one answer, of the page it may see                  *)
(* (fren-core/index.js handleToolCall); in the mock runtime a run that     *)
(* asks is running, and a schedule that keeps failing is given up in time  *)
(* (runtime-mock).                                                         *)
AnswersHold == OneHonestAnswer /\ AskedIsRunning /\ GivesUpOnTime

(* A record of an automation's run says what became of its run, an open    *)
(* one is of a run that goes on, and of an automation that is the first in *)
(* the list one run at a time is asked for by a sighting (automations.js). *)
RecordsHold == RecordsAreTrue /\ OpenRecordsLive /\ OneSighting

(* The store is whole whatever cut a call of it short (store.js).          *)
StoreHolds == SchemaIsWhole /\ NothingIsLeftOver /\ RecordsHaveATask

(* No run of a series is recorded twice, unless its end was forgotten      *)
(* before the host's counters told of it, and none is lost                 *)
(* (schedule-watch.js observe, remember).                                  *)
FiresAreCounted == NeverTwice /\ NoneMissed

(* A time of a schedule is found once and in its turn, and no day has more *)
(* of them than the limit counts with (cron.js nextCron, firesPerDay).     *)
TimesAreFound == NextIsNext /\ FoundIsATime /\ LimitIsTrue

(* The six together: what each part around Core keeps, while Core, the     *)
(* desktop, the host and the gateway start, stop and die between any two   *)
(* steps of it.                                                            *)
PartsHold == /\ RuntimeHolds
             /\ AnswersHold
             /\ RecordsHold
             /\ StoreHolds
             /\ FiresAreCounted
             /\ TimesAreFound

(* What is let out was allowed: a trusted domain stays so, a held          *)
(* connection has a card somebody can still answer (sandbox-proxy.js,      *)
(* fren-core/index.js askEgress), and an agent's action goes through       *)
(* unasked only by a rule somebody made (permissions/index.js decide).     *)
GrantsHold == TrustHolds /\ HeldHasACard /\ LetThroughIsGranted /\ SelfChangesAreAsked

(* A machine left alone thinks again: whatever died or hung, the gateway   *)
(* is brought back and hears of the model chosen, no gateway outlives the  *)
(* app that started it (gateway-process.js, main checkHealth, server.js),  *)
(* and a runtime that is being started is ready or stopped in the end, or  *)
(* says what it lacks (runtime-nanoclaw ensureHostReady).                  *)
GatewayRecovers == ThinksAgain /\ NoneLeftBehind /\ ComesUp
=============================================================================
