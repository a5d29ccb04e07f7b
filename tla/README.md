# fren, specified

TLA+ specifications of fren: a companion on the desktop that observes, remembers,
talks, and runs agents for its user. They are about what the code cannot show by
being read: two actors that share a piece of state, an `await` with the world
going on behind it, a crash between two statements, a late answer.

Contents: [the system](#the-system), [the modules](#the-modules),
[the parts](#the-parts), [runs](#runs), [bounds](#bounds),
[fairness](#fairness), [proofs](#proofs),
[where code and text disagree](#where-code-and-text-disagree),
[seen while modelling](#seen-while-modelling),
[what is abstracted](#what-is-abstracted), [not modelled](#not-modelled),
[plan](#plan).

## The system

Processes:

* **desktop** (`apps/desktop/main`): Electron main. Windows, observation, memory,
  routines, the wake word, the client of Core's event stream;
* **chat window** (`apps/desktop/renderer`): the orb and its panel, the
  conversation, the microphone, the face. It talks to main over Electron's IPC;
* **browser extension** (`apps/browser-extension`): a worker that posts to main;
* **gateway** (`apps/gateway/server.js`): a Node process main launches. It answers
  for the models (chat, vision, speech) and holds
* **FREN Core** (`packages/fren-core`): `core.db`, the HTTP API, the event log, runs,
  permissions, automations, the proxy agents go out through. The runtime
  **adapter** (`packages/runtime-nanoclaw`) lives in the same event loop;
* **runtime host** (`vendor/nanoclaw`): a child process that owns conversations,
  tasks and the agents' sandboxes. It talks to Core over one socket (the *bridge*:
  `deliver`, `typing`, `turn`, `action` frames) and answers `ncl` requests on
  another.

A handler runs to its end before the next one of its process, so it is one step
here; an `await` of another process, of a model or of a timer ends the step, and
anything may happen before the next.

| Component | State it keeps | Hard because | Correct when |
|---|---|---|---|
| Event log and stream | the `events` table; the client's last id; frames in flight | frames are lost with the connection; ids survive a crash, clients do not | told in order, nothing twice, nothing missed |
| Runs | `runs` rows, a timer each; the adapter's record and `openByThread` | five ways to end a run race; two runs share a thread; a crash loses the timers | one ending; every run ends; words never reach a run that is over |
| Permission broker, policy | cards, session grants, waiting callers | person, clock, grant, stop and crash answer the same card; a name fits several scopes | the act is what the card says; nothing by silence; unasked only by a rule somebody made |
| Automations, schedules, watch | automation rows, their records; the host's tasks and counters | a sync is a chain of requests nothing serialises; a fire is seen by its counter and by its turn | row and task agree; a fire is one record |
| Runtime life, setup | supervisor, timers, pid file; pieces on the disk | starts overlap each other, stops and exits; a setup is cut short | one host; what says ready is wired |
| Egress proxy, agent tools, lanes | reach, grants, held connections; calls in flight | two timeouts race; a card outlives its Core; the page changes under the question | a line opens only to what was allowed; a call has one answer |
| Gateway process | spawned processes, the model chosen | an app may find the gateway of its previous life | it comes back and knows the model chosen |
| Store | schema, ledger, rows | cut short between statements | what the ledger says is there; nothing left over |
| Observation, memory, routines, initiative | observations, memories, marks in a file, what is held to be said | a tick is in flight when the light goes; a crash between a result and its mark | once for each; at most as often as it may |
| Browser sensor and pairing | the page held, tokens, denials | events in any order, two policies of different moments, a sleeping worker | nothing held that may not be; nobody denied is put again |
| Conversation, recording, voice line, wake word | flags in the renderer, engines and recorders | every turn awaits, and nothing but flags serialises turns | locks open, what listens is wanted |
| Interview, curiosity, cards, intent | answers with a model, facts, cards | the person goes on while a model reads | nothing is learnt that was not asked, or offered that was not said |
| Face and window | what is worn, where the window is | four writers, each with timers; main and renderer hear of each other by messages | what looks asleep does not watch; the orb can be reached |

`PROJECT.json` lists every component with what is modelled of it, and every hazard
with its line and the properties aimed at it.

## The modules

| Module | Models |
|---|---|
| `EventDelivery` | the promise of the event stream, and nothing of how |
| `EventStream` | log, connection, client; implements `EventDelivery` (`TellsInOrder`) |
| `Runs`, `MCRuns` | a run from accepted to finished: Core's run service, the adapter, bridge and host, the desktop's count of runs it thinks about |
| `PermissionBroker`, `MCPermissions` | a card from raised to closed |
| `Automations` | an automation and the task that stands for it |
| `MCCore` and its parts | what stands around Core |
| `MCTalk` and its parts | talking with fren |
| `MCDesktop` and its parts | what the desktop does beside |
| `RunsProofs`, `BrokerProofs`, `EventStreamProofs`, `AutomationsProofs` | theorems for every value of the constants, each about its module |
| `CoreProofs`, `PartsProofs`; `DesktopProofs`; `TalkProofs` | the same about `MCCore`, `MCDesktop` and `MCTalk` and their parts |

`MCCore`, `MCTalk` and `MCDesktop` are sums. Their parts keep no variable in common
and no step of one reads another, so a behaviour of the product is a behaviour of
each of them and nothing is won by interleaving: the variable `part` says whose
behaviour this is, the other parts stay at their start, and a property of a part
is one of the sum. Where parts do talk to each other, what comes over the boundary
is an action of the part (an event that arrives, an answer, a model that fails), with every outcome the other side can produce.

Properties stand after the specification they speak of. A definition preceded by
*Mutation:* or *Broken form* is a variant of the next one with a plausible
mistake; every property of a passing run is violated by at least one of them
(`PROJECT.json`, `mutants`).

## The parts

**EventStream.** An event is its id; the log is the ids `floor+1 .. top`.
`Emit` appends and pushes to the attached response; `Ask` and `Attach` are the two
halves of a (re)connection, with `EventsSince` the replay of at most `ReplayLimit`
rows (500 in `store.js`); `Read` hands a frame on and moves `lastId`; `Drop` loses
the frames in flight; `Reopen` is the desktop starting again; `Boot` prunes.

**Runs.** `row`, `timer` are Core's; `rtRun`, `openBy`, `rt`, `stopping` and their
like the adapter's; `hostHas`, `hostWatch` the host's; `thinking` the desktop's.
`Accept`/`Refuse` are `start` and `startAgent` through the adapter; `Started` is the
`setImmediate` that announces the run; `Deliver`, `Typing`, `Turn` the frames;
`Cancel`, `TimeoutFires`, `HostExit`, `StopBegins` end runs, each through
`CoreFinish` and `AdapterFinish` as in the code, so that the second to come finds
nothing. `Crash` keeps the table and the host's mailbox only; `Boot` is `recover()`.

**PermissionBroker.** `row`, `due`, `grants`, `waiting`, `heard` are Core's; `pending`
the adapter's; `host` what the host knows of each ask. An ask is answered by a
grant in the step that raises it, by the person, by `Sweep` or `Boot` after it
lapsed, or by `StopBegins` (`runtimeGone`).

**Automations.** A *job* is one chain of requests about an automation. Its program
counter is the request it waits for, and it carries the automation *as it was
read*, which is what the code acts on when the answer comes. `Sync` is `sync()`
after the list; `refs` the adapter's note of each task; `GivesUp` the host pausing a
failing task, `WatchReads`/`PauseReported` the watch; `Fails` an answer that never
comes. `steady` and `doubt` are history: who touched what since it was read.

Around Core (`MCCore`):

| Part | State and steps | In the code |
|---|---|---|
| `RuntimeLife` | a *job* is one start, stop or restart under way and where it awaits, a start until Core has reconciled the automations after it; processes, their exits still to be heard of, the pid file, the bridge's socket and peer | `fren-core/index.js` startRuntime, reprobe; the adapter's ensureHostReady, teardown, onExit; `supervisor.js`; `bridge.js` |
| `Provision` | the pieces on the disk as earlier lives left them, where a start is, entities, agents' processes and their registry | `process-runtime.js`, `runtime-setup.js`, `container-runtime.js`, `bootstrap.js` |
| `Egress` | reach, trusted and granted hosts, cards with the life of Core they are of, connections held or open | `sandbox-proxy.js`; `fren-core/index.js` askEgress, pushPolicy |
| `AgentTools` | calls that read the page, the page in front and the page the question named, events and answers in flight | `sandbox-proxy.js` handleTools; handleToolCall; main's browser.read |
| `Policy` | the scope of an action's name, the grants of automation and conversation, open asks | `permissions/index.js`, the broker's `policy()` |
| `Store` | migrations as transactions, the calls that are several statements, and the automations a caller has read before they were deleted | `store.js` |
| `Firing` | an automation's fires by clock, hand, sighting or stray words; how many observations wait, by a list read before, for the run of an automation ahead of it (`looking`) or for its own (`taking`); the run in three tables; the closings Core does later | `automations.js` second half, `observations.publish` in `index.js`; onFinding, landOnAutomation |
| `FireWatch` | one series in the host with its row and counters; the list FREN asked for; the readings, with the ends they remember for ten minutes (`Forgets`) | `schedule-watch.js` |
| `Cron` | parsed fields, and nextCron's walk over local time that is put back and forward | `shared/cron.js` |
| `Mock` | the mock's turns, questions, schedules | `runtime-mock/index.js` |
| `Launch` | lives of the app, gateway processes, health beats, a model choice on its way | `gateway-process.js`, `main/index.js` checkHealth, `server.js` |

Talking (`MCTalk`):

| Part | State and steps | In the code |
|---|---|---|
| `Recording` | clicks, streams, recorders, the calls of getUserMedia under way, what is being drained | `app.js` startTalking..., `mic.js` |
| `Conversation` | how far each message has come; the lock, the voice, the queue, what fren wants to say | `app.js` sendMessage, speak, drain |
| `VoiceLine` | what main lets the wake word do; the listener's arms, engines, recorders, frames; the line's sessions | `main/index.js`, `wake-word.js`, `wake-engine-kws.js`, `voice-session.js` |
| `Cards` | requests at the gateway, the feed of events, the recovery list, cards on screen | `app.js` showPermissionCard, recoverPermissionCards |
| `Wondering` | the question in flight, what was asked, the facts and their limit | `curiosity.js`, `soul.js`, `app.js` learnFrom |
| `Presence` | thoughts that settle, the mark of an absence, greetings in flight | `narrator.js`, `arrival.js` |
| `Interview` | the step, answers with a model, the profile | `app.js` setup |
| `Intent` | a sentence by what the patterns find in it, the heuristic's reading, the offer, what is kept | `intelligence/index.js` heuristicIntent, heuristicEvent, heuristicOnce; `automations.js` intent, validate; `app.js` tryAutomation |
| `Lanes` | keys found at boot, the model of each lane, requests and their fallbacks | `server.js`, `providers/`, the proxy's model lane, `gatewayClient.js` |
| `Face` | what main last said, what is worn and what is owned, whose the face is (`driving`), the answer that is due, the words being said, the line, the timers; an answer ends with a face, with a failure's, or with none | `app.js` setFace, render; `face/reactions.js` |

On the desktop (`MCDesktop`):

| Part | State and steps | In the code |
|---|---|---|
| `Sensor` | tabs, the extension's policy and the sensor's, posts in any order, what is held | `background.js`, `content.js`, `browser-sensor.js` |
| `Pairing` | tokens, the question to the person, requests and answers in flight, resets | `background.js`, `browser-transport.js` |
| `Stage` | the window's bounds and corner in main, the channel, what the renderer believes and draws, displays | `place.js`, `main/index.js`, `app.js` |
| `Observing` | the tick in flight, the rows, the batch with a model (a row's id is not given to another while a batch holds it) | `observer.js`, `summarizer.js`, `memory` |
| `Routines` | the list of one tick, the routine being answered, the marks | `routines.js` |
| `Initiative` | the watchers' calls, the pace, what is held until heard or stale | `proactive.js`, `patterns.js`, `app.js` onSuggestion |
| `Business` | sentences about fren itself, chips, what they arm and do | `own-business.js` (both), `app.js` chipRow, pressChip, obeySpoken |

## Runs

Passing:

| Run | Instance | Shows |
|---|---|---|
| `RunsChats` | two questions of one conversation, a delivery, a fault, a crash | `OneEnding`, `NoOrphans`, `ThreadIsLive`, `OpenIsTimed`, `FaceRests`; `FinalIsFinal`; `EveryRunEnds`, `FaceLetsGo` |
| `Permissions` | two asks about one thing, one no rule knows, a hold; a fault, a crash | `ActsMatchCards`, `WaitersHaveCards`, `CallersHear`; `YesIsGiven`; `EveryCardCloses` |
| `AutomationsSync` | two jobs of the person and the reconciliation over one automation; a pause by the host, a failed request, and one of link loss, stop or crash | `SyncAgrees`, `OnIsAllowed` |
| `EventStreamHistory` | five events, three drops | `NothingTwice`, `NothingMissed`; `CatchesUp`; the refinement `TellsInOrder` |
| `Core` | the eleven parts around Core | `PartsHold` (`RuntimeHolds`, `AnswersHold`, `RecordsHold`, `StoreHolds`, `FiresAreCounted`, `TimesAreFound`), `GrantsHold`; `OpensAllowed`; `GatewayRecovers` |
| `Talk` | the ten parts of talking | `MicrophoneIsWanted`, `TurnsAreKept`, `WordsAreTrue`; `TalkRecovers` |
| `Desktop` | the seven parts of the desktop | `RulesHold`, `DoneOnce`, `OrbIsReachable`; `StepsAreHonest`; `LetsGo` |

Every run has its specification's type invariant. The properties of the sums are
conjunctions of named properties of the parts, each stated with its module; what they
say together is in the comments of `MCCore`, `MCTalk` and `MCDesktop`. The ones that
took most to get right:

* `OneHostEach`, `MemoIsLive` (`RuntimeLife`): however starts, stops, probes, exits
  and back-offs overlap, a supervisor never has two hosts, and the start a caller is
  handed is one that goes on;
* `RecordsAreTrue`, `OpenRecordsLive` (`Firing`): the record of an automation's run
  says what became of it, whichever of six signals was first. `OneSighting`: the
  time of a sighting is noted before its run is waited for, so an automation that
  comes first in the list is started once; of one that does not this is false
  (`SightedTwice`);
* `NeverTwice`, `NoneMissed` (`FireWatch`): an end is seen by the turn frame, by
  the counters or by both, and counted once, unless the host swept more than ten
  minutes after it, when FREN has forgotten it;
* `RecordsHaveATask` (`Store`): a deletion leaves no record behind, and one that a
  caller writes after it is told apart (`late`);
* `DarkLooksDark`, `LightLooksLit` (`Face`): whatever reply, timer, line or gesture
  writes the face, or ends without writing it, fren looks asleep in the dark, and
  in the light only if the light came on during a reply and main has said nothing
  outside of one since (`wokeTalking`);
* `HoldsWhatItMay` (`Sensor`): of the page held, and of text and selections taken
  away by the settings. It does not speak of a selection made on an excluded site
  while another page is held (`ExcludedIsNotTaken`, which does not hold);
* `OpensAllowed`, `HeldHasACard` (`Egress`): a yes that comes after the hold gave up
  opens nothing, and one that comes in time opens to its own session only;
* `NextIsNext` (`Cron`): the walk over a day put back or forward skips no time
  that matches;
* `ListeningIsWanted`, `WakeComesBack` (`VoiceLine`): an arming in flight when the
  light goes never completes, and the wake word is heard again after a line;
* `AnswersFit` (`Interview`), `OfferIsMeant` (`Intent`), `AnswersAreKept` (`Lanes`):
  what a model says late is not taken for what was said since;
* `DestroyedOnPurpose` (`Business`): two presses a moment apart, or nothing;
* `SummedOnce` (`Observing`), `OncePerDue` (`Routines`): up to a crash between a
  result and its mark, which they say.

Runs that end in a counterexample are listed under
[where code and text disagree](#where-code-and-text-disagree).

`CHECK_DEADLOCK` is off throughout: when everybody is content and the bounds are
used up, nothing has to happen.

## Bounds

Every bound is a constant that only guards an action of the environment or of the
person, and is named with the comment *bound:* where it is declared.

* `Runs`: `MaxWords`, `MaxFaults` (link drops, host exits, stops), `MaxCrashes`.
  Two chat runs are needed for a thread to change hands, one fault for every
  ending the runtime can cause, one crash for `recover`. A second fault adds
  orders of the same steps; the proofs cover all of them, and agents' runs, which
  take the same steps on a thread of their own, in any mix with chat runs.
  `EveryRunEnds` and `FaceLetsGo` are checked for chat runs alone.
* `PermissionBroker`: `MaxFaults`, `MaxCrashes`. Two asks of one key let a grant
  answer; the third has no key; one hold has a caller.
* `EventStream`: `MaxEvents`, `MaxDrops`: a gap, a gap inside a replay, and a crash
  with retention. `ReplayLimit = 5` is "never further behind than one replay".
* `Automations`: `Persons = 2` jobs, `MaxChanges = 2` (a create and whatever comes
  next, at the same time), `MaxPauses`, `MaxFailures`, `MaxStops` 1 each.
* `Core`: two starts of the runtime at a time with three processes and one death
  (the third is the one that supersedes); one connection of two sessions, so that
  one session's yes could serve the other; two lives of the app with three
  gateways, so that one finds the other's; three faults in a setup, which is as
  many as it has pieces to break; five days of three hours with the clock put
  back on one and forward on another; three opens of the store, across which
  the release may change, and one cut, with one run and one record; three fires,
  sightings, switches and stops of an automation, which is two observations of two
  automations and a stop. `CoreProofs` and `PartsProofs` have no such bounds.
* `Talk`: two messages beside a piece of news (one in a turn, one queued, one to be
  volunteered); three microphones and four presses; two lines and four arms of the
  wake word, so that an old one answers under a new one; three questions of the
  interview (the ordinary one, the one about initiative, the one about the light)
  and three answers; hours on both sides of noon and midnight; two things said at
  the same time, so that one settles while the other talks.
* `Desktop`: two tabs, a private site and one that is not, one post under way (a
  second one makes them come in another order: `RulesAreKept` is of any number);
  two widths of display; three
  observations with a batch of two; two routines in one list; two extensions.

Single parts are checked alone with more when they are worked on; what made a
difference is what the bounds above keep.

## Fairness

Only what the code itself drives is fair, and only liveness properties need it.

* `Runs`, `PermissionBroker`: timers that are armed fire (`armTimeout`, the broker's
  sweep), and Core is started again. Runtime, host, link and person owe nothing:
  `EveryRunEnds` holds because of the timeout and `recover` alone,
  `EveryCardCloses` because of the sweep alone.
* `EventStream`: the client never gives up (`coreEvents.js` loops with a back-off),
  and frames written are read while the connection lasts.
* `CoreFairness`: the app's health beat, the wait of a revive, a request on
  its way, a gateway's listen, watch and exit (`Launch`); that a start of the
  runtime goes on to its end and Core probes again (`Provision`). Nobody has
  to open the app, install anything or stop crashing beyond the bound.
* `TalkFairness`: main and the gateway answer every call, one way or the other;
  audio ends or its guard fires; a run's ten minutes pass; a line is ended by its
  cap of twenty minutes, and what the renderer tells main arrives.
* `DesktopFairness`: the summarizer's interval fires, light or no light; the
  extension's alarm beats and its requests and their refusals arrive. The person
  need not answer a pairing question, or the extension ask.

In a sum the fairness of a part is that of its steps in the behaviours of that
part (`part = "launch" /\ ...`): elsewhere these actions are not enabled.

## Proofs

Checked by TLAPS for every value of the constants. Every invariant and every action
property of every passing run is a theorem; `PROJECT.json` lists which. They rest on
the `ASSUME`s of the modules and on nothing else: identifiers of different kinds
are disjoint, bounds are naturals, a replay reads at least one row, a display is
wider than the orb at its largest with a margin (`StageBounds`), rows are numbers
(`ObservingAssumption`), and who speaks in a conversation is a reply, a card or a
piece of news and never two of them (`ConversationActors`). TLC evaluates every one
of them in the runs.

An invariant is seldom inductive as it stands. What has to be added, and why:

* `RunsProofs`. That a thread points at a live run needs that runs open in Core are
  open in the adapter, and conversely. `RunsInv == TypeOK /\ Bookkeeping /\
  StoppedIsThreadless`, where `Bookkeeping` joins `OneEnding`, `NoOrphans`,
  `OpenIsTimed`, `FaceRests` with `ThreadIsOpen` and `FaceIsOfARun`. `EndingKeeps`
  is the lemma all endings share: ending any set of runs keeps the books if
  neither side ends an open run the other keeps.
* `BrokerProofs`. `BrokerInv` adds that a lapsed card was raised (`DueIsRaised`) and
  that a hold with an open card has its caller waiting (`HoldsWait`), without which
  `CallersHear` would not survive an answer. `ExpireKeeps` serves the sweep, the
  late answer, the stop and the boot; `AnswerKeeps` the person.
* `EventStreamProofs`. `ReplayIsNews` says what a replay reads; `Remembers` ties the
  client's `lastId` to the end of what it has seen; with it `NothingTwice` and
  `WireIsNews` are inductive, and every step of the stream is a step of
  `EventDelivery` or invisible (`StreamKeepsPromise`). `Whereabouts` says where every
  event since the first attach is: seen up to the last id, in flight beyond it, or
  taken by retention. `NothingIsMissed` has one hypothesis beside the
  specification, `KeepsUp`: a client that reconnects knows an id and is at most one
  replay behind. The code does miss events otherwise ("Event stream" at the
  end of this text), and the run's constants grant it.
* `AutomationsProofs`. `Shape` says what a job's place in its chain of requests says
  of it (`Placed`), and that a row, a reading and a job name tasks of their own
  automation alone (`Owned`). What `SyncAgrees` needs beyond is `Readings`: whoever
  has read a row or the list, and was not overtaken since, has read what is still
  true; so each request that is answered leaves the automation a step closer or in
  doubt. For `OnIsAllowed`, `Owed`: what is on and not let through yet is what some
  job is about, and that job pushes the policy when it ends.
* `CoreProofs`. At the door, `SettleKeeps`: an answer settles the lines of its own
  card and no other, which with "every held line has a card of this life" is
  inductive. Of the policy, `ScopeIsFirst` says what the choice of a scope chooses,
  and `AllowIsGranted` that what is let through was granted under it. `StoreInv`
  adds what is true in the middle of a call: a migration under way is not in the
  ledger, messages without a run are there only before the prune's second statement,
  nothing but what was written late records a run of an automation that is being
  or has been deleted. `CronInv` says that a walk
  has passed no time that matches (`Passed`), over days of any hours and clocks put
  back and forward; the arithmetic of `\div` and `%` it stands on are lemmas. `FwInv`
  is an account: the ends the host has shown, those still to be told and the open
  run together are the rows that ended or go on (`Accounted`), a reading leaves
  that sum as it is, and so neither the counters nor the turn frame count an end
  again or lose one; an end that is forgotten leaves the account as a cancel does.
* `PartsProofs`. `LifeInv`: a host is alive only as the child of the job that owns
  it, whoever owns one or has a timer is led by a supervisor (`Led`), and a start
  that is still readying has touched neither (`Untouched`). `ProvInv`: what a step of
  a setup has reached, it has made (`Made`), and an agent that runs is in the
  ledger (`AgentsKnown`). `FiringInv`: a record that says "started" has its run open in
  the adapter or its end on the way (`TableGood`); and what is first in the list is
  never waited for by an observation that read it before (`looking` is 0). `MockInv`: a run is in one place
  (`InOnePlace`). `LaunchInv`: one gateway has the port.
* `DesktopProofs`. `ParkedWhole`: while the display is there, the place the orb was put
  down is on it, is the anchor's, and is where the orb is at that scale; the
  arithmetic of growing around a corner is `PanelSteps`. `NoDoubleClick`: a chip
  that asks "sure?" and was asked for within a double click is young.
  `InitiativeCounts`: what was told and what waits was raised, once. `RowAgrees`: a
  row that is summarised is in one memory at least, and in exactly one while fren
  has not died between the two writes. `WordsAreRead`: words are read before their
  answer is said, and those heard on the line reduce.
* `TalkProofs`. `ConvInv`: a message whose answer has not begun has no voice, what
  waits to be said is unsaid and waits once, the proposal and the queued message are
  where they say; on it a lock, a face and a cut hang. `VoiceInv`: at most one call
  of `arm()` is not cancelled, at most one engine loads, and nothing is on its way
  while a recorder runs (`EarInv`); and whenever an arm is made there is a number
  for it, since the closings main can still be told of, with the lines still to be
  opened, are no more than the numbers left (`RoomLeft`). `CardsInv`: what is owed
  and open is on a card, on the list being shown, or its decision failed. `WondInv`:
  one thought at a time, begun from all that was asked. `InterInv`: every answer
  held was said to its question, and every reading is of the question of its time.
  `LanesInv`: the shared provider keeps its own model. `IntentInv`: a reading is
  whole, and its hour is one the words can mean (`ReadAsMeant`); the hours are
  `RepeatIsMeant`, `OnceIsMeant` and `OnceIsSoon`.

In the sums, an invariant is the conjunction of those of the parts, and `DesktopStep`
and `TalkStep` (in `CoreProofs` and `PartsProofs` the steps `GrantsStep`, `PartsStay`
and `KindsStay`) say that a step of the whole is, for every part, a step of it or none.

Only model-checked: liveness under fairness (`EveryRunEnds`, `FaceLetsGo`,
`EveryCardCloses`, `CatchesUp`, `TalkRecovers`, `GatewayRecovers`, `LetsGo`), which the
prover does not reach.

## Where code and text disagree

Each is a run with one property that states what the text says, and a
counterexample in what the code does (`PROJECT.json`, `findings`).

| Run | The text | The code |
|---|---|---|
| `RunsMisplaced` | "a chat reply lands on its run if still open" (`docs/runtime-architecture.md:1007`) | a thread has one run; with two questions open the answer to the first lands on the second |
| `EgressLate` | "on yes, record the grant (... \"always\" persisted) and allow" (`fren-core/index.js:92`) | a card outlives its Core; an "always" given to it then is an answer on record and trusts nothing |
| `FireTwice` | "so one fire is never two records" (`schedule-watch.js:24`) | the host's counter is read before the call that ran the series by hand returns: a missed fire and a run |
| `FaceDark` | "it lights up" (`app.js:182`) | a broadcast with the light off, during a reply, makes the sleeping face the one that is owned; the light comes back on in that reply and fren looks asleep while it watches: until the reply settles through a mood, or, when it ends with no face (a run that failed, a bubble on the line), until main's next word |
| `SightedTwice` | "once per sighting, with a cooldown so a window that stays in front is one sighting and not one every tick" (`automations.js:374`) | an observation works off the list it read before it waited for another automation's run; the next one has started this automation by then, and it is started again |

## Seen while modelling

Statements of the text, or plain expectations, that the code does not keep and
that no run is spent on. Those with a name stand with their module; checked for
the part alone, with the constants of the runs, TLC finds the counterexample. Three
need one more of something: `NamedPageIsRead` a third page, `NeverDropped` a third
message, `NobodyElseIsKilled` a fourth fault.

| Statement | What happens |
|---|---|
| `Runs!ThinkingEnds` | `recover()` closes runs without an event: a face that was thinking at a crash keeps thinking |
| `Runs!StoppedIsIdle` | a run accepted during the adapter's teardown is open after it |
| `PermissionBroker!ExpiryIsTold` | after a Core restart the adapter has forgotten the ask, and the host is never told |
| `Automations!RecoversItsTask` | a task whose id was not saved before a crash is in the reconciliation's list, and a second one is made |
| `Egress!ReachIsDeclared` | a pause by the runtime pushes no policy (`automations.js:220`): its domains stay open until the next change |
| `Firing!OffStaysQuiet` | a one-off run by hand is switched off at its end, its task stays with the host and fires at its moment |
| `Firing!NoRecordIsLost` | nothing recovers `automation_runs`: a crash leaves records in `started` |
| `Store!NoRecordIsStray` | an automation removed while its run is being started gets its record afterwards (`automations.js:311-329`, `383-398`), and nothing takes that away |
| `Cron!StrictlyAfter` | asked in the hour that is lived again, nextCron answers with an instant of the first time; the mock then fires at every tick of that hour |
| `RuntimeLife!QuitLeavesNothing`, `!EarlierLivesEnd` | a start still under way spawns its host after a stop looked for one; the exit of a superseded host removes its successor's pid file, and the next life does not find that one |
| `RuntimeLife!AskedIsStarted` | a start asked for after a stop, while the start before that stop still reconciles the automations, is handed that one: nothing is started |
| `Provision!ComesUpAnyway`, `!OnlyWholeIsRun` | a copy of Claude that was cut short is run if it begins like a program, and otherwise never fetched again |
| `Provision!NobodyElseIsKilled` | the registry's number of an agent that ended without a host may be another program's by the next start |
| `AgentTools!NamedPageIsRead` | the page is read when the yes arrives: it may be another than the question named |
| `Observing!NothingFromTheDark` | a tick across off and on again records what it read in between |
| `Routines!RestsInTheDark` | the list of the due is worked off although the light went out after the first |
| `Presence!ThoughtsByLight` | a thought asked for with the light on is shown with it off |
| `Sensor!ExcludedStaysHome` | closing and selecting are posted with their domain, and a sleeping worker wakes with a policy that allows all |
| `Sensor!ExcludedIsNotTaken` | "the same rules again on its side" (`background.js:12`): a selection is posted whatever site it was made on (`background.js:165`), and kept if the page *held* is not excluded (`browser-sensor.js:192-198`): that of the window before, or of before a post that was lost or is late |
| `Initiative!BeckonsWhileHolding`, `!CardIsTrue` | what is held while fren talks beckons nobody; a second thing that is said at once replaces the one held, and the card stays |
| `Stage!StageFacesTheCorner` | a push in the middle of a transition turns nothing, and none follows |
| `Recording!RingMeansMic`, `!MicIsGivenBack` | a press while the last recording drains leaves a ring over no microphone; two presses while it opens leave a stream nobody stops |
| `VoiceLine!EveryLineIsHeld` | two starts at once: the second session replaces the first, which stays open |
| `Conversation!NeverDropped`, `!LaterIsSaid`, `!NeverIntoTheMicrophone` | the queue has one place; a drain that finds fren busy is armed again only by what ends, and a recording given up arms none; a voice that was being fetched starts under a recording |
| `Cards!QuestionIsSeen` | a decision that fails takes its card away, and nothing brings it back while the gateway stays reachable |
| `Interview!NoneIsPassedOver`, `!DecliningIsHeard` | two answers to one question pass over the next; a finish under way goes on after the chip that declines |
| `Intent!SmallHoursAreMeant` | "every night at midnight" is read as noon, and "tomorrow at three" as three in the night, where `intelligence/index.js:1321` says nobody means that |

And without a property:

* Automations: a request overtaken by a newer one, or a failed `tasks-update`,
  leaves the adapter's note newer than the host's text, and no later sync of that
  runtime life sees a difference (`schedules.js:146`; `SyncAgrees` leaves these out);
  a plain edit in the seconds before the watch reports a pause resumes the task;
  a removal while the runtime is not ready leaves the task firing; an update of an
  automation removed meanwhile ends in an exception before the policy is pushed; a
  failed start of a "whenever" still consumes its cooldown; one that was switched off
  or removed while an observation waited for another's run is still run.
* Schedule watch: the host's sweep more than ten minutes after an end finds it
  forgotten (`schedule-watch.js:60`), and a run that was recorded is recorded again
  as missed; `NeverTwice` counts these apart.
* Door: the hosts a session was asked about (`askedHosts`) are remembered for as long
  as Core lives.
* Event stream: a gap of more than 500 rows is cut, and before its first event a
  client that lost its connection resumes from wherever the log is by then.
* Runtime: the teardown of a failed start arms the restart again; the `error` of a
  spawn never clears the child; a second `listen` of the bridge leaks the first
  server; a teardown before a tier is chosen leaves an earlier life's agents;
  `docs/runtime-architecture.md:1002` calls runs open at a host exit `interrupted`,
  `index.js:551` fails them.
* Lanes: a body above `MAX_JSON_BODY` in the sandbox's model lane is cut without a
  word and forwarded; `FREN_LLM_PROVIDER=anthropic` without a key never falls back
  to the mock; the gateway takes any well-shaped model id.
* Store: memories never expire and `automation_runs` is never pruned.
* Desktop: README.md:346 has every launch after the first start asleep, and
  `main/index.js:895` starts awake by default; a click while a line connects starts
  a recording of its own; the settle timer of a reply fires over the next reply's
  face.

## What is abstracted

* Words, prompts, names, cron expressions and domains are members of small sets,
  told apart by what the code tells apart. A sentence (`Intent`) is what the
  patterns find in it: its sort, its hour and how that was said.
* Time: a timer is armed or not, a card lapsed or not, a gap long or short. `Cron`
  and `Intent` have clocks, because their properties are about them.
* A model's answer is any answer its reader can be given, and none.
* `Runs`: runs a schedule opened are `Firing`'s. A start of the adapter is one flag
  there; how it overlaps others is `RuntimeLife`'s.
* `Automations`: recurring agent automations only. A host's note that a task was
  paused never scrolls out of its log. One pass of the reconciliation's loop is
  one step up to its next request.
* `FireWatch`: one series; the counters of others do not enter its reading.
* `Observing`: a row a batch holds keeps its id to itself. SQLite may give the highest
  id of a table that was pruned to the next row (`memory/index.js:5` has no
  AUTOINCREMENT); a cleanup that empties the end of the table while a model reads
  is left out.
* `Firing`: one automation. What others do to it is `foremost` and `looking`: whether
  one comes before it in the list, and the observations that wait for that one.
* `Stage`: one axis, since width and height are decided apart by one arithmetic.
* `Face`: the shake of the pointer is the mood it ends in; its geometry is not here.
  A recording may put its faces on at any time: when it does is `Recording`'s.
* `Egress`: TLS and bytes: a line is held, open or gone.

## Not modelled

* Command lines, mounts and the sandbox's profile (`process-runtime.js`): data for
  the operating system. What a start *makes* is `Provision`.
* The prompts and the reading of a model's prose (`intelligence`), the wording of
  cards: text without discrete behaviour.
* Drawing: `orb.js`, `face.js`, CSS, panels: continuous, and no state that outlives
  a frame. What is worn is `Face`, where the window is `Stage`.
* The HTTP routes, which hand a request to one of the modelled calls; the providers
  beyond how one is picked and what it does when it fails.
* The vendored host beyond what Core can tell; other wake engines, which have the
  interface of the one modelled; the training of the wake word, the website, build
  scripts.

## Plan

Every safety property that is checked is proved. What would say more: `RunLedger`, an
abstract run (accepted, spoken, ended once) that `Runs` implements, and an abstract
card that `PermissionBroker` implements, each with its refinement checked and proved
as that of `EventDelivery` is.
