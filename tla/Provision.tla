------------------------------- MODULE Provision -------------------------------
(***************************************************************************)
(* What a start of the runtime finds, fetches and makes (runtime-nanoclaw: *)
(* ensureHostReady, process-runtime.js, runtime-setup.js,                  *)
(* container-runtime.js, bootstrap.js).  Everything it makes outlives it:  *)
(* the pieces on the disk, the entities in the host's database and the     *)
(* agents' processes, each left as a failure or a crash of Core left it.   *)
(***************************************************************************)
EXTENDS Naturals, FiniteSets

CONSTANTS
  MaxFaults,   \* bound: failures, crashes, stops and changes of the machine
  Pids         \* process numbers an agent may have

ASSUME ProvisionBounds == MaxFaults \in Nat

Pieces == {"bun", "deps", "claude"}
Required == {"group", "user", "role", "surface", "wiring"}
After == [bun |-> "deps", deps |-> "claude", claude |-> "choose",
          group |-> "config", config |-> "user", user |-> "role", role |-> "surface",
          surface |-> "wiring", wiring |-> "ready"]

VARIABLES
  mac, want,    \* macOS with its sandbox, and FREN_RUNTIME_TIER
  docker,       \* the container runtime: absent, stopped, running (and the image is there)
  pieces,       \* none, own (the machine's), fetched, half or stub (a copy cut short: its
                \* beginning is there, or nothing of it)
  at,           \* where the start is
  tier,         \* tierChosen
  entities,         \* the entities in the host's database
  runner,       \* whose process a number is: nobody's, an agent's, another program's
  recorded,     \* the numbers the registry has as running
  killed,       \* another program was killed
  faults

machine == <<mac, want, docker>>
provVars == <<machine, pieces, at, tier, entities, runner, recorded, killed, faults>>

ProvTypeOK ==
  /\ mac \in BOOLEAN /\ want \in {"auto", "process", "container"} /\ docker \in {"absent", "stopped", "running"}
  /\ pieces \in [Pieces -> {"none", "own", "fetched", "half", "stub"}]
  /\ at \in {"down", "choose", "ready", "stopped"} \union DOMAIN After
  /\ tier \in {"none", "process", "container"} /\ entities \subseteq Required \union {"config"}
  /\ runner \in [Pids -> {"nobody", "agent", "other"}] /\ recorded \subseteq Pids
  /\ killed \in BOOLEAN /\ faults \in 0..MaxFaults

ProvInit ==
  /\ mac \in BOOLEAN /\ want \in {"auto", "process", "container"} /\ docker \in {"absent", "running"}
  /\ \E own \in {{}, {"bun"}} : pieces = [x \in Pieces |-> IF x \in own THEN "own" ELSE "none"]
  /\ at = "down" /\ tier = "none" /\ entities = {}
  /\ runner = [p \in Pids |-> "nobody"] /\ recorded = {} /\ killed = FALSE /\ faults = 0

Fault == faults < MaxFaults /\ faults' = faults + 1

\* detect: a Bun and the marker of the runner's dependencies are there, and a Claude
\* that begins like a program does.
Seen(x) == pieces[x] \in {"own", "fetched", "half"}
Complete == mac /\ \A x \in Pieces : Seen(x)

\* Broken form of StopAll: the registry is cleared, and nobody is stopped.
StopRecords == recorded' = {} /\ UNCHANGED <<runner, killed>>

\* teardown: the agents' processes are stopped, by the numbers the registry has, when
\* this life chose the tier they run in.
StopAll ==
  IF tier = "process"
  THEN /\ runner' = [p \in Pids |-> IF p \in recorded THEN "nobody" ELSE runner[p]]
       /\ killed' = (killed \/ \E p \in recorded : runner[p] = "other")
       /\ recorded' = {}
  ELSE UNCHANGED <<runner, recorded, killed>>

Unavailable == at' = "down" /\ StopAll

(***************************************************************************)
(* A start                                                                 *)
(***************************************************************************)
\* Asked for, or probed for again.  What the tier without containers lacks is fetched.
StartsUp ==
  /\ at = "down" /\ at' = IF want # "container" /\ mac /\ ~Complete THEN "bun" ELSE "choose"
  /\ UNCHANGED <<machine, pieces, tier, entities, runner, recorded, killed, faults>>

\* ensureBun, ensureRunnerDeps, ensureClaude: whatever is at its place is taken.
EnsurePiece ==
  /\ at \in Pieces /\ at' = After[at]
  /\ pieces' = IF pieces[at] = "none" THEN [pieces EXCEPT ![at] = "fetched"] ELSE pieces
  /\ UNCHANGED <<machine, tier, entities, runner, recorded, killed, faults>>

\* The download or the install fails; what came before it is kept.
SetupFails ==
  /\ Fault /\ at \in Pieces /\ pieces[at] = "none" /\ at' = "choose"
  /\ UNCHANGED <<machine, pieces, tier, entities, runner, recorded, killed>>

ChooseTier ==
  /\ at = "choose"
  /\ CASE want # "container" /\ Complete -> tier' = "process" /\ at' = "group" /\ UNCHANGED <<runner, recorded, killed>>
       [] want # "process" /\ ~(want # "container" /\ Complete) /\ docker = "running" ->
            tier' = "container" /\ at' = "group" /\ UNCHANGED <<runner, recorded, killed>>
       [] OTHER -> UNCHANGED tier /\ Unavailable
  /\ UNCHANGED <<machine, pieces, entities, faults>>

\* ensureEntities, one by one: made if the list does not have it.
EnsureEntity ==
  /\ at \in Required \union {"config"} /\ entities' = entities \union {at} /\ at' = After[at]
  /\ UNCHANGED <<machine, pieces, tier, runner, recorded, killed, faults>>

\* Broken form of EntityFails: the start goes on, whatever is missing.
EntityFailsOn ==
  /\ Fault /\ at \in Required \union {"config"}
  /\ \E done \in {{}, {at}} : entities' = entities \union done
  /\ at' = After[at] /\ UNCHANGED <<runner, recorded, killed, machine, pieces, tier>>

\* A call to the host fails, before it did its work or after.  The group's
\* configuration and its tools may be missing; the rest may not.
EntityFails ==
  /\ Fault /\ at \in Required \union {"config"}
  /\ \E done \in {{}, {at}} : entities' = entities \union done
  /\ IF at = "config" THEN at' = After[at] /\ UNCHANGED <<runner, recorded, killed>> ELSE Unavailable
  /\ UNCHANGED <<machine, pieces, tier>>

(***************************************************************************)
(* What happens meanwhile                                                  *)
(***************************************************************************)
StopsEnvironment ==
  /\ Fault /\ at # "stopped" /\ at' = "stopped" /\ StopAll
  /\ UNCHANGED <<machine, pieces, tier, entities>>

StartsAfterStop ==
  /\ at = "stopped" /\ at' = "down"
  /\ UNCHANGED <<machine, pieces, tier, entities, runner, recorded, killed, faults>>

\* Core dies; a copy under way is cut short, and the agents go on.
CoreDies ==
  /\ Fault /\ at' = "down" /\ tier' = "none"
  /\ pieces' \in IF at \in Pieces /\ pieces[at] = "none"
                 THEN {[pieces EXCEPT ![at] = h] : h \in {"none", "half"} \union (IF at = "claude" THEN {"stub"} ELSE {})}
                 ELSE {pieces}
  /\ UNCHANGED <<machine, entities, runner, recorded, killed>>

\* The person installs or opens Docker, or closes it.
DockerChanges ==
  /\ Fault /\ docker' \in {"stopped", "running"} \ {docker}
  /\ UNCHANGED <<mac, want, pieces, at, tier, entities, runner, recorded, killed>>

AgentSpawns(p) ==
  /\ Fault /\ at = "ready" /\ tier = "process" /\ runner[p] = "nobody" /\ p \notin recorded
  /\ runner' = [runner EXCEPT ![p] = "agent"] /\ recorded' = recorded \union {p}
  /\ UNCHANGED <<machine, pieces, at, tier, entities, killed>>

\* Its host records that it ended, if there is a host.
AgentExits(p) ==
  /\ runner[p] = "agent" /\ runner' = [runner EXCEPT ![p] = "nobody"]
  /\ recorded' = IF at = "ready" THEN recorded \ {p} ELSE recorded
  /\ UNCHANGED <<machine, pieces, at, tier, entities, killed, faults>>

\* The number is given to another program.
NumberReused(p) ==
  /\ Fault /\ runner[p] = "nobody" /\ runner' = [runner EXCEPT ![p] = "other"]
  /\ UNCHANGED <<machine, pieces, at, tier, entities, recorded, killed>>

ProvStep == StartsUp \/ EnsurePiece \/ ChooseTier \/ EnsureEntity
ProvNext ==
  \/ StartsUp \/ EnsurePiece \/ SetupFails \/ ChooseTier \/ EnsureEntity \/ EntityFails
  \/ StopsEnvironment \/ StartsAfterStop \/ CoreDies \/ DockerChanges
  \/ \E p \in Pids : AgentSpawns(p) \/ AgentExits(p) \/ NumberReused(p)

\* A start goes on to its end, and Core probes again while there is none (fren-core
\* startRuntime).
ProvFairness == WF_provVars(ProvStep)
ProvSpec == ProvInit /\ [][ProvNext]_provVars /\ ProvFairness

(***************************************************************************)
(* Properties                                                              *)
(***************************************************************************)

\* A runtime that says it is ready is wired: whatever failed, and in which life, the
\* entities are in the host and what its tier needs was found.
ReadyIsWired == at = "ready" => Required \subseteq entities /\ tier # "none" /\ (tier = "process" => Complete)

\* "An ambient companion must not leave agents working after the user quit it": none is
\* left of any life, when the one that stops had chosen the tier.
StopLeavesNoAgent == at = "stopped" /\ tier = "process" => \A p \in Pids : runner[p] # "agent"

\* The person installs nothing by hand: on a Mac a start ends in a runtime that is
\* ready, unless it is stopped, or a crash cut a copy short.
Whole == \A x \in Pieces : pieces[x] \notin {"half", "stub"}
CanComeUp == mac /\ want # "container" /\ Whole
ComesUp == (at = "down" /\ CanComeUp) ~> (at \in {"ready", "stopped"} \/ ~Whole)

\* And then too (does not hold: a copy of Claude cut at its beginning is never taken for
\* one, and never fetched again).
ComesUpAnyway == (at = "down" /\ mac /\ want # "container") ~> (at \in {"ready", "stopped"})

\* What is cut short is not run (does not hold: the copy is not made whole at once).
OnlyWholeIsRun == at = "ready" /\ tier = "process" => Whole

\* Nobody else's process is stopped (does not hold: the registry's number of an agent
\* that ended without a host is another program's by then).
NobodyElseIsKilled == ~killed
=================================================================================
