------------------------------ MODULE MCDesktop ------------------------------
(***************************************************************************)
(* fren on the desktop: what it sees of the browser and of the screen,     *)
(* where it stands, what it does at set times and of its own accord, who   *)
(* may talk to it, and what it is told about itself. The parts keep no     *)
(* variable in common, so each behaviour is of one part, the others at     *)
(* their start.                                                            *)
(***************************************************************************)
EXTENDS Sensor, Stage, Observing, Routines, Initiative, Pairing, Business, TLC

VARIABLE part

DesktopParts == {"sensor", "stage", "observing", "routines", "initiative", "pairing", "business"}
deskAll == <<part, sensorVars, stageVars, obsvVars, rtnVars, initVars, pairVars, busyVars>>

(* A pattern for a site, one for it and another, and one nobody may lift.  *)
Patterns == {"wide", "narrow", "never"}
CoversThree == [p \in Patterns |-> IF p = "wide" THEN {"wide", "narrow"} ELSE {p}]

DesktopInit ==
  /\ part \in DesktopParts
  /\ SensorInit /\ StageInit /\ ObsvInit /\ RtnInit /\ InitiativeInit /\ PairInit /\ BusInit
  /\ part # "sensor" => front = CHOOSE t \in Tabs : TRUE
  /\ part # "stage" => scale = 1 /\ work = CHOOSE w \in Widths : TRUE
  /\ part # "observing" => light
  /\ part # "routines" => lamp
  /\ part # "initiative" => lit /\ volunteer

OfSensor ==
  /\ part = "sensor" /\ SensorNext
  /\ UNCHANGED <<part, stageVars, obsvVars, rtnVars, initVars, pairVars, busyVars>>
OfStage ==
  /\ part = "stage" /\ StageNext
  /\ UNCHANGED <<part, sensorVars, obsvVars, rtnVars, initVars, pairVars, busyVars>>
OfObserving ==
  /\ part = "observing" /\ ObsvNext
  /\ UNCHANGED <<part, sensorVars, stageVars, rtnVars, initVars, pairVars, busyVars>>
OfRoutines ==
  /\ part = "routines" /\ RtnNext
  /\ UNCHANGED <<part, sensorVars, stageVars, obsvVars, initVars, pairVars, busyVars>>
OfInitiative ==
  /\ part = "initiative" /\ InitiativeNext
  /\ UNCHANGED <<part, sensorVars, stageVars, obsvVars, rtnVars, pairVars, busyVars>>
OfPairing ==
  /\ part = "pairing" /\ PairNext
  /\ UNCHANGED <<part, sensorVars, stageVars, obsvVars, rtnVars, initVars, busyVars>>
OfBusiness ==
  /\ part = "business" /\ BusNext
  /\ UNCHANGED <<part, sensorVars, stageVars, obsvVars, rtnVars, initVars, pairVars>>

DesktopNext ==
  \/ OfSensor \/ OfStage \/ OfObserving \/ OfRoutines \/ OfInitiative \/ OfPairing \/ OfBusiness

(* The fairness of a part, in the runs that are of it (ObsvFair and        *)
(* PairFair say why).                                                      *)
InObserving(A) == part = "observing" /\ A
InPairing(A) == part = "pairing" /\ A
DesktopFairness ==
  /\ WF_obsvVars(InObserving(Interval))
  /\ \A o \in Origins :
       /\ WF_pairVars(InPairing(PostFrom(o)))
       /\ WF_pairVars(InPairing(Refusal(o)))
       /\ WF_pairVars(InPairing(\E t \in sent[o] : Received(o, t)))

DesktopSpec == DesktopInit /\ [][DesktopNext]_deskAll /\ DesktopFairness

-----------------------------------------------------------------------------
(* Every variable of every part holds a value of its kind.                 *)
DesktopTypeOK ==
  /\ SensorTypeOK /\ StageTypeOK /\ ObsvTypeOK /\ RtnTypeOK /\ InitiativeTypeOK /\ PairTypeOK /\ BusTypeOK

(* What the person ruled holds: in the dark fren holds nothing of the      *)
(* browser, of a page it holds of a site they keep for themselves only the *)
(* domain, and no text or selection where they withdrew these              *)
(* (browser-sensor.js); nobody denied is put to them again                 *)
(* (browser-transport.js); what fren says of itself is true when it is     *)
(* said (own-business.js), and nothing is destroyed by a chip that came    *)
(* under a moving finger (app.js).                                         *)
RulesHold == HoldsWhatItMay /\ DeniedStays /\ TrueWhenSaid /\ DestroyedOnPurpose

(* What fren does of its own accord it does once: a routine is asked once  *)
(* for its time (routines.js), a suggestion has one fate (proactive.js),   *)
(* and an observation is in one summary (summarizer.js).                   *)
DoneOnce == OncePerDue /\ RunIsMarked /\ FatesAreKept /\ SummedOnce

(* The orb can be reached: it is on the screen, and comes back to where it *)
(* was parked (main/index.js recenter, place.js clampInto).                *)
OrbIsReachable == OrbOnScreen /\ ComesBack

(* No click does another thing than the chip said, and no word widens what *)
(* fren may reach; opening the panel leaves the orb where it is.           *)
StepsAreHonest == SpokenNeverWidens /\ DoesWhatItSays /\ OpensAround

(* What is old goes, and a token fren forgot is given up.                  *)
LetsGo == OldGoes /\ NoDeadToken
=============================================================================
