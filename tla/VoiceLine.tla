------------------------------- MODULE VoiceLine -------------------------------
(***************************************************************************)
(* "hey fren" and the line it opens.  Main decides when the wake word may  *)
(* listen (main/index.js), the listener arms and disarms an engine and a   *)
(* recorder (wake-word.js, wake-engine-*.js), and the renderer opens and   *)
(* closes the conversation (voice-session.js).                             *)
(*                                                                         *)
(* Arming awaits twice, opening a line awaits twice, and a frame may still *)
(* be inside the engine when the listener is disarmed.                     *)
(***************************************************************************)
EXTENDS Naturals, Sequences, FiniteSets

CONSTANTS MaxArms,     \* calls of arm() and recorders at one time
          MaxLines     \* calls of start() in a behaviour

ASSUME VoiceBounds == MaxArms \in Nat /\ MaxLines \in Nat

VARIABLES
  lit,         \* state.observing
  lineOpen,    \* voiceLineOpen, as main was told
  asleep, locked, settling, fresh,
  arming,
  arms,        \* calls of arm() in flight
  loading,     \* an engine is being loaded (the promise the next arm waits for)
  loads,       \* ... and how many really are
  recorder,    \* the recorder that runs, 0 for none; its engine has its number
  engines,     \* engines that were made and not released
  frames,      \* recorders with a frame inside their engine
  backing,     \* retryAt is in the future
  conv,        \* the session the renderer holds, 0 for none
  ending,      \* the session end() is ending, 0 for none
  starts,      \* calls of start() in flight
  lines,       \* sessions open at the other end
  states,      \* fren:voice.state calls on their way to main
  opened       \* calls of start() so far

power == <<asleep, locked, settling, fresh>>
ear   == <<arming, arms, loading, loads, recorder, engines, backing>>
line  == <<conv, ending, starts, lines, opened>>
voiceVars == <<lit, lineOpen, power, ear, frames, line, states>>

VoiceTypeOK ==
  /\ {lit, lineOpen, asleep, locked, settling, fresh, arming, loading, backing} \subseteq BOOLEAN
  /\ arms \subseteq [id : 1..MaxArms, cancelled : BOOLEAN, at : {"asking", "waiting", "loading"}]
  /\ recorder \in 0..MaxArms /\ engines \subseteq 1..MaxArms /\ frames \subseteq 1..MaxArms
  /\ conv \in 0..MaxLines /\ ending \in 0..MaxLines /\ lines \subseteq 1..MaxLines
  /\ starts \subseteq [id : 1..MaxLines, at : {"ticket", "opening"}]
  /\ states \in Seq(BOOLEAN)

VoiceInit ==
  /\ lit = FALSE /\ lineOpen = FALSE
  /\ asleep = FALSE /\ locked \in BOOLEAN /\ settling = FALSE /\ fresh = FALSE
  /\ arming = FALSE /\ arms = {} /\ loading = FALSE /\ loads = 0
  /\ recorder = 0 /\ engines = {} /\ frames = {} /\ backing = FALSE
  /\ conv = 0 /\ ending = 0 /\ starts = {} /\ lines = {} /\ states = <<>>
  /\ opened = 0

WantWake == lit /\ ~lineOpen /\ ~asleep /\ ~locked /\ ~settling
Free == (1..MaxArms) \ ({a.id : a \in arms} \union engines \union frames)
Room == Cardinality(Free) > MaxLines       \* bounds how much is left in flight
IsArmed == recorder # 0 \/ arming

(***************************************************************************)
(* The listener.                                                           *)
(***************************************************************************)

\* arm(): refused while backing off, unless it is owed a fresh start.
Arm ==
  IF backing /\ ~fresh
  THEN UNCHANGED ear
  ELSE LET id == CHOOSE i \in Free : \A j \in Free : i <= j IN
       /\ backing' = FALSE
       /\ arming' = TRUE
       /\ arms' = arms \union {[id |-> id, cancelled |-> FALSE, at |-> "asking"]}
       /\ UNCHANGED <<loading, loads, recorder, engines>>

\* disarm(): the generation moves, so what is arming is cancelled; what listens lets go.
Disarm ==
  /\ arms' = {[a EXCEPT !.cancelled = TRUE] : a \in arms}
  /\ arming' = FALSE
  /\ recorder' = IF arming THEN recorder ELSE 0
  /\ engines' = IF arming THEN engines ELSE engines \ {recorder}
  /\ UNCHANGED <<loading, loads, backing>>

\* A failure the next arm waits for.
Failed(a) ==
  IF a.cancelled THEN UNCHANGED <<arming, backing>>
                  ELSE arming' = FALSE /\ backing' = TRUE

\* The microphone was asked for.
MicAnswers(a) ==
  /\ a \in arms /\ a.at = "asking"
  /\ UNCHANGED <<lit, lineOpen, power, recorder, engines, backing,
                 frames, line, states>>
  /\ \/ /\ a.cancelled /\ arms' = arms \ {a} /\ UNCHANGED <<arming, loading, loads>>
     \/ /\ ~a.cancelled /\ arms' = arms \ {a} /\ arming' = FALSE   \* macOS refused
        /\ UNCHANGED <<loading, loads>>
     \/ /\ ~a.cancelled /\ UNCHANGED arming
        /\ arms' = (arms \ {a}) \union {[a EXCEPT !.at = IF loading THEN "waiting" ELSE "loading"]}
        /\ loading' = TRUE /\ loads' = IF loading THEN loads ELSE loads + 1

\* The load it waited for is over: its turn, unless it was cancelled meanwhile.
WaitEnds(a) ==
  /\ a \in arms /\ a.at = "waiting" /\ ~loading
  /\ IF a.cancelled
     THEN arms' = arms \ {a} /\ UNCHANGED <<loading, loads>>
     ELSE /\ arms' = (arms \ {a}) \union {[a EXCEPT !.at = "loading"]}
          /\ loading' = TRUE /\ loads' = loads + 1
  /\ UNCHANGED <<lit, lineOpen, power, arming, recorder, engines, backing, frames, line, states>>

\* createEngine resolved, without a look at what happened meanwhile.
LoadedRegardless(a) ==
  /\ engines' = engines \union {a.id} /\ recorder' = a.id /\ arming' = FALSE
  /\ backing' = FALSE

\* createEngine resolved: a cancelled arm lets go of what it made, the other
\* makes a recorder and listens.
Loaded(a) ==
  IF a.cancelled
  THEN UNCHANGED <<engines, recorder, arming, backing>>
  ELSE /\ engines' = engines \union {a.id} /\ recorder' = a.id /\ arming' = FALSE
       /\ backing' = FALSE

LoadEnds(a) ==
  /\ a \in arms /\ a.at = "loading"
  /\ arms' = arms \ {a} /\ loading' = FALSE /\ loads' = loads - 1
  /\ \/ Loaded(a)
     \/ Failed(a) /\ UNCHANGED <<engines, recorder>>     \* no model, or no recorder
  /\ UNCHANGED <<lit, lineOpen, power, frames, line, states>>

FrameTaken ==
  /\ recorder # 0 /\ frames' = frames \union {recorder} /\ recorder \notin frames
  /\ UNCHANGED <<lit, lineOpen, power, ear, line, states>>

\* The microphone is lost, or the engine fails on a frame.
EarFails ==
  /\ recorder # 0
  /\ recorder' = 0 /\ engines' = engines \ {recorder} /\ backing' = TRUE
  /\ UNCHANGED <<lit, lineOpen, power, arming, arms, loading, loads,
                 frames, line, states>>

BackoffPasses ==
  /\ backing /\ backing' = FALSE
  /\ UNCHANGED <<lit, lineOpen, power, arming, arms, loading, loads, recorder, engines,
                 frames, line, states>>

(***************************************************************************)
(* Main: when it may listen.                                               *)
(***************************************************************************)

\* syncWakeWord, over what this step has just learned.
Sync ==
  \/ WantWake' /\ ~IsArmed /\ Arm /\ fresh' = FALSE
  \/ ~WantWake' /\ IsArmed /\ Disarm /\ UNCHANGED fresh
  \/ (WantWake' <=> IsArmed) /\ UNCHANGED <<ear, fresh>>

\* The light.
Light ==
  /\ Room
  /\ lit' = ~lit
  /\ UNCHANGED <<lineOpen, asleep, locked, settling, frames, line, states>>
  /\ Sync

\* standDown: the microphone is let go in the handler itself.
StandDown ==
  /\ Room
  /\ settling' = FALSE /\ fresh' = FALSE
  /\ IF IsArmed THEN Disarm ELSE UNCHANGED ear
  /\ UNCHANGED <<lit, lineOpen, frames, line, states>>
Suspend == ~asleep /\ asleep' = TRUE /\ UNCHANGED locked /\ StandDown
Lock    == locked' = TRUE /\ UNCHANGED asleep /\ StandDown

\* comeBack: a moment for the audio devices, unless there is nothing to wait for.
Resume ==
  /\ asleep /\ asleep' = FALSE /\ settling' = ~(locked \/ IsArmed)
  /\ UNCHANGED <<lit, lineOpen, locked, fresh, ear, frames, line, states>>
Unlock ==
  /\ locked /\ locked' = FALSE /\ fresh' = TRUE /\ settling' = ~(asleep \/ IsArmed)
  /\ UNCHANGED <<lit, lineOpen, asleep, ear, frames, line, states>>

\* The settle timer: macOS is asked about the lock, then it looks again.
Settle ==
  /\ Room
  /\ settling /\ settling' = FALSE
  /\ locked' \in BOOLEAN
  /\ UNCHANGED <<lit, lineOpen, asleep, frames, line, states>>
  /\ Sync

\* Every thirty seconds: what an event that never came would have said, and a
\* microphone that failed, tried again.
Heartbeat ==
  /\ Room
  /\ locked' \in BOOLEAN
  /\ UNCHANGED <<lit, lineOpen, asleep, settling, frames, line, states>>
  /\ Sync

(***************************************************************************)
(* The renderer: the line.                                                 *)
(***************************************************************************)

\* start(): its look at what is there is before its awaits.
Start ==
  /\ conv = 0 /\ ending = 0
  /\ opened < MaxLines /\ opened' = opened + 1
  /\ starts' = starts \union {[id |-> opened + 1, at |-> "ticket"]}
  /\ UNCHANGED <<conv, ending, lines>>

\* The orb is held, or the hotkey pressed.
Hold == Start /\ UNCHANGED <<lit, lineOpen, power, ear, frames, states>>

\* A frame comes out of the engine, and was the phrase: unless its recorder is
\* gone, the renderer is woken and opens the line.
Wake(r) ==
  /\ r \in frames /\ frames' = frames \ {r}
  /\ recorder = r /\ Start
  /\ UNCHANGED <<lit, lineOpen, power, ear, states>>
NoWake(r) ==
  /\ r \in frames /\ frames' = frames \ {r}
  /\ UNCHANGED <<lit, lineOpen, power, ear, line, states>>

\* Main's ticket: a signed url, or an error.
Ticket(s) ==
  /\ s \in starts /\ s.at = "ticket"
  /\ \/ starts' = starts \ {s}
     \/ starts' = (starts \ {s}) \union {[s EXCEPT !.at = "opening"]}
  /\ UNCHANGED <<lit, lineOpen, power, ear, frames, conv, ending, lines, opened, states>>

\* startSession resolved: the session is `conv', whatever was.
Opens(s) ==
  /\ s \in starts /\ s.at = "opening"
  /\ starts' = starts \ {s} /\ lines' = lines \union {s.id} /\ conv' = s.id
  /\ states' = Append(states, TRUE)
  /\ UNCHANGED <<lit, lineOpen, power, ear, frames, ending, opened>>

\* It threw: settle(), whatever was.
OpenFails(s) ==
  /\ s \in starts /\ s.at = "opening"
  /\ starts' = starts \ {s} /\ conv' = 0
  /\ states' = Append(states, FALSE)
  /\ UNCHANGED <<lit, lineOpen, power, ear, frames, ending, lines, opened>>

\* end(): a click, the hotkey, twenty-five silent seconds, twenty minutes.
End ==
  /\ conv # 0 /\ ending = 0
  /\ ending' = conv /\ conv' = 0
  /\ UNCHANGED <<lit, lineOpen, power, ear, frames, starts, lines, opened, states>>
Ended ==
  /\ ending # 0 /\ ending' = 0 /\ lines' = lines \ {ending}
  /\ states' = Append(states, FALSE)
  /\ UNCHANGED <<lit, lineOpen, power, ear, frames, conv, starts, opened>>

\* onDisconnect without settle().
HangsUpSilently(l) ==
  /\ l \in lines /\ l # ending /\ lines' = lines \ {l}
  /\ conv' = 0 /\ UNCHANGED states
  /\ UNCHANGED <<lit, lineOpen, power, ear, frames, ending, starts, opened>>

\* The agent hangs up, or the line drops.
HangsUp(l) ==
  /\ l \in lines /\ l # ending /\ lines' = lines \ {l}
  /\ conv' = 0
  /\ states' = IF conv = 0 THEN states ELSE Append(states, FALSE)
  /\ UNCHANGED <<lit, lineOpen, power, ear, frames, ending, starts, opened>>

\* fren:voice.state reaches main.
Told ==
  /\ states # <<>> /\ states' = Tail(states) /\ lineOpen' = Head(states)
  /\ UNCHANGED <<lit, asleep, locked, settling, frames, line>>
  /\ Sync

VoiceNext ==
  \/ \E a \in arms : MicAnswers(a) \/ WaitEnds(a) \/ LoadEnds(a)
  \/ FrameTaken \/ EarFails \/ BackoffPasses
  \/ \E r \in frames : Wake(r) \/ NoWake(r)
  \/ Light \/ Suspend \/ Lock \/ Resume \/ Unlock \/ Settle \/ Heartbeat
  \/ \E s \in starts : Ticket(s) \/ Opens(s) \/ OpenFails(s)
  \/ Hold \/ End \/ Ended \/ Told
  \/ \E l \in lines : HangsUp(l)

\* Timers fire, calls are answered, and a conversation that nobody ends is ended
\* by its cap.
VoiceFairness ==
  /\ WF_voiceVars(End) /\ WF_voiceVars(Ended) /\ WF_voiceVars(Told)

VoiceSpec == VoiceInit /\ [][VoiceNext]_voiceVars
VoiceFairSpec == VoiceSpec /\ VoiceFairness

(***************************************************************************)
(* Properties                                                              *)
(***************************************************************************)

\* "it never completes after the light went off or the Mac locked": the
\* microphone is open for the wake word only while it is wanted, whichever arm
\* was in flight when that changed.
ListeningIsWanted == recorder # 0 => lit /\ ~lineOpen /\ ~asleep /\ ~locked

\* "engine loads never overlap", and a cancelled arm releases what it made: at
\* most one engine is loaded or being loaded.
OneEngine == loads + Cardinality(engines) <= 1

\* The wake word comes back after a conversation: main is not left believing
\* that a line is open.
WakeComesBack == lineOpen ~> ~lineOpen

\* "A session only ever starts on purpose and always ends itself": whatever line
\* is open is one the renderer still holds, and can end.
EveryLineIsHeld == lines \subseteq {conv, ending}
=============================================================================
