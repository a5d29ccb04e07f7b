------------------------------- MODULE Recording -------------------------------
(***************************************************************************)
(* Talking to fren with the microphone: the click that opens it and the    *)
(* click that sends, the panel's button, the silence fren answers to, the  *)
(* two-minute cap (renderer/app.js), and the capture underneath            *)
(* (renderer/mic.js).                                                      *)
(*                                                                         *)
(* Every `await' ends a step.  Two are long: getUserMedia, which may wait  *)
(* for a permission prompt, and the draining of a stopped recorder into a  *)
(* WAV.  Neither is serialised with the next click.                        *)
(***************************************************************************)
EXTENDS Integers, FiniteSets

CONSTANTS MaxOpens,     \* requests for the microphone in a behaviour
          MaxPresses    \* clicks, button presses and releases

ASSUME RecordingBounds == MaxOpens \in Nat /\ MaxPresses \in Nat

VARIABLES
  want,        \* wantRecording
  ring,        \* body.dataset.recording: the light that says the microphone is open
  voiced,       \* heardSomething
  fromOrb,     \* recordingFromOrb
  nudged,      \* fren has spoken up once in this recording
  cap,         \* recordingCap is armed
  silence,     \* silenceTimer is armed
  stopping,    \* stopTalkingAndSend waits for mic.stop
  nudge,       \* "I'm listening." is being said
  replyDue,    \* awaitingReply, with nothing said yet that could be cut short
  stream,      \* the mic's stream, 0 for none
  liveStreams,        \* the streams whose tracks the system still has open
  micRecorder,    \* the mic's MediaRecorder
  meter,       \* meterCtx is running
  opening,     \* calls of getUserMedia under way, with what asked for each
  draining,    \* how many recorders are being drained, for each that waits
  opens, presses

light == <<ring, cap, silence>>
mic   == <<stream, liveStreams, micRecorder, meter>>
calls == <<opening, draining, opens>>
recVars == <<want, voiced, fromOrb, nudged, stopping, nudge, replyDue, light, mic, calls, presses>>

Askers  == {"orb", "button", "nudge"}
Waiters == {"send", "nudge", "giveUp"}

RecTypeOK ==
  /\ {want, ring, voiced, fromOrb, nudged, cap, silence, stopping, nudge, replyDue, meter}
       \subseteq BOOLEAN
  /\ stream \in 0..MaxOpens /\ liveStreams \subseteq 1..MaxOpens
  /\ micRecorder \in {"none", "recording", "inactive"}
  /\ opening \subseteq [id : 1..MaxOpens, by : Askers]
  /\ draining \in [Waiters -> Nat]
  /\ opens \in 0..MaxOpens /\ presses \in 0..MaxPresses

RecInit ==
  /\ want = FALSE /\ ring = FALSE /\ voiced = FALSE /\ fromOrb = FALSE
  /\ nudged = FALSE /\ cap = FALSE /\ silence = FALSE /\ stopping = FALSE
  /\ nudge = FALSE /\ replyDue = FALSE
  /\ stream = 0 /\ liveStreams = {} /\ micRecorder = "none" /\ meter = FALSE
  /\ opening = {} /\ draining = [w \in Waiters |-> 0]
  /\ opens = 0 /\ presses = 0

IsRecording == micRecorder = "recording"
StreamIsLive == stream # 0 /\ stream \in liveStreams

\* listening(null): the ring, the cap and the silence timer go together.
Hushed == ring' = FALSE /\ cap' = FALSE /\ silence' = FALSE

\* releaseStream, with the recorder let go: the tracks of the stream the mic knows of.
Released ==
  /\ liveStreams' = liveStreams \ {stream}
  /\ stream' = 0 /\ micRecorder' = "none" /\ meter' = FALSE

\* Recorder.stop(): the recorder is inactive at once, its onstop drains it for `w'.
Drains(w) ==
  /\ micRecorder' = "inactive"
  /\ draining' = [draining EXCEPT ![w] = @ + 1]
  /\ UNCHANGED <<stream, liveStreams, meter, opening, opens>>

(***************************************************************************)
(* Starting.  `orb' is recordingFromOrb as the caller left it.             *)
(***************************************************************************)

\* The rest of mic.start and of startTalking once stream `s' is there, and
\* toggleRecording's or the nudge's look at whether a recording began.
Opened(s, by, orb) ==
  IF want'
  THEN /\ stream' = s /\ liveStreams' = liveStreams \union {s} /\ micRecorder' = "recording"
       /\ meter' = (meter \/ ~IsRecording)
       /\ ring' = (ring \/ ~IsRecording)          \* the first reading of a new meter
       /\ cap' = TRUE
       /\ silence' = (silence \/ orb)
       /\ fromOrb' = orb
  ELSE \* let go before it had opened: mic.cancel()
       /\ liveStreams' = liveStreams \ {s} /\ stream' = 0 /\ micRecorder' = "none" /\ meter' = FALSE
       /\ Hushed
       /\ fromOrb' = (orb /\ by = "button")

\* startTalking up to its first long wait.
StartTalking(by, orb) ==
  IF replyDue
  THEN /\ fromOrb' = (orb /\ (by = "button" \/ want))
       /\ UNCHANGED <<want, voiced, light, mic, calls>>
  ELSE /\ want' = TRUE /\ voiced' = FALSE
       /\ IF StreamIsLive
          THEN Opened(stream, by, orb) /\ UNCHANGED calls
          ELSE /\ opens < MaxOpens
               /\ opens' = opens + 1
               /\ opening' = opening \union {[id |-> opens + 1, by |-> by]}
               /\ stream' = 0 /\ meter' = FALSE
               /\ fromOrb' = orb
               /\ UNCHANGED <<light, liveStreams, micRecorder, draining>>

\* getUserMedia answers with a stream.
MicOpens(o) ==
  /\ o \in opening
  /\ opening' = opening \ {o}
  /\ UNCHANGED <<want, voiced, nudged, stopping, nudge, replyDue, draining, opens, presses>>
  /\ Opened(o.id, o.by, fromOrb)

\* getUserMedia refuses: startTalking's catch, which does not lower wantRecording.
MicRefused(o) ==
  /\ o \in opening
  /\ opening' = opening \ {o}
  /\ Hushed
  /\ fromOrb' = (fromOrb /\ (o.by = "button" \/ want))
  /\ UNCHANGED <<want, voiced, nudged, stopping, nudge, replyDue, mic, draining, opens, presses>>

(***************************************************************************)
(* While it records.                                                       *)
(***************************************************************************)

\* A reading without listening()'s gate.
LateFrame ==
  /\ meter
  /\ ring' = TRUE
  /\ \E h \in BOOLEAN : voiced' = (voiced \/ h)
  /\ UNCHANGED <<want, fromOrb, nudged, stopping, nudge, replyDue, cap, silence, mic, calls, presses>>

\* A reading of the meter: lights the ring, unless the recording is over.
MeterFrame ==
  /\ meter /\ want
  /\ ring' = TRUE
  /\ \E h \in BOOLEAN : voiced' = (voiced \/ h)
  /\ UNCHANGED <<want, fromOrb, nudged, stopping, nudge, replyDue, cap, silence, mic, calls, presses>>

(***************************************************************************)
(* Stopping.                                                               *)
(***************************************************************************)

\* stopTalkingAndSend up to its wait for the recorder.
StopTalking ==
  /\ fromOrb' = FALSE /\ want' = FALSE
  /\ Hushed
  /\ IF stopping \/ ~IsRecording
     THEN UNCHANGED <<stopping, mic, calls>>
     ELSE stopping' = TRUE /\ Drains("send")
  /\ UNCHANGED <<voiced, nudged, nudge, replyDue>>

\* dropRecording: on silence only; what it holds is thrown away.
DropRecording(w) ==
  /\ want' = FALSE
  /\ Hushed
  /\ UNCHANGED <<voiced, stopping, replyDue, presses>>
  /\ IF IsRecording
     THEN Drains(w) /\ UNCHANGED nudge
     ELSE nudge' = (nudge \/ w = "nudge") /\ UNCHANGED <<mic, calls>>

\* The recorder has been drained: onstop's finally, then what waited for it.
Drained(w) ==
  /\ draining[w] > 0
  /\ draining' = [draining EXCEPT ![w] = @ - 1]
  /\ Released
  /\ stopping' = (stopping /\ w # "send")
  /\ nudge' = (nudge \/ w = "nudge")
  /\ IF w = "send"
     THEN \E words \in BOOLEAN : replyDue' = (replyDue \/ words)   \* transcribed, then sendMessage
     ELSE UNCHANGED replyDue
  /\ UNCHANGED <<want, voiced, fromOrb, nudged, light, opening, opens, presses>>

\* Two minutes.
CapFires ==
  /\ cap
  /\ IF want
     THEN StopTalking
     ELSE cap' = FALSE /\ UNCHANGED <<want, voiced, fromOrb, nudged, stopping, nudge, replyDue,
                                      ring, silence, mic, calls>>
  /\ UNCHANGED presses

\* Nothing was said: fren speaks up once, and then gives up.
SilenceFires ==
  /\ silence
  /\ IF ~want \/ voiced
     THEN /\ silence' = FALSE
          /\ UNCHANGED <<want, voiced, fromOrb, nudged, stopping, nudge, replyDue,
                         ring, cap, mic, calls, presses>>
     ELSE IF nudged
          THEN fromOrb' = FALSE /\ UNCHANGED nudged /\ DropRecording("giveUp")
          ELSE nudged' = TRUE /\ UNCHANGED fromOrb /\ DropRecording("nudge")

\* "I'm listening." has been said: the microphone is picked straight back up.
NudgeSaid ==
  /\ nudge /\ nudge' = FALSE
  /\ IF fromOrb
     THEN StartTalking("nudge", TRUE)
     ELSE UNCHANGED <<want, voiced, fromOrb, light, mic, calls>>
  /\ UNCHANGED <<nudged, stopping, replyDue, presses>>

(***************************************************************************)
(* The person, and the conversation as the recording sees it.              *)
(***************************************************************************)

PressCounted == presses < MaxPresses /\ presses' = presses + 1

\* toggleRecording, on a click of the orb.
Click ==
  /\ PressCounted
  /\ IF fromOrb
     THEN StopTalking
     ELSE /\ nudged' = FALSE
          /\ StartTalking("orb", TRUE)
          /\ UNCHANGED <<stopping, nudge, replyDue>>

\* The panel's microphone button, held or with a key.
ButtonDown ==
  /\ PressCounted
  /\ StartTalking("button", fromOrb)
  /\ UNCHANGED <<nudged, stopping, nudge, replyDue>>

ButtonUp == PressCounted /\ StopTalking

\* A typed message is being answered; an answer is out, or can be cut short.
AskSent ==
  /\ ~replyDue /\ replyDue' = TRUE
  /\ UNCHANGED <<want, voiced, fromOrb, nudged, stopping, nudge, light, mic, calls, presses>>
Answered ==
  /\ replyDue /\ replyDue' = FALSE
  /\ UNCHANGED <<want, voiced, fromOrb, nudged, stopping, nudge, light, mic, calls, presses>>

RecNext ==
  \/ \E o \in opening : MicOpens(o)
  \/ \E o \in opening : MicRefused(o)
  \/ MeterFrame
  \/ \E w \in Waiters : Drained(w)
  \/ CapFires \/ SilenceFires \/ NudgeSaid
  \/ Click \/ ButtonDown \/ ButtonUp
  \/ AskSent \/ Answered

RecSpec == RecInit /\ [][RecNext]_recVars

(***************************************************************************)
(* Properties                                                              *)
(***************************************************************************)

\* The ring never says the microphone is open after the person (or the cap, or
\* the silence) has closed it, whichever reading of the meter is still on its way.
RingIsWanted == ring => want

\* The orb holds a recording only while there is one, one is being opened, or
\* fren is about to pick it up again: otherwise the next click would be spent on
\* stopping nothing.
OrbHoldsSomething ==
  fromOrb => want \/ nudge \/ draining["nudge"] > 0

\* What listening() says of the ring ("leave it lit over a shut one"): it is lit
\* only over a recorder that records.
RingMeansMic == ring => IsRecording

\* What releaseStream says ("Called after EVERY recording"): with nothing wanted,
\* nothing being opened and nothing being drained, no track is left open.
MicIsGivenBack ==
  ~want /\ opening = {} /\ (\A w \in Waiters : draining[w] = 0) /\ micRecorder = "none" => liveStreams = {}
=============================================================================
