------------------------------ MODULE TalkProofs ------------------------------
(***************************************************************************)
(* What is proved of talking with fren, for every value of the constants:  *)
(* what listens is wanted, a conversation lets go of what it holds, and    *)
(* what is said and shown is so. The parts keep no variable in common, so  *)
(* each has an invariant of its own, and a step of the whole is a step of  *)
(* one part or of none.                                                    *)
(***************************************************************************)
EXTENDS MCTalk, FiniteSetTheorems, WellFoundedInduction, TLAPS

(***************************************************************************)
(* Recording: the ring and the orb                                         *)
(***************************************************************************)
RecFlags == {want, ring, voiced, fromOrb, nudged, cap, silence, stopping, nudge, replyDue, meter} \subseteq BOOLEAN
RecMic ==
  /\ stream \in 0..MaxOpens /\ liveStreams \subseteq 1..MaxOpens
  /\ micRecorder \in {"none", "recording", "inactive"}
RecCalls ==
  /\ opening \subseteq [id : 1..MaxOpens, by : Askers]
  /\ draining \in [Waiters -> Nat]
  /\ opens \in 0..MaxOpens
RecInv ==
  /\ RecFlags /\ RecMic /\ RecCalls /\ presses \in 0..MaxPresses
  /\ RingIsWanted /\ OrbHoldsSomething

LEMMA RecFollows == RecInv => RecTypeOK
  BY Zenon DEF RecInv, RecTypeOK, RecFlags, RecMic, RecCalls

LEMMA RecStarts == RecInit => RecInv
<1> SUFFICES ASSUME RecInit PROVE RecInv
  OBVIOUS
<1>1. RecFlags
  BY DEF RecInit, RecFlags
<1>2. RecMic /\ RecCalls /\ presses \in 0..MaxPresses /\ RingIsWanted /\ OrbHoldsSomething
  BY RecordingBounds DEF RecInit, RecMic, RecCalls, Waiters, RingIsWanted, OrbHoldsSomething
<1> QED
  BY <1>1, <1>2, Zenon DEF RecInv

(* What each helper of the recording does to the flags, the mic and the    *)
(* calls.                                                                  *)
OpenFlags == {ring, cap, silence, fromOrb, meter} \subseteq BOOLEAN

LEMMA OpenedKeeps ==
  ASSUME RecInv, NEW s \in 1..MaxOpens, NEW by \in Askers, NEW orb \in BOOLEAN, Opened(s, by, orb), want' \in BOOLEAN
  PROVE  /\ OpenFlags' /\ RecMic'
         /\ ring' => want'
         /\ ~want' => (fromOrb' => orb /\ by = "button")
<1>1. {ring, cap, silence, fromOrb, meter} \subseteq BOOLEAN /\ micRecorder \in {"none", "recording", "inactive"}
  BY Zenon DEF RecInv, RecFlags, RecMic
<1>2. CASE want'
  <2>1. ring' = (ring \/ ~IsRecording) /\ meter' = (meter \/ ~IsRecording) /\ cap' = TRUE /\ silence' = (silence \/ orb)
        /\ fromOrb' = orb
    BY <1>2, Zenon DEF Opened
  <2>2. OpenFlags'
    BY <2>1, Zenon DEF OpenFlags
  <2>3. RecMic'
    <3>1. stream' = s /\ liveStreams' = liveStreams \union {s} /\ micRecorder' = "recording"
      BY <1>2, Zenon DEF Opened
    <3> QED
      BY <3>1, RecordingBounds DEF RecInv, RecMic
  <2> QED
    BY <1>2, <2>2, <2>3, Zenon
<1>3. CASE ~want'
  <2>1. ring' = FALSE /\ meter' = FALSE /\ cap' = FALSE /\ silence' = FALSE /\ fromOrb' = (orb /\ by = "button")
    BY <1>3, Zenon DEF Opened, Hushed
  <2>2. OpenFlags'
    BY <2>1, Zenon DEF OpenFlags
  <2>3. RecMic'
    <3>1. liveStreams' = liveStreams \ {s} /\ stream' = 0 /\ micRecorder' = "none"
      BY <1>3, Zenon DEF Opened
    <3> QED
      BY <3>1, RecordingBounds DEF RecInv, RecMic
  <2> QED
    BY <2>1, <2>2, <2>3, Zenon
<1> QED
  BY <1>2, <1>3

LEMMA StartKeeps ==
  ASSUME RecInv, NEW by \in Askers, NEW orb \in BOOLEAN, StartTalking(by, orb)
  PROVE  /\ {want, voiced}' \subseteq BOOLEAN /\ OpenFlags' /\ RecMic' /\ RecCalls'
         /\ ring' => want'
         /\ ~want' => want' = want /\ (fromOrb' => orb /\ by = "button")
         /\ draining' = draining
<1>1. {want, voiced, ring, cap, silence, fromOrb, meter} \subseteq BOOLEAN
  BY Zenon DEF RecInv, RecFlags
<1>2. CASE replyDue
  <2>1. fromOrb' = (orb /\ (by = "button" \/ want)) /\ UNCHANGED <<want, voiced, light, mic, calls>>
    BY <1>2, Zenon DEF StartTalking
  <2>2. {want, voiced}' \subseteq BOOLEAN /\ OpenFlags'
    BY <1>1, <2>1, Zenon DEF OpenFlags, light, mic
  <2>3. RecMic' /\ RecCalls'
    BY <2>1 DEF RecInv, RecMic, RecCalls, mic, calls
  <2>4. ring' => want'
    BY <2>1, Zenon DEF light, RecInv, RingIsWanted
  <2> QED
    BY <2>1, <2>2, <2>3, <2>4, Zenon DEF calls
<1>3. CASE ~replyDue /\ StreamIsLive
  <2>1. want' = TRUE /\ voiced' = FALSE /\ Opened(stream, by, orb) /\ UNCHANGED calls
    BY <1>3, Zenon DEF StartTalking
  <2>2. stream \in 1..MaxOpens
    BY <1>3, RecordingBounds DEF StreamIsLive, RecInv, RecMic
  <2>3. want' \in BOOLEAN
    BY <2>1
  <2>4. OpenFlags' /\ RecMic'
    BY <2>1, <2>2, <2>3, OpenedKeeps
  <2>5. RecCalls'
    BY <2>1 DEF RecInv, RecCalls, calls
  <2> QED
    BY <2>1, <2>4, <2>5, Zenon DEF calls
<1>4. CASE ~replyDue /\ ~StreamIsLive
  <2>1. /\ want' = TRUE /\ voiced' = FALSE /\ opens < MaxOpens /\ opens' = opens + 1
        /\ opening' = opening \union {[id |-> opens + 1, by |-> by]}
        /\ stream' = 0 /\ meter' = FALSE /\ fromOrb' = orb
        /\ UNCHANGED <<light, liveStreams, micRecorder, draining>>
    BY <1>4, Zenon DEF StartTalking
  <2>2. OpenFlags' /\ {want, voiced}' \subseteq BOOLEAN
    BY <1>1, <2>1, Zenon DEF OpenFlags, light
  <2>3. RecMic' /\ RecCalls'
    BY <2>1, RecordingBounds DEF RecInv, RecMic, RecCalls
  <2> QED
    BY <2>1, <2>2, <2>3, Zenon
<1> QED
  BY <1>2, <1>3, <1>4

LEMMA DrainsKeeps ==
  ASSUME RecInv, NEW w \in Waiters, (UNCHANGED <<mic, calls>>) \/ Drains(w)
  PROVE  RecMic' /\ RecCalls'
<1>1. RecMic /\ RecCalls
  BY Zenon DEF RecInv
<1>2. CASE UNCHANGED <<mic, calls>>
  BY <1>1, <1>2, Zenon DEF RecMic, RecCalls, mic, calls
<1>3. CASE Drains(w)
  <2>1. micRecorder' = "inactive" /\ UNCHANGED <<stream, liveStreams, opening, opens>>
        /\ draining' = [draining EXCEPT ![w] = @ + 1]
    BY <1>3, Zenon DEF Drains
  <2> QED
    BY <1>1, <2>1 DEF RecMic, RecCalls
<1> QED
  BY <1>2, <1>3

LEMMA StopKeeps ==
  ASSUME RecInv, StopTalking
  PROVE  /\ RecFlags' /\ RecMic' /\ RecCalls' /\ RingIsWanted' /\ OrbHoldsSomething'
<1>1. RecFlags'
  <2>1. {want, ring, voiced, fromOrb, nudged, cap, silence, nudge, replyDue}' \subseteq BOOLEAN
    BY Zenon DEF RecInv, RecFlags, StopTalking, Hushed
  <2>2. {stopping, meter}' \subseteq BOOLEAN
    BY Zenon DEF RecInv, RecFlags, StopTalking, Drains, mic
  <2> QED
    BY <2>1, <2>2, Zenon DEF RecFlags
<1>2. RecMic' /\ RecCalls'
  <2>1. (UNCHANGED <<mic, calls>>) \/ Drains("send")
    BY Zenon DEF StopTalking
  <2> QED
    BY <2>1, DrainsKeeps, Zenon DEF Waiters
<1> QED
  BY <1>1, <1>2, Zenon DEF StopTalking, Hushed, RingIsWanted, OrbHoldsSomething

LEMMA DropKeeps ==
  ASSUME RecInv, NEW w \in Waiters, DropRecording(w), fromOrb' \in BOOLEAN, nudged' \in BOOLEAN,
         fromOrb' => w = "nudge"
  PROVE  /\ RecFlags' /\ RecMic' /\ RecCalls' /\ RingIsWanted' /\ OrbHoldsSomething'
<1>1. RecFlags'
  <2>1. {want, ring, voiced, fromOrb, nudged, cap, silence, stopping, replyDue}' \subseteq BOOLEAN
    BY Zenon DEF RecInv, RecFlags, DropRecording, Hushed
  <2>2. {nudge, meter}' \subseteq BOOLEAN
    BY Zenon DEF RecInv, RecFlags, DropRecording, Drains, mic
  <2> QED
    BY <2>1, <2>2, Zenon DEF RecFlags
<1>2. RecMic' /\ RecCalls'
  <2>1. (UNCHANGED <<mic, calls>>) \/ Drains(w)
    BY Zenon DEF DropRecording
  <2> QED
    BY <2>1, DrainsKeeps, Zenon
<1>3. RingIsWanted'
  BY DEF DropRecording, Hushed, RingIsWanted
<1>4. OrbHoldsSomething'
  <2>1. CASE IsRecording
    <3>1. draining' = [draining EXCEPT ![w] = @ + 1] /\ draining \in [Waiters -> Nat]
      BY <2>1, Zenon DEF DropRecording, Drains, RecInv, RecCalls
    <3>2. w = "nudge" => draining'["nudge"] > 0
      BY <3>1
    <3> QED
      BY <3>2 DEF OrbHoldsSomething
  <2>2. CASE ~IsRecording
    BY <2>2, Zenon DEF DropRecording, OrbHoldsSomething
  <2> QED
    BY <2>1, <2>2
<1> QED
  BY <1>1, <1>2, <1>3, <1>4

LEMMA DrainedKeeps ==
  ASSUME RecInv, NEW w \in Waiters, Drained(w) PROVE RecInv'
<1>1. RecFlags'
  <2>1. {want, ring, voiced, fromOrb, nudged, cap, silence, meter}' \subseteq BOOLEAN
    BY Zenon DEF RecInv, RecFlags, Drained, Released, light
  <2>2. {stopping, nudge, replyDue}' \subseteq BOOLEAN
    BY Zenon DEF RecInv, RecFlags, Drained
  <2> QED
    BY <2>1, <2>2, Zenon DEF RecFlags
<1>2. RecMic'
  BY RecordingBounds DEF RecInv, RecMic, Drained, Released
<1>3. draining' = [draining EXCEPT ![w] = @ - 1] /\ draining \in [Waiters -> Nat] /\ draining[w] > 0
  BY Zenon DEF Drained, RecInv, RecCalls
<1>4. RecCalls'
  BY <1>3 DEF RecInv, RecCalls, Drained
<1>5. w # "nudge" => draining'["nudge"] = draining["nudge"]
  BY <1>3 DEF Waiters
<1>6. OrbHoldsSomething'
  BY <1>5, Zenon DEF OrbHoldsSomething, RecInv, Drained
<1>7. RingIsWanted' /\ presses' \in 0..MaxPresses
  BY Zenon DEF RingIsWanted, RecInv, Drained, light
<1> QED
  BY <1>1, <1>2, <1>4, <1>6, <1>7, Zenon DEF RecInv

LEMMA OpeningKeeps ==
  ASSUME RecInv, NEW o \in opening, MicOpens(o) \/ MicRefused(o) PROVE RecInv'
<1>1. o \in [id : 1..MaxOpens, by : Askers]
  BY Zenon DEF RecInv, RecCalls
<1>2. o.id \in 1..MaxOpens /\ o.by \in Askers
  BY <1>1
<1>3. CASE MicOpens(o)
  <2>1. want' = want /\ want \in BOOLEAN /\ fromOrb \in BOOLEAN /\ Opened(o.id, o.by, fromOrb)
    BY <1>3, Zenon DEF MicOpens, RecInv, RecFlags
  <2>2. OpenFlags' /\ RecMic' /\ (ring' => want') /\ (~want' => (fromOrb' => fromOrb))
    BY <1>2, <2>1, OpenedKeeps, Zenon
  <2>3. RecFlags'
    BY <1>3, <2>2, Zenon DEF MicOpens, RecInv, RecFlags, OpenFlags
  <2>4. RecCalls' /\ presses' \in 0..MaxPresses
    BY <1>3 DEF MicOpens, RecInv, RecCalls
  <2>5. OrbHoldsSomething'
    <3>1. nudge' = nudge /\ draining' = draining
      BY <1>3, Zenon DEF MicOpens
    <3> QED
      BY <2>1, <2>2, <3>1, Zenon DEF RecInv, OrbHoldsSomething
  <2> QED
    BY <2>2, <2>3, <2>4, <2>5, Zenon DEF RecInv, RingIsWanted
<1>4. CASE MicRefused(o)
  <2>1. RecFlags'
    BY <1>4, Zenon DEF MicRefused, RecInv, RecFlags, Hushed, mic
  <2>2. RecMic' /\ RecCalls' /\ presses' \in 0..MaxPresses
    BY <1>4 DEF MicRefused, RecInv, RecMic, RecCalls, mic
  <2>3. OrbHoldsSomething' /\ RingIsWanted'
    BY <1>4, Zenon DEF MicRefused, RecInv, OrbHoldsSomething, RingIsWanted, Hushed
  <2> QED
    BY <2>1, <2>2, <2>3, Zenon DEF RecInv
<1> QED
  BY <1>3, <1>4

LEMMA StartedKeeps ==
  ASSUME RecInv, NEW by \in Askers, NEW orb \in BOOLEAN, StartTalking(by, orb),
         by = "button" => orb = fromOrb, nudged' \in BOOLEAN, nudge' \in BOOLEAN, UNCHANGED <<stopping, replyDue>>,
         by = "button" => nudge' = nudge, presses' \in 0..MaxPresses
  PROVE  RecInv'
<1>1. RecFlags'
  <2>1. {want, voiced}' \subseteq BOOLEAN /\ {ring, cap, silence, fromOrb, meter}' \subseteq BOOLEAN
    BY StartKeeps, Zenon DEF OpenFlags
  <2>2. {stopping, replyDue}' \subseteq BOOLEAN
    BY Zenon DEF RecInv, RecFlags
  <2> QED
    BY <2>1, <2>2, Zenon DEF RecFlags
<1>2. OrbHoldsSomething'
  BY StartKeeps, Zenon DEF OrbHoldsSomething, RecInv
<1> QED
  BY <1>1, <1>2, StartKeeps, Zenon DEF RecInv, RingIsWanted

LEMMA SilenceKeeps == ASSUME RecInv, SilenceFires PROVE RecInv'
<1>1. {fromOrb, nudged} \subseteq BOOLEAN
  BY Zenon DEF RecInv, RecFlags
<1>2. CASE ~want \/ voiced
  <2>1. RecFlags'
    BY <1>2, Zenon DEF SilenceFires, RecInv, RecFlags, mic
  <2>2. RecMic' /\ RecCalls' /\ presses' \in 0..MaxPresses
    BY <1>2 DEF SilenceFires, RecInv, RecMic, RecCalls, mic, calls
  <2>3. OrbHoldsSomething' /\ RingIsWanted'
    BY <1>2, Zenon DEF SilenceFires, RecInv, OrbHoldsSomething, RingIsWanted, calls
  <2> QED
    BY <2>1, <2>2, <2>3, Zenon DEF RecInv
<1>3. CASE ~(~want \/ voiced) /\ nudged
  <2>1. fromOrb' = FALSE /\ nudged' = nudged /\ DropRecording("giveUp") /\ "giveUp" \in Waiters
    BY <1>3, Zenon DEF SilenceFires, Waiters
  <2>2. fromOrb' \in BOOLEAN /\ nudged' \in BOOLEAN
    BY <1>1, <2>1, Zenon
  <2> QED
    BY <2>1, <2>2, DropKeeps, Zenon DEF RecInv, DropRecording
<1>4. CASE ~(~want \/ voiced) /\ ~nudged
  <2>1. nudged' = TRUE /\ fromOrb' = fromOrb /\ DropRecording("nudge") /\ "nudge" \in Waiters
    BY <1>4, Zenon DEF SilenceFires, Waiters
  <2>2. fromOrb' \in BOOLEAN /\ nudged' \in BOOLEAN
    BY <1>1, <2>1, Zenon
  <2> QED
    BY <2>1, <2>2, DropKeeps, Zenon DEF RecInv, DropRecording
<1> QED
  BY <1>2, <1>3, <1>4

LEMMA RecKeeps == RecInv /\ RecNext => RecInv'
<1> SUFFICES ASSUME RecInv, RecNext PROVE RecInv'
  OBVIOUS
<1>0. {want, ring, voiced, fromOrb, nudged, cap, silence, stopping, nudge, replyDue, meter} \subseteq BOOLEAN
  BY Zenon DEF RecInv, RecFlags
<1>1. CASE MeterFrame \/ AskSent \/ Answered
  <2>1. RecFlags'
    BY <1>0, <1>1, Zenon DEF RecFlags, MeterFrame, AskSent, Answered, light, mic
  <2>2. RecMic' /\ RecCalls' /\ presses' \in 0..MaxPresses
    BY <1>1 DEF RecInv, RecMic, RecCalls, MeterFrame, AskSent, Answered, mic, calls
  <2>3. OrbHoldsSomething' /\ RingIsWanted'
    <3>1. /\ want' = want /\ fromOrb' = fromOrb /\ nudge' = nudge /\ draining' = draining
          /\ ring' = ring \/ want
      BY <1>1, Zenon DEF MeterFrame, AskSent, Answered, light, calls
    <3>2. OrbHoldsSomething'
      BY <3>1, Zenon DEF RecInv, OrbHoldsSomething
    <3>3. ring' => want'
      BY <3>1, Zenon DEF RecInv, RingIsWanted
    <3> QED
      BY <3>2, <3>3, Zenon DEF RingIsWanted
  <2> QED
    BY <2>1, <2>2, <2>3, Zenon DEF RecInv
<1>2. CASE CapFires
  <2>1. CASE want
    BY <1>2, <2>1, StopKeeps, Zenon DEF CapFires, RecInv
  <2>2. CASE ~want
    <3>1. RecFlags'
      BY <1>0, <1>2, <2>2, Zenon DEF RecFlags, CapFires, mic
    <3>2. RecMic' /\ RecCalls' /\ presses' \in 0..MaxPresses
      BY <1>2, <2>2 DEF RecInv, RecMic, RecCalls, CapFires, mic, calls
    <3>3. OrbHoldsSomething' /\ RingIsWanted'
      BY <1>2, <2>2, Zenon DEF RecInv, OrbHoldsSomething, RingIsWanted, CapFires, calls
    <3> QED
      BY <3>1, <3>2, <3>3, Zenon DEF RecInv
  <2> QED
    BY <2>1, <2>2
<1>3. CASE NudgeSaid
  <2>1. CASE fromOrb
    <3>1. /\ StartTalking("nudge", TRUE) /\ nudge' = FALSE /\ "nudge" \in Askers /\ "nudge" # "button"
          /\ UNCHANGED <<nudged, stopping, replyDue, presses>>
      BY <1>3, <2>1, Zenon DEF NudgeSaid, Askers
    <3>2. nudged' \in BOOLEAN /\ nudge' \in BOOLEAN /\ TRUE \in BOOLEAN /\ presses' \in 0..MaxPresses
      BY <1>0, <3>1, Zenon DEF RecInv
    <3> QED
      BY <3>1, <3>2, StartedKeeps, Zenon
  <2>2. CASE ~fromOrb
    <3>1. RecFlags'
      BY <1>0, <1>3, <2>2, Zenon DEF RecFlags, NudgeSaid, light, mic
    <3>2. RecMic' /\ RecCalls' /\ presses' \in 0..MaxPresses
      BY <1>3, <2>2 DEF RecInv, RecMic, RecCalls, NudgeSaid, mic, calls
    <3>3. OrbHoldsSomething' /\ RingIsWanted'
      BY <1>3, <2>2, Zenon DEF RecInv, OrbHoldsSomething, RingIsWanted, NudgeSaid, light
    <3> QED
      BY <3>1, <3>2, <3>3, Zenon DEF RecInv
  <2> QED
    BY <2>1, <2>2
<1>4. PressCounted => presses' \in 0..MaxPresses
  BY RecordingBounds DEF PressCounted, RecInv
<1>5. CASE Click
  <2>1. CASE fromOrb
    BY <1>4, <1>5, <2>1, StopKeeps, Zenon DEF Click, RecInv
  <2>2. CASE ~fromOrb
    <3>1. StartTalking("orb", TRUE) /\ nudged' = FALSE /\ UNCHANGED <<stopping, nudge, replyDue>> /\ "orb" \in Askers
      BY <1>5, <2>2, Zenon DEF Click, Askers
    <3>2. nudged' \in BOOLEAN /\ nudge' \in BOOLEAN /\ "orb" # "button" /\ presses' \in 0..MaxPresses
      BY <1>0, <1>4, <1>5, <3>1, Zenon DEF Click
    <3> QED
      BY <3>1, <3>2, StartedKeeps, Zenon
  <2> QED
    BY <2>1, <2>2
<1>6. CASE ButtonDown
  <2>1. StartTalking("button", fromOrb) /\ UNCHANGED <<nudged, stopping, nudge, replyDue>> /\ "button" \in Askers
    BY <1>6, Zenon DEF ButtonDown, Askers
  <2>2. nudged' \in BOOLEAN /\ nudge' \in BOOLEAN /\ presses' \in 0..MaxPresses /\ fromOrb \in BOOLEAN
    BY <1>0, <1>4, <1>6, <2>1, Zenon DEF ButtonDown
  <2> QED
    BY <2>1, <2>2, StartedKeeps, Zenon
<1>7. CASE ButtonUp
  BY <1>4, <1>7, StopKeeps, Zenon DEF ButtonUp, RecInv
<1> QED
  BY <1>1, <1>2, <1>3, <1>5, <1>6, <1>7, OpeningKeeps, DrainedKeeps, SilenceKeeps, Zenon DEF RecNext

LEMMA RecStays == RecInv /\ UNCHANGED recVars => RecInv'
<1> SUFFICES ASSUME RecInv, UNCHANGED recVars PROVE RecInv'
  OBVIOUS
<1>1. UNCHANGED <<want, ring, voiced, fromOrb, nudged, cap, silence, stopping, nudge, replyDue, meter>>
      /\ UNCHANGED <<stream, liveStreams, micRecorder, opening, draining, opens, presses>>
  BY Zenon DEF recVars, light, mic, calls
<1>2. RecFlags'
  BY <1>1, Zenon DEF RecInv, RecFlags
<1>3. RecMic' /\ RecCalls' /\ presses' \in 0..MaxPresses
  BY <1>1, Zenon DEF RecInv, RecMic, RecCalls
<1>4. RingIsWanted' /\ OrbHoldsSomething'
  BY <1>1, Zenon DEF RecInv, RingIsWanted, OrbHoldsSomething
<1> QED
  BY <1>2, <1>3, <1>4, Zenon DEF RecInv

(***************************************************************************)
(* The conversation                                                        *)
(***************************************************************************)
(* A message whose answer has not begun to be said, one nobody has been asked about. *)
Unanswered == {"unsaid", "next", "held", "deciding", "proposed", "asking"}
NobodyAsked == {"unsaid", "next", "held", "deciding"}
Unspoken(p, v) ==
  \A m \in Words : /\ p[m] \in Unanswered => v[Reply(m)] = "none"
                   /\ p[m] \in NobodyAsked => v[Asking(m)] = "none"
WaitsUnsaid(l, v) ==
  \A i \in DOMAIN l : v[l[i]] = "none" /\ \A j \in DOMAIN l : l[j] = l[i] => j = i
OpenVoices == {"fetching", "typing", "aloud"}

ConvInv ==
  /\ ConvTypeOK
  /\ proposal # NoOne => phase[proposal] = "proposed"
  /\ queued # NoOne => phase[queued] = "held"
  /\ Unspoken(phase, voice) /\ WaitsUnsaid(later, voice)
  /\ HeldHasATurn /\ LockHasATurn /\ FaceIsSomebodys /\ CutIsDelivered

(* What the flags may hold.                                                *)
FlagsOK == {awaiting, speaking, drains, recording} \subseteq BOOLEAN

(* Who speaks: two for each message, and the news.                         *)
LEMMA SpeakersAre ==
  /\ \A m \in Words : Reply(m) \in Speakers /\ Asking(m) \in Speakers /\ Reply(m) \notin News /\ Asking(m) \notin News
  /\ \A m, w \in Words : (Reply(m) = Reply(w) => m = w) /\ (Asking(m) = Asking(w) => m = w) /\ Reply(m) # Asking(w)
  /\ News \subseteq Speakers /\ NoOne \notin Speakers /\ NoOne \notin Words
<1>1. \A m \in Words : Reply(m) \in Words \X {"proposal", "reply"} /\ Asking(m) \in Words \X {"proposal", "reply"}
  BY SMT DEF Reply, Asking
<1>2. \A m, w \in Words : (Reply(m) = Reply(w) => m = w) /\ (Asking(m) = Asking(w) => m = w) /\ Reply(m) # Asking(w)
  BY SMT DEF Reply, Asking
<1>3. NoOne \notin Speakers
  BY <1>1, ConversationActors, Zenon DEF Speakers
<1> QED BY <1>1, <1>2, <1>3, ConversationActors, Zenon DEF Speakers

(* Nobody's voice changes: what is unsaid stays so, what is cut is still delivered. *)
LEMMA VoicesStay ==
  ASSUME ConvInv, UNCHANGED <<voice, cut, later>>,
         \A w \in Words : /\ phase'[w] \in Unanswered => phase[w] \in Unanswered
                          /\ phase'[w] \in NobodyAsked => phase[w] \in NobodyAsked
  PROVE  /\ Unspoken(phase', voice') /\ WaitsUnsaid(later', voice') /\ CutIsDelivered'
         /\ voice' \in [Speakers -> {"none", "fetching", "typing", "aloud", "over"}]
         /\ cut' \in Speakers \union {NoOne} /\ later' \in Seq(News)
BY Zenon DEF ConvInv, ConvTypeOK, Unspoken, WaitsUnsaid, CutIsDelivered

(* Somebody begins to speak who has not begun, or has ended.               *)
LEMMA VoiceBegins ==
  ASSUME ConvInv, NEW s \in Speakers, Speaks(s), voice[s] \in {"none", "over"}, UNCHANGED cut,
         \A w \in Words : /\ phase'[w] \in Unanswered => phase[w] \in Unanswered /\ s # Reply(w)
                          /\ phase'[w] \in NobodyAsked => phase[w] \in NobodyAsked /\ s # Asking(w)
  PROVE  /\ Unspoken(phase', voice') /\ CutIsDelivered'
         /\ voice' \in [Speakers -> {"none", "fetching", "typing", "aloud", "over"}]
         /\ cut' \in Speakers \union {NoOne}
         /\ quiet' \in {"none", "fetching", "aloud"}
         /\ voice'[s] = "fetching" /\ \A t \in Speakers \ {s} : voice'[t] = voice[t]
<1>1. voice \in [Speakers -> {"none", "fetching", "typing", "aloud", "over"}] /\ cut \in Speakers \union {NoOne}
      /\ quiet \in {"none", "fetching", "aloud"}
  BY Zenon DEF ConvInv, ConvTypeOK
<1>2. voice' = [voice EXCEPT ![s] = "fetching"] /\ quiet' = IF quiet = "aloud" THEN "none" ELSE quiet
  BY Zenon DEF Speaks
<1>3. /\ voice' \in [Speakers -> {"none", "fetching", "typing", "aloud", "over"}]
      /\ voice'[s] = "fetching" /\ \A t \in Speakers \ {s} : voice'[t] = voice[t]
  BY <1>1, <1>2, SMT
<1>4. Unspoken(phase', voice')
  <2> SUFFICES ASSUME NEW m \in Words
               PROVE  /\ phase'[m] \in Unanswered => voice'[Reply(m)] = "none"
                      /\ phase'[m] \in NobodyAsked => voice'[Asking(m)] = "none"
    BY Zenon DEF Unspoken
  <2>1. Reply(m) \in Speakers /\ Asking(m) \in Speakers
    BY SpeakersAre, Zenon
  <2> QED BY <2>1, <1>3, Zenon DEF ConvInv, Unspoken
<1>5. CutIsDelivered'
  <2>1. cut # NoOne => voice[cut] \in {"typing", "aloud"}
    BY Zenon DEF ConvInv, CutIsDelivered
  <2>2. cut' = cut /\ (cut # NoOne => cut # s)
    BY <2>1, Zenon
  <2> QED BY <2>1, <2>2, <1>1, <1>3, Zenon DEF CutIsDelivered
<1> QED BY <1>1, <1>2, <1>3, <1>4, <1>5, Zenon

(* One that speaks already goes on, or ends.                               *)
LEMMA VoiceGoesOn ==
  ASSUME ConvInv, NEW s \in Speakers, voice[s] \in OpenVoices, NEW how \in {"typing", "aloud", "over"},
         voice' = [voice EXCEPT ![s] = how], UNCHANGED later,
         (cut' = s /\ how # "over") \/ cut' = NoOne \/ (cut' = cut /\ how # "over"),
         \A w \in Words : /\ phase'[w] \in Unanswered => phase[w] \in Unanswered
                          /\ phase'[w] \in NobodyAsked => phase[w] \in NobodyAsked
  PROVE  /\ Unspoken(phase', voice') /\ CutIsDelivered' /\ WaitsUnsaid(later', voice')
         /\ voice' \in [Speakers -> {"none", "fetching", "typing", "aloud", "over"}]
         /\ cut' \in Speakers \union {NoOne} /\ later' \in Seq(News)
         /\ voice'[s] = how /\ \A t \in Speakers \ {s} : voice'[t] = voice[t]
<1>1. voice \in [Speakers -> {"none", "fetching", "typing", "aloud", "over"}] /\ cut \in Speakers \union {NoOne}
      /\ later \in Seq(News)
  BY Zenon DEF ConvInv, ConvTypeOK
<1>3. /\ voice' \in [Speakers -> {"none", "fetching", "typing", "aloud", "over"}]
      /\ voice'[s] = how /\ \A t \in Speakers \ {s} : voice'[t] = voice[t]
  BY <1>1, SMT
<1>n. voice[s] # "none"
  BY DEF OpenVoices
<1>4. Unspoken(phase', voice')
  <2> SUFFICES ASSUME NEW m \in Words
               PROVE  /\ phase'[m] \in Unanswered => voice'[Reply(m)] = "none"
                      /\ phase'[m] \in NobodyAsked => voice'[Asking(m)] = "none"
    BY Zenon DEF Unspoken
  <2>1. Reply(m) \in Speakers /\ Asking(m) \in Speakers
    BY SpeakersAre, Zenon
  <2> QED BY <2>1, <1>3, <1>n, Zenon DEF ConvInv, Unspoken
<1>5. CutIsDelivered'
  <2>1. cut # NoOne => voice[cut] \in {"typing", "aloud"}
    BY Zenon DEF ConvInv, CutIsDelivered
  <2>2. how # "over" => how \in {"typing", "aloud"}
    OBVIOUS
  <2> QED BY <2>1, <2>2, <1>1, <1>3, SpeakersAre, Zenon DEF CutIsDelivered
<1>6. WaitsUnsaid(later', voice')
  <2> SUFFICES ASSUME NEW i \in DOMAIN later
               PROVE  voice'[later[i]] = "none" /\ \A j \in DOMAIN later : later[j] = later[i] => j = i
    BY Zenon DEF WaitsUnsaid
  <2>1. voice[later[i]] = "none" /\ \A j \in DOMAIN later : later[j] = later[i] => j = i
    BY Zenon DEF ConvInv, WaitsUnsaid
  <2>2. later[i] \in News
    BY <1>1, SMT
  <2> QED BY <2>1, <2>2, <1>3, <1>n, SpeakersAre, Zenon
<1> QED BY <1>1, <1>3, <1>4, <1>5, <1>6, Zenon

(* What waits is as unsaid as it was, if nobody of it begins to speak.     *)
LEMMA LaterStays ==
  ASSUME ConvInv, UNCHANGED later, NEW s \in Speakers, s \notin News,
         \A t \in Speakers \ {s} : voice'[t] = voice[t]
  PROVE  WaitsUnsaid(later', voice') /\ later' \in Seq(News)
<1>1. later \in Seq(News)
  BY Zenon DEF ConvInv, ConvTypeOK
<1>2. \A i \in DOMAIN later : later[i] \in News
  BY <1>1, SMT
<1> QED BY <1>1, <1>2, SpeakersAre, Zenon DEF ConvInv, WaitsUnsaid

(* No turn ends: what hangs on one still does.                             *)
LEMMA TurnsGoOn ==
  ASSUME ConvInv, \A w \in Words : phase[w] \in Turn => phase'[w] \in Turn,
         queued' # NoOne => queued # NoOne \/ awaiting,
         awaiting' => awaiting \/ \E w \in Words : phase'[w] \in Turn,
         \A s \in Speakers : voice[s] \in OpenVoices => voice'[s] \in OpenVoices,
         speaking' => \/ speaking
                      \/ \E w \in Words : phase'[w] \in Turn
                      \/ \E s \in Speakers : voice'[s] \in OpenVoices
  PROVE  HeldHasATurn' /\ LockHasATurn' /\ FaceIsSomebodys'
<1>1. HeldHasATurn' /\ LockHasATurn'
  BY Zenon DEF ConvInv, HeldHasATurn, LockHasATurn
<1>2. FaceIsSomebodys'
  BY Zenon DEF ConvInv, FaceIsSomebodys, OpenVoices
<1> QED BY <1>1, <1>2, Zenon

(* A turn ends: it lets go of everything.                                  *)
LEMMA SettlesKeeps ==
  ASSUME ConvInv, NEW m \in Words, phase[m] \in Turn, Settles(m)
  PROVE  /\ HeldHasATurn' /\ LockHasATurn' /\ FaceIsSomebodys' /\ queued' = NoOne
         /\ phase' \in [Words -> Phases] /\ awaiting' \in BOOLEAN /\ speaking' \in BOOLEAN /\ drains' \in BOOLEAN
         /\ \A w \in Words : /\ phase'[w] \in Unanswered => phase[w] \in Unanswered
                             /\ phase'[w] \in NobodyAsked => phase[w] \in NobodyAsked
                             /\ phase[w] = "proposed" => phase'[w] = "proposed"
<1>1. /\ awaiting' = FALSE /\ speaking' = FALSE /\ drains' = TRUE /\ queued' = NoOne
      /\ phase' = [w \in Words |-> IF w = m THEN "done" ELSE IF w = queued THEN "next" ELSE phase[w]]
  BY Zenon DEF Settles
<1>2. HeldHasATurn' /\ LockHasATurn' /\ FaceIsSomebodys'
  BY <1>1, Zenon DEF HeldHasATurn, LockHasATurn, FaceIsSomebodys
<1>3. phase \in [Words -> Phases] /\ NoOne \notin Words /\ (queued # NoOne => phase[queued] = "held")
  BY SpeakersAre, Zenon DEF ConvInv, ConvTypeOK
<1>4. phase' \in [Words -> Phases]
  <2>1. \A w \in Words : (IF w = m THEN "done" ELSE IF w = queued THEN "next" ELSE phase[w]) \in Phases
    <3>1. "done" \in Phases /\ "next" \in Phases
      BY Zenon DEF Phases
    <3> QED BY <3>1, <1>3, Zenon
  <2> QED BY <1>1, <2>1, Zenon
<1>5. ASSUME NEW w \in Words
      PROVE  /\ phase'[w] \in Unanswered => phase[w] \in Unanswered
             /\ phase'[w] \in NobodyAsked => phase[w] \in NobodyAsked
             /\ phase[w] = "proposed" => phase'[w] = "proposed"
  <2>1. phase'[w] = IF w = m THEN "done" ELSE IF w = queued THEN "next" ELSE phase[w]
    BY <1>1, Zenon
  <2>2. w = queued => phase[w] = "held"
    BY <1>3, Zenon
  <2>3. phase[m] \in {"asking", "running", "closing", "answering"}
    BY Zenon DEF Turn
  <2> QED BY <2>1, <2>2, <2>3, SMT DEF Unanswered, NobodyAsked
<1> QED BY <1>1, <1>2, <1>4, <1>5, Zenon

(* Only one message moves.                                                 *)
LEMMA OneMoves ==
  ASSUME ConvInv, NEW m \in Words, NEW p \in Phases, Now(m, p)
  PROVE  /\ phase' \in [Words -> Phases] /\ phase'[m] = p
         /\ \A w \in Words \ {m} : phase'[w] = phase[w]
BY Zenon DEF ConvInv, ConvTypeOK, Now

(* Where a message can be is one of these.                                 *)
LEMMA PhasesAre ==
  /\ {"unsaid", "next", "held", "dropped", "deciding", "proposed", "telling", "done", "asking", "running",
      "closing", "answering"} = Phases
  /\ "asking" \in Turn /\ "running" \in Turn /\ "closing" \in Turn /\ "answering" \in Turn
BY SMT DEF Phases, Turn

LEMMA ConvStarts == ConvInit => ConvInv
<1> SUFFICES ASSUME ConvInit PROVE ConvInv
  OBVIOUS
<1>1. phase = [m \in Words |-> "unsaid"] /\ voice = [s \in Speakers |-> "none"] /\ later = <<>>
  BY Zenon DEF ConvInit
<1>2. awaiting = FALSE /\ speaking = FALSE /\ drains = FALSE /\ recording = FALSE
  BY Zenon DEF ConvInit
<1>3. queued = NoOne /\ proposal = NoOne /\ cut = NoOne /\ quiet = "none"
  BY Zenon DEF ConvInit
<1>4. phase \in [Words -> Phases] /\ voice \in [Speakers -> {"none", "fetching", "typing", "aloud", "over"}]
  BY <1>1, PhasesAre, Zenon
<1>5. later \in Seq(News) /\ DOMAIN later = {}
  BY <1>1, SMT
<1>6. FlagsOK
  BY <1>2, Zenon DEF FlagsOK
<1>7. ConvTypeOK
  BY <1>3, <1>4, <1>5, <1>6, Zenon DEF ConvTypeOK, FlagsOK
<1>8. Unspoken(phase, voice) /\ WaitsUnsaid(later, voice)
  BY <1>1, <1>5, SpeakersAre, Zenon DEF Unspoken, WaitsUnsaid
<1> QED BY <1>2, <1>3, <1>7, <1>8, Zenon DEF ConvInv, HeldHasATurn, LockHasATurn, FaceIsSomebodys, CutIsDelivered

LEMMA ConvStays == ConvInv /\ UNCHANGED talkVars => ConvInv'
<1> SUFFICES ASSUME ConvInv, UNCHANGED talkVars PROVE ConvInv'
  OBVIOUS
<1>1. /\ UNCHANGED <<phase, awaiting, speaking, queued, proposal>>
      /\ UNCHANGED <<voice, cut, later, drains, quiet, recording>>
  BY Zenon DEF talkVars
<1>2. ConvTypeOK'
  BY <1>1, Zenon DEF ConvInv, ConvTypeOK
<1>3. Unspoken(phase', voice') /\ WaitsUnsaid(later', voice')
  BY <1>1, Zenon DEF ConvInv
<1>4. HeldHasATurn' /\ LockHasATurn' /\ FaceIsSomebodys'
  BY <1>1, Zenon DEF ConvInv, HeldHasATurn, LockHasATurn, FaceIsSomebodys
<1>5. CutIsDelivered'
  BY <1>1, Zenon DEF ConvInv, CutIsDelivered
<1> QED BY <1>1, <1>2, <1>3, <1>4, <1>5, Zenon DEF ConvInv

(* A step of the person's messages that ends no turn and moves no voice.   *)
SentOn ==
  /\ phase' \in [Words -> Phases]
  /\ \A w \in Words : /\ phase'[w] \in Unanswered => phase[w] \in Unanswered
                      /\ phase'[w] \in NobodyAsked => phase[w] \in NobodyAsked
                      /\ phase[w] \in Turn => phase'[w] \in Turn
  /\ queued' \in Words \union {NoOne}
  /\ queued' # NoOne => phase'[queued'] = "held" /\ (queued # NoOne \/ awaiting)
  /\ awaiting' => awaiting \/ \E w \in Words : phase'[w] \in Turn
  /\ speaking' => speaking \/ \E w \in Words : phase'[w] \in Turn
  /\ awaiting' \in BOOLEAN /\ speaking' \in BOOLEAN

LEMMA SentOnKeeps ==
  ASSUME ConvInv, SentOn, UNCHANGED <<voice, cut, later, drains, quiet, recording>>,
         proposal' \in Words \union {NoOne}, proposal' # NoOne => phase'[proposal'] = "proposed"
  PROVE  ConvInv'
<1>1. /\ Unspoken(phase', voice') /\ WaitsUnsaid(later', voice') /\ CutIsDelivered'
      /\ voice' \in [Speakers -> {"none", "fetching", "typing", "aloud", "over"}]
      /\ cut' \in Speakers \union {NoOne} /\ later' \in Seq(News)
  BY VoicesStay, Zenon DEF SentOn
<1>2. \A s \in Speakers : voice[s] \in OpenVoices => voice'[s] \in OpenVoices
  BY Zenon
<1>3. HeldHasATurn' /\ LockHasATurn' /\ FaceIsSomebodys'
  <2>1. \A w \in Words : phase[w] \in Turn => phase'[w] \in Turn
    BY Zenon DEF SentOn
  <2>2. queued' # NoOne => queued # NoOne \/ awaiting
    BY Zenon DEF SentOn
  <2>3. awaiting' => awaiting \/ \E w \in Words : phase'[w] \in Turn
    BY Zenon DEF SentOn
  <2>4. speaking' => \/ speaking
                     \/ \E w \in Words : phase'[w] \in Turn
                     \/ \E s \in Speakers : voice'[s] \in OpenVoices
    BY Zenon DEF SentOn
  <2> QED BY <1>2, <2>1, <2>2, <2>3, <2>4, TurnsGoOn, Zenon
<1>4. ConvTypeOK'
  <2>1. {awaiting', speaking', drains', recording'} \subseteq BOOLEAN
    BY Zenon DEF ConvInv, ConvTypeOK, SentOn
  <2>2. quiet' \in {"none", "fetching", "aloud"}
    BY Zenon DEF ConvInv, ConvTypeOK
  <2> QED BY <1>1, <2>1, <2>2, Zenon DEF ConvTypeOK, SentOn
<1> QED BY <1>1, <1>3, <1>4, Zenon DEF ConvInv, SentOn

(* What `base' may differ in from where the messages are.                  *)
OnlyDone(base) ==
  /\ base \in [Words -> Phases]
  /\ \A w \in Words : base[w] = phase[w] \/ (base[w] = "done" /\ phase[w] \in {"unsaid", "next", "proposed"})

LEMMA AsksMoves ==
  ASSUME ConvInv, NEW m \in Words, NEW base, OnlyDone(base),
         phase[m] \in {"unsaid", "next", "deciding", "proposed"}, Asks(m, base)
  PROVE  SentOn
<1>1. phase' = [base EXCEPT ![m] = "asking"] /\ awaiting' = TRUE /\ speaking' = TRUE /\ queued' = queued
  BY Zenon DEF Asks
<1>2. base \in [Words -> Phases] /\ "asking" \in Phases
  BY PhasesAre, Zenon DEF OnlyDone
<1>3. phase' \in [Words -> Phases] /\ phase'[m] = "asking" /\ \A w \in Words \ {m} : phase'[w] = base[w]
  BY <1>1, <1>2, Zenon
<1>4. ASSUME NEW w \in Words
      PROVE  /\ phase'[w] \in Unanswered => phase[w] \in Unanswered
             /\ phase'[w] \in NobodyAsked => phase[w] \in NobodyAsked
             /\ phase[w] \in Turn => phase'[w] \in Turn
             /\ phase[w] = "held" => phase'[w] = "held"
  <2>1. CASE w = m
    BY <2>1, <1>3, SMT DEF Unanswered, NobodyAsked, Turn
  <2>2. CASE w # m
    <3>1. phase'[w] = base[w]
      BY <2>2, <1>3, Zenon
    <3>2. base[w] = phase[w] \/ (base[w] = "done" /\ phase[w] \in {"unsaid", "next", "proposed"})
      BY Zenon DEF OnlyDone
    <3> QED BY <3>1, <3>2, SMT DEF Unanswered, NobodyAsked, Turn
  <2> QED BY <2>1, <2>2, Zenon
<1>5. queued \in Words \union {NoOne} /\ (queued # NoOne => phase[queued] = "held")
  BY Zenon DEF ConvInv, ConvTypeOK
<1>6. phase'[m] \in Turn
  BY <1>3, PhasesAre, Zenon
<1> QED BY <1>1, <1>3, <1>4, <1>5, <1>6, Zenon DEF SentOn

LEMMA TakesMoves ==
  ASSUME ConvInv, NEW m \in Words, NEW base, OnlyDone(base), phase[m] \in {"unsaid", "next"}, Takes(m, base)
  PROVE  SentOn
<1>0. /\ base \in [Words -> Phases] /\ {"held", "dropped", "deciding"} \subseteq Phases
      /\ \A w \in Words : base[w] = phase[w] \/ (base[w] = "done" /\ phase[w] \in {"unsaid", "next", "proposed"})
  BY PhasesAre, Zenon DEF OnlyDone
<1>5. queued \in Words \union {NoOne} /\ (queued # NoOne => phase[queued] = "held")
  BY Zenon DEF ConvInv, ConvTypeOK
<1>b. awaiting \in BOOLEAN /\ speaking \in BOOLEAN
  BY Zenon DEF ConvInv, ConvTypeOK
<1>1. CASE awaiting
  <2>1. /\ queued' = m /\ awaiting' = awaiting /\ speaking' = speaking
        /\ phase' = [w \in Words |-> IF w = m THEN "held" ELSE IF w = queued THEN "dropped" ELSE base[w]]
    BY <1>1, Zenon DEF Takes
  <2>2. phase' \in [Words -> Phases] /\ phase'[m] = "held"
    BY <2>1, <1>0, Zenon
  <2>3. ASSUME NEW w \in Words
        PROVE  /\ phase'[w] \in Unanswered => phase[w] \in Unanswered
               /\ phase'[w] \in NobodyAsked => phase[w] \in NobodyAsked
               /\ phase[w] \in Turn => phase'[w] \in Turn
    <3>1. phase'[w] = IF w = m THEN "held" ELSE IF w = queued THEN "dropped" ELSE base[w]
      BY <2>1, Zenon
    <3>2. w = queued => phase[w] = "held"
      BY <1>5, SpeakersAre, Zenon
    <3>3. base[w] = phase[w] \/ (base[w] = "done" /\ phase[w] \in {"unsaid", "next", "proposed"})
      BY <1>0, Zenon
    <3>4. w = m => phase[w] \in {"unsaid", "next"}
      OBVIOUS
    <3> QED BY <3>1, <3>2, <3>3, <3>4, SMT DEF Unanswered, NobodyAsked, Turn
  <2> QED BY <1>1, <1>b, <2>1, <2>2, <2>3, Zenon DEF SentOn
<1>2. CASE ~awaiting /\ Asks(m, base)
  BY <1>2, AsksMoves
<1>3. CASE ~awaiting /\ ~Asks(m, base)
  <2>1. phase' = [base EXCEPT ![m] = "deciding"] /\ awaiting' = awaiting /\ speaking' = speaking /\ queued' = queued
    BY <1>3, Zenon DEF Takes
  <2>2. phase' \in [Words -> Phases] /\ phase'[m] = "deciding" /\ \A w \in Words \ {m} : phase'[w] = base[w]
    BY <2>1, <1>0, Zenon
  <2>3. ASSUME NEW w \in Words
        PROVE  /\ phase'[w] \in Unanswered => phase[w] \in Unanswered
               /\ phase'[w] \in NobodyAsked => phase[w] \in NobodyAsked
               /\ phase[w] \in Turn => phase'[w] \in Turn
               /\ phase[w] = "held" => phase'[w] = "held"
    <3>1. CASE w = m
      BY <3>1, <2>2, SMT DEF Unanswered, NobodyAsked, Turn
    <3>2. CASE w # m
      <4>1. phase'[w] = base[w]
        BY <3>2, <2>2, Zenon
      <4>2. base[w] = phase[w] \/ (base[w] = "done" /\ phase[w] \in {"unsaid", "next", "proposed"})
        BY <1>0, Zenon
      <4> QED BY <4>1, <4>2, SMT DEF Unanswered, NobodyAsked, Turn
    <3> QED BY <3>1, <3>2, Zenon
  <2> QED BY <1>5, <1>b, <2>1, <2>2, <2>3, Zenon DEF SentOn
<1> QED BY <1>1, <1>2, <1>3, Zenon

(* One message moves that is no turn and is not held.                      *)
LEMMA OneSentOn ==
  ASSUME ConvInv, NEW m \in Words, NEW p \in Phases, Now(m, p), UNCHANGED <<awaiting, speaking, queued>>,
         phase[m] \in Turn => p \in Turn, phase[m] # "held", p \notin NobodyAsked, p \in Unanswered => phase[m] \in Unanswered
  PROVE  SentOn
<1>1. /\ phase' \in [Words -> Phases] /\ phase'[m] = p
      /\ \A w \in Words \ {m} : phase'[w] = phase[w]
  BY OneMoves, Zenon
<1>2. queued \in Words \union {NoOne} /\ (queued # NoOne => phase[queued] = "held")
  BY Zenon DEF ConvInv, ConvTypeOK
<1>3. awaiting \in BOOLEAN /\ speaking \in BOOLEAN
  BY Zenon DEF ConvInv, ConvTypeOK
<1> QED BY <1>1, <1>2, <1>3, Zenon DEF SentOn

LEMMA SaysKeeps ==
  ASSUME ConvInv, NEW m \in Words, Says(m)
  PROVE  ConvInv'
<1>0. /\ phase[m] \in {"unsaid", "next"} /\ UNCHANGED <<voice, cut, later, drains, quiet, recording>>
      /\ phase \in [Words -> Phases] /\ NoOne \notin Words
      /\ proposal \in Words \union {NoOne} /\ (proposal # NoOne => phase[proposal] = "proposed")
  BY SpeakersAre, Zenon DEF Says, ConvInv, ConvTypeOK
<1>d. "done" \in Phases /\ "telling" \in Phases
  BY PhasesAre, Zenon
<1>1. CASE proposal = NoOne /\ Takes(m, phase) /\ UNCHANGED proposal
  <2>1. OnlyDone(phase)
    BY <1>0, Zenon DEF OnlyDone
  <2>2. SentOn
    BY <1>0, <1>1, <2>1, TakesMoves, Zenon
  <2> QED BY <1>0, <1>1, <2>2, SentOnKeeps, Zenon
<1>2. ASSUME proposal # NoOne, proposal' = NoOne, NEW then \in {"telling", "done"},
             phase' = [phase EXCEPT ![proposal] = then, ![m] = "done"], UNCHANGED <<awaiting, speaking, queued>>
      PROVE  ConvInv'
  <2>1. PICK p \in Words : p = proposal /\ phase[p] = "proposed"
    BY <1>0, <1>2, Zenon
  <2>2. phase' \in [Words -> Phases]
    BY <1>0, <1>2, <1>d, <2>1, Zenon
  <2>3. \A w \in Words : phase'[w] = IF w = m THEN "done" ELSE IF w = p THEN then ELSE phase[w]
    BY <1>0, <1>2, <2>1, SMT
  <2>4. ASSUME NEW w \in Words
        PROVE  /\ phase'[w] \in Unanswered => phase[w] \in Unanswered
               /\ phase'[w] \in NobodyAsked => phase[w] \in NobodyAsked
               /\ phase[w] \in Turn => phase'[w] \in Turn
               /\ phase[w] = "held" => phase'[w] = "held"
    <3>1. phase'[w] = IF w = m THEN "done" ELSE IF w = p THEN then ELSE phase[w]
      BY <2>3, Zenon
    <3> QED BY <3>1, <1>0, <2>1, <1>2, SMT DEF Unanswered, NobodyAsked, Turn
  <2>5. queued \in Words \union {NoOne} /\ (queued # NoOne => phase[queued] = "held")
    BY Zenon DEF ConvInv, ConvTypeOK
  <2>6. awaiting \in BOOLEAN /\ speaking \in BOOLEAN
    BY Zenon DEF ConvInv, ConvTypeOK
  <2>7. SentOn
    BY <1>2, <2>2, <2>4, <2>5, <2>6, Zenon DEF SentOn
  <2> QED BY <1>0, <1>2, <2>7, SentOnKeeps, Zenon
<1>3. ASSUME proposal # NoOne, proposal' = NoOne, Asks(proposal, [phase EXCEPT ![m] = "done"])
      PROVE  ConvInv'
  <2>1. PICK p \in Words : p = proposal /\ phase[p] = "proposed"
    BY <1>0, <1>3, Zenon
  <2> DEFINE base == [phase EXCEPT ![m] = "done"]
  <2>2. OnlyDone(base)
    <3>1. base \in [Words -> Phases] /\ \A w \in Words : base[w] = IF w = m THEN "done" ELSE phase[w]
      BY <1>0, <1>d, Zenon
    <3> QED BY <3>1, <1>0, Zenon DEF OnlyDone
  <2>3. Asks(p, base)
    BY <1>3, <2>1, Zenon
  <2> HIDE DEF base
  <2>4. SentOn
    BY <2>1, <2>2, <2>3, AsksMoves
  <2> QED BY <1>0, <1>3, <2>4, SentOnKeeps, Zenon
<1>4. ASSUME proposal # NoOne, proposal' = NoOne, Takes(m, [phase EXCEPT ![proposal] = "done"])
      PROVE  ConvInv'
  <2>1. PICK p \in Words : p = proposal /\ phase[p] = "proposed"
    BY <1>0, <1>4, Zenon
  <2> DEFINE base == [phase EXCEPT ![p] = "done"]
  <2>2. OnlyDone(base)
    <3>1. base \in [Words -> Phases] /\ \A w \in Words : base[w] = IF w = p THEN "done" ELSE phase[w]
      BY <1>0, <1>d, Zenon
    <3> QED BY <3>1, <2>1, Zenon DEF OnlyDone
  <2>3. Takes(m, base)
    BY <1>4, <2>1, Zenon
  <2> HIDE DEF base
  <2>4. SentOn
    BY <1>0, <2>2, <2>3, TakesMoves, Zenon
  <2> QED BY <1>0, <1>4, <2>4, SentOnKeeps, Zenon
<1> QED BY <1>1, <1>2, <1>3, <1>4, Zenon DEF Says

LEMMA ChoosesKeeps ==
  ASSUME ConvInv, NEW m \in Words, Chooses(m)
  PROVE  ConvInv'
<1>0. /\ proposal = m /\ proposal' = NoOne /\ UNCHANGED <<voice, cut, later, drains, quiet, recording>>
      /\ phase[m] = "proposed" /\ phase \in [Words -> Phases]
  BY SpeakersAre, Zenon DEF Chooses, ConvInv, ConvTypeOK
<1>1. CASE Now(m, "telling") /\ UNCHANGED <<awaiting, speaking, queued>>
  <2>1. /\ "telling" \in Phases /\ (phase[m] \in Turn => "telling" \in Turn) /\ phase[m] # "held"
        /\ "telling" \notin NobodyAsked /\ ("telling" \in Unanswered => phase[m] \in Unanswered)
    BY <1>0, PhasesAre, SMT DEF Unanswered, NobodyAsked, Turn
  <2>2. SentOn
    BY <1>1, <2>1, OneSentOn, Zenon
  <2> QED BY <1>0, <2>2, SentOnKeeps, Zenon
<1>2. CASE Asks(m, phase)
  <2>1. OnlyDone(phase)
    BY <1>0, Zenon DEF OnlyDone
  <2>2. SentOn
    BY <1>0, <1>2, <2>1, AsksMoves
  <2> QED BY <1>0, <2>2, SentOnKeeps, Zenon
<1> QED BY <1>1, <1>2, Zenon DEF Chooses

LEMMA RunAcceptedKeeps ==
  ASSUME ConvInv, NEW m \in Words, RunAccepted(m)
  PROVE  ConvInv'
<1>1. /\ phase[m] = "asking" /\ Now(m, "running") /\ UNCHANGED <<awaiting, speaking, queued>>
      /\ UNCHANGED proposal /\ UNCHANGED <<voice, cut, later, drains, quiet, recording>>
  BY Zenon DEF RunAccepted
<1>2. /\ "running" \in Phases /\ (phase[m] \in Turn => "running" \in Turn) /\ phase[m] # "held"
      /\ "running" \notin NobodyAsked /\ ("running" \in Unanswered => phase[m] \in Unanswered)
  BY <1>1, PhasesAre, SMT DEF Unanswered, NobodyAsked, Turn
<1>3. SentOn
  BY <1>1, <1>2, OneSentOn, Zenon
<1>4. proposal' \in Words \union {NoOne} /\ (proposal' # NoOne => phase'[proposal'] = "proposed")
  <2>1. \A w \in Words \ {m} : phase'[w] = phase[w]
    BY <1>1, <1>2, OneMoves, Zenon
  <2> QED BY <1>1, <2>1, Zenon DEF ConvInv, ConvTypeOK
<1> QED BY <1>1, <1>3, <1>4, SentOnKeeps, Zenon

(* Somebody begins to speak: no turn ends, and the face is theirs.         *)
LEMMA SpeaksKeeps ==
  ASSUME ConvInv, NEW s \in Speakers, Speaks(s), voice[s] \in {"none", "over"},
         UNCHANGED <<awaiting, queued, cut, recording>>, drains' \in BOOLEAN,
         phase' \in [Words -> Phases], proposal' \in Words \union {NoOne},
         proposal' # NoOne => phase'[proposal'] = "proposed",
         \A w \in Words : /\ phase'[w] \in Unanswered => phase[w] \in Unanswered /\ s # Reply(w)
                          /\ phase'[w] \in NobodyAsked => phase[w] \in NobodyAsked /\ s # Asking(w)
                          /\ phase[w] \in Turn => phase'[w] \in Turn
                          /\ phase[w] = "held" => phase'[w] = "held",
         later' \in Seq(News), WaitsUnsaid(later', voice')
  PROVE  ConvInv'
<1>1. /\ Unspoken(phase', voice') /\ CutIsDelivered'
      /\ voice' \in [Speakers -> {"none", "fetching", "typing", "aloud", "over"}]
      /\ cut' \in Speakers \union {NoOne}
      /\ quiet' \in {"none", "fetching", "aloud"}
      /\ voice'[s] = "fetching" /\ \A t \in Speakers \ {s} : voice'[t] = voice[t]
  BY VoiceBegins, Zenon
<1>2. "fetching" \in OpenVoices
  BY DEF OpenVoices
<1>3. HeldHasATurn' /\ LockHasATurn' /\ FaceIsSomebodys'
  <2>1. \A t \in Speakers : voice[t] \in OpenVoices => voice'[t] \in OpenVoices
    BY <1>1, <1>2, Zenon
  <2> QED BY <1>1, <1>2, <2>1, TurnsGoOn, Zenon
<1>4. {awaiting', speaking', drains', recording'} \subseteq BOOLEAN
  BY Zenon DEF ConvInv, ConvTypeOK, Speaks
<1>5. queued \in Words \union {NoOne} /\ (queued # NoOne => phase[queued] = "held")
  BY Zenon DEF ConvInv, ConvTypeOK
<1>6. ConvTypeOK'
  BY <1>1, <1>4, <1>5, Zenon DEF ConvTypeOK
<1> QED BY <1>1, <1>3, <1>5, <1>6, Zenon DEF ConvInv

(* The same, about a message, when it alone moves, or none does.           *)
LEMMA SpeaksAboutIt ==
  ASSUME ConvInv, NEW m \in Words, NEW s \in {Reply(m), Asking(m)}, Speaks(s), voice[s] \in {"none", "over"},
         UNCHANGED <<awaiting, queued, cut, later, recording>>, drains' \in BOOLEAN,
         NEW p \in Phases, Now(m, p) \/ (UNCHANGED phase /\ p = phase[m]),
         phase[m] \in Turn => p \in Turn, phase[m] # "held", p \notin NobodyAsked,
         p \in Unanswered => phase[m] \in Unanswered /\ s # Reply(m),
         \/ UNCHANGED proposal /\ phase[m] # "proposed"
         \/ proposal' = m /\ p = "proposed"
  PROVE  ConvInv'
<1>1. /\ phase' \in [Words -> Phases] /\ phase'[m] = p
      /\ \A w \in Words \ {m} : phase'[w] = phase[w]
  <2>1. CASE Now(m, p)
    BY <2>1, OneMoves, Zenon
  <2>2. CASE UNCHANGED phase /\ p = phase[m]
    BY <2>2, Zenon DEF ConvInv, ConvTypeOK
  <2> QED BY <2>1, <2>2, Zenon
<1>2. s \in Speakers /\ s \notin News /\ \A w \in Words \ {m} : s # Reply(w) /\ s # Asking(w)
  BY SpeakersAre, Zenon
<1>3. proposal' \in Words \union {NoOne} /\ (proposal' # NoOne => phase'[proposal'] = "proposed")
  BY <1>1, SpeakersAre, Zenon DEF ConvInv, ConvTypeOK
<1>4. WaitsUnsaid(later', voice') /\ later' \in Seq(News)
  <2>1. \A t \in Speakers \ {s} : voice'[t] = voice[t]
    BY <1>2, Zenon DEF Speaks, ConvInv, ConvTypeOK
  <2> QED BY <1>2, <2>1, LaterStays, Zenon
<1>5. ASSUME NEW w \in Words
      PROVE  /\ phase'[w] \in Unanswered => phase[w] \in Unanswered /\ s # Reply(w)
             /\ phase'[w] \in NobodyAsked => phase[w] \in NobodyAsked /\ s # Asking(w)
             /\ phase[w] \in Turn => phase'[w] \in Turn
             /\ phase[w] = "held" => phase'[w] = "held"
  BY <1>1, <1>2, Zenon
<1> QED BY <1>1, <1>2, <1>3, <1>4, <1>5, SpeaksKeeps, Zenon

LEMMA DecidesKeeps ==
  ASSUME ConvInv, NEW m \in Words, Decides(m)
  PROVE  ConvInv'
<1>0. /\ phase[m] = "deciding" /\ UNCHANGED <<cut, later, drains, recording>>
      /\ phase \in [Words -> Phases]
      /\ proposal \in Words \union {NoOne} /\ (proposal # NoOne => phase[proposal] = "proposed")
      /\ drains \in BOOLEAN
  BY Zenon DEF Decides, ConvInv, ConvTypeOK
<1>d. phase[m] \notin Turn /\ phase[m] # "held" /\ phase[m] # "proposed" /\ phase[m] \in Unanswered /\ phase[m] \in NobodyAsked
  BY <1>0, SMT DEF Turn, Unanswered, NobodyAsked
<1>v. voice[Reply(m)] = "none" /\ voice[Asking(m)] = "none"
  BY <1>d, Zenon DEF ConvInv, Unspoken
<1>1. CASE Now(m, "proposed") /\ proposal' = m /\ Speaks(Asking(m)) /\ UNCHANGED <<awaiting, queued>>
  <2>1. "proposed" \in Phases /\ "proposed" \notin NobodyAsked
    BY PhasesAre, SMT DEF NobodyAsked
  <2>2. Asking(m) # Reply(m)
    BY SpeakersAre, Zenon
  <2>3. voice[Asking(m)] \in {"none", "over"} /\ Asking(m) \in {Reply(m), Asking(m)} /\ drains' \in BOOLEAN
    BY <1>v, <1>0, Zenon
  <2>4. UNCHANGED <<awaiting, queued, cut, later, recording>>
    BY <1>0, <1>1, Zenon
  <2> QED BY <1>0, <1>1, <1>d, <2>1, <2>2, <2>3, <2>4, SpeaksAboutIt, Zenon
<1>2. CASE Now(m, "telling") /\ Speaks(Reply(m)) /\ UNCHANGED <<awaiting, queued, proposal>>
  <2>1. "telling" \in Phases /\ "telling" \notin NobodyAsked /\ "telling" \notin Unanswered
    BY PhasesAre, SMT DEF NobodyAsked, Unanswered
  <2>3. voice[Reply(m)] \in {"none", "over"} /\ Reply(m) \in {Reply(m), Asking(m)} /\ drains' \in BOOLEAN
    BY <1>v, <1>0, Zenon
  <2>4. UNCHANGED <<awaiting, queued, cut, later, recording>>
    BY <1>0, <1>2, Zenon
  <2> QED BY <1>0, <1>2, <1>d, <2>1, <2>3, <2>4, SpeaksAboutIt, Zenon
<1>3. CASE Asks(m, phase) /\ UNCHANGED <<proposal, voice, quiet>>
  <2>1. OnlyDone(phase)
    BY <1>0, Zenon DEF OnlyDone
  <2>2. SentOn
    BY <1>0, <1>3, <2>1, AsksMoves
  <2>3. proposal # NoOne => phase'[proposal] = "proposed"
    <3>1. phase' = [phase EXCEPT ![m] = "asking"]
      BY <1>3, Zenon DEF Asks
    <3>2. ASSUME NEW w \in Words, w # m PROVE phase'[w] = phase[w]
      BY <1>0, <3>1, <3>2, Zenon
    <3> QED BY <1>0, <1>d, <3>2, Zenon
  <2> QED BY <1>0, <1>3, <2>2, <2>3, SentOnKeeps, Zenon
<1> QED BY <1>1, <1>2, <1>3, Zenon DEF Decides

(* The rest of what begins to be said about a message.                     *)
LEMMA SaidKeeps ==
  ASSUME ConvInv, NEW m \in Words, Made(m) \/ Replies(m) \/ RunSpeaks(m)
  PROVE  ConvInv'
<1>p. phase \in [Words -> Phases] /\ drains \in BOOLEAN /\ Reply(m) \in {Reply(m), Asking(m)} /\ phase[m] \in Phases
  BY Zenon DEF ConvInv, ConvTypeOK
<1>1. CASE Made(m)
  <2>1. /\ phase[m] = "telling" /\ voice[Reply(m)] = "none" /\ Speaks(Reply(m)) /\ UNCHANGED phase
        /\ UNCHANGED <<awaiting, queued, cut, later, recording>> /\ UNCHANGED <<proposal, drains>>
    BY <1>1, Zenon DEF Made
  <2>2. phase[m] \notin Turn /\ phase[m] # "held" /\ phase[m] # "proposed" /\ phase[m] \notin Unanswered /\ phase[m] \notin NobodyAsked
    BY <2>1, SMT DEF Turn, Unanswered, NobodyAsked
  <2>3. voice[Reply(m)] \in {"none", "over"} /\ drains' \in BOOLEAN
    BY <1>p, <2>1, Zenon
  <2> QED BY <1>p, <2>1, <2>2, <2>3, SpeaksAboutIt, Zenon
<1>2. CASE Replies(m)
  <2>1. /\ phase[m] = "asking" /\ Speaks(Reply(m)) /\ Now(m, "answering")
        /\ UNCHANGED <<awaiting, queued, cut, later, recording>> /\ UNCHANGED <<proposal, drains>>
    BY <1>2, Zenon DEF Replies
  <2>2. /\ phase[m] # "held" /\ phase[m] # "proposed" /\ phase[m] \in Unanswered
        /\ "answering" \in Phases /\ "answering" \notin Unanswered /\ "answering" \notin NobodyAsked /\ "answering" \in Turn
    BY <2>1, PhasesAre, SMT DEF Unanswered, NobodyAsked
  <2>3. voice[Reply(m)] \in {"none", "over"} /\ drains' \in BOOLEAN
    BY <1>p, <2>1, <2>2, Zenon DEF ConvInv, Unspoken
  <2> QED BY <1>p, <2>1, <2>2, <2>3, SpeaksAboutIt, Zenon
<1>3. CASE RunSpeaks(m)
  <2>1. /\ phase[m] = "running" /\ voice[Reply(m)] \in {"none", "over"} /\ Speaks(Reply(m)) /\ UNCHANGED phase
        /\ UNCHANGED <<awaiting, queued, cut, later, recording>> /\ UNCHANGED <<proposal, drains>>
    BY <1>3, Zenon DEF RunSpeaks
  <2>2. phase[m] \in Turn /\ phase[m] # "held" /\ phase[m] # "proposed" /\ phase[m] \notin Unanswered /\ phase[m] \notin NobodyAsked
    BY <2>1, SMT DEF Turn, Unanswered, NobodyAsked
  <2>3. drains' \in BOOLEAN
    BY <1>p, <2>1, Zenon
  <2> QED BY <1>p, <2>1, <2>2, <2>3, SpeaksAboutIt, Zenon
<1> QED BY <1>1, <1>2, <1>3, Zenon

(* A turn that ends while its voice is let be.                             *)
LEMMA SettledQuietly ==
  ASSUME ConvInv, NEW m \in Words, phase[m] \in Turn, Settles(m),
         UNCHANGED <<proposal, voice, cut, later, quiet, recording>>
  PROVE  ConvInv'
<1>1. /\ HeldHasATurn' /\ LockHasATurn' /\ FaceIsSomebodys' /\ queued' = NoOne
      /\ phase' \in [Words -> Phases] /\ awaiting' \in BOOLEAN /\ speaking' \in BOOLEAN /\ drains' \in BOOLEAN
      /\ \A w \in Words : /\ phase'[w] \in Unanswered => phase[w] \in Unanswered
                          /\ phase'[w] \in NobodyAsked => phase[w] \in NobodyAsked
                          /\ phase[w] = "proposed" => phase'[w] = "proposed"
  BY SettlesKeeps, Zenon
<1>2. /\ Unspoken(phase', voice') /\ WaitsUnsaid(later', voice') /\ CutIsDelivered'
      /\ voice' \in [Speakers -> {"none", "fetching", "typing", "aloud", "over"}]
      /\ cut' \in Speakers \union {NoOne} /\ later' \in Seq(News)
  BY <1>1, VoicesStay, Zenon
<1>3. /\ proposal \in Words \union {NoOne} /\ (proposal # NoOne => phase[proposal] = "proposed")
      /\ quiet \in {"none", "fetching", "aloud"} /\ recording \in BOOLEAN
  BY Zenon DEF ConvInv, ConvTypeOK
<1>4. ConvTypeOK'
  BY <1>1, <1>2, <1>3, Zenon DEF ConvTypeOK
<1> QED BY <1>1, <1>2, <1>3, <1>4, Zenon DEF ConvInv

LEMMA EndsKeep ==
  ASSUME ConvInv, NEW m \in Words, ReplyFails(m) \/ RunEnds(m) \/ StopsWaiting(m)
  PROVE  ConvInv'
<1>p. phase \in [Words -> Phases] /\ drains \in BOOLEAN /\ Reply(m) \in {Reply(m), Asking(m)} /\ phase[m] \in Phases
      /\ proposal \in Words \union {NoOne} /\ (proposal # NoOne => phase[proposal] = "proposed")
  BY Zenon DEF ConvInv, ConvTypeOK
<1>1. CASE ReplyFails(m)
  <2>1. phase[m] = "asking" /\ Settles(m) /\ UNCHANGED <<proposal, voice, cut, later, quiet, recording>>
    BY <1>1, Zenon DEF ReplyFails
  <2> QED BY <2>1, PhasesAre, SettledQuietly, Zenon
<1>2. CASE StopsWaiting(m)
  <2>1. phase[m] = "answering" /\ Settles(m) /\ UNCHANGED <<proposal, voice, cut, later, quiet, recording>>
    BY <1>2, Zenon DEF StopsWaiting
  <2> QED BY <2>1, PhasesAre, SettledQuietly, Zenon
<1>3. CASE RunEnds(m)
  <2>1. phase[m] = "running" /\ UNCHANGED <<proposal, cut, later, recording>>
    BY <1>3, Zenon DEF RunEnds
  <2>d. /\ phase[m] \in Turn /\ phase[m] # "held" /\ phase[m] # "proposed"
        /\ "closing" \in Phases /\ "closing" \notin Unanswered /\ "closing" \notin NobodyAsked /\ "closing" \in Turn
    BY <2>1, PhasesAre, SMT DEF Unanswered, NobodyAsked
  <2>2. CASE Now(m, "closing") /\ UNCHANGED <<awaiting, speaking, queued, voice, drains, quiet>>
    <3>1. SentOn
      BY <2>2, <2>d, OneSentOn, Zenon
    <3>2. proposal # NoOne => phase'[proposal] = "proposed"
      <4>1. \A w \in Words \ {m} : phase'[w] = phase[w]
        BY <2>2, <2>d, OneMoves, Zenon
      <4> QED BY <4>1, <2>d, <1>p, Zenon
    <3> QED BY <1>p, <2>1, <2>2, <3>1, <3>2, SentOnKeeps, Zenon
  <2>3. CASE Settles(m) /\ UNCHANGED <<voice, quiet>>
    BY <2>1, <2>3, <2>d, SettledQuietly, Zenon
  <2>4. CASE voice[Reply(m)] = "none" /\ Now(m, "closing") /\ Speaks(Reply(m)) /\ UNCHANGED <<awaiting, queued, drains>>
    <3>1. voice[Reply(m)] \in {"none", "over"} /\ drains' \in BOOLEAN
      BY <1>p, <2>4, Zenon
    <3> QED BY <1>p, <2>1, <2>4, <2>d, <3>1, SpeaksAboutIt, Zenon
  <2> QED BY <1>3, <2>2, <2>3, <2>4, Zenon DEF RunEnds
<1> QED BY <1>1, <1>2, <1>3, Zenon

LEMMA DeliversKeeps ==
  ASSUME ConvInv, NEW s \in Speakers, Delivers(s)
  PROVE  ConvInv'
<1>1. PICK how \in {"typing", "aloud"} : voice' = [voice EXCEPT ![s] = how]
  BY Zenon DEF Delivers
<1>2. /\ voice[s] = "fetching" /\ (cut' = cut \/ cut' = s)
      /\ UNCHANGED <<phase, awaiting, speaking, queued, proposal, later, drains, quiet, recording>>
  BY Zenon DEF Delivers
<1>3. how \in {"typing", "aloud", "over"} /\ how # "over" /\ voice[s] \in OpenVoices /\ how \in OpenVoices
  BY <1>2 DEF OpenVoices
<1>4. /\ Unspoken(phase', voice') /\ CutIsDelivered' /\ WaitsUnsaid(later', voice')
      /\ voice' \in [Speakers -> {"none", "fetching", "typing", "aloud", "over"}]
      /\ cut' \in Speakers \union {NoOne} /\ later' \in Seq(News)
      /\ voice'[s] = how /\ \A t \in Speakers \ {s} : voice'[t] = voice[t]
  <2>1. UNCHANGED later /\ ((cut' = s /\ how # "over") \/ cut' = NoOne \/ (cut' = cut /\ how # "over"))
    BY <1>2, <1>3, Zenon
  <2>2. \A w \in Words : /\ phase'[w] \in Unanswered => phase[w] \in Unanswered
                         /\ phase'[w] \in NobodyAsked => phase[w] \in NobodyAsked
    BY <1>2, Zenon
  <2> QED BY <1>1, <1>3, <2>1, <2>2, VoiceGoesOn, Zenon
<1>5. HeldHasATurn' /\ LockHasATurn' /\ FaceIsSomebodys'
  <2>1. \A t \in Speakers : voice[t] \in OpenVoices => voice'[t] \in OpenVoices
    BY <1>3, <1>4, Zenon
  <2> QED BY <1>2, <2>1, TurnsGoOn, Zenon
<1>6. ConvTypeOK'
  BY <1>2, <1>4, Zenon DEF ConvInv, ConvTypeOK
<1> QED BY <1>2, <1>4, <1>5, <1>6, Zenon DEF ConvInv

LEMMA FinishesKeeps ==
  ASSUME ConvInv, NEW s \in Speakers, Finishes(s)
  PROVE  ConvInv'
<1>1. /\ voice[s] \in {"typing", "aloud"} /\ voice' = [voice EXCEPT ![s] = "over"] /\ cut' = NoOne
      /\ UNCHANGED <<proposal, later, quiet, recording>>
  BY Zenon DEF Finishes
<1>2. voice[s] \in OpenVoices
  BY <1>1 DEF OpenVoices
<1>p. /\ phase \in [Words -> Phases]
      /\ proposal \in Words \union {NoOne} /\ (proposal # NoOne => phase[proposal] = "proposed")
      /\ queued \in Words \union {NoOne} /\ (queued # NoOne => phase[queued] = "held")
      /\ quiet \in {"none", "fetching", "aloud"} /\ recording \in BOOLEAN /\ awaiting \in BOOLEAN
  BY Zenon DEF ConvInv, ConvTypeOK
<1>3. ASSUME \A w \in Words : /\ phase'[w] \in Unanswered => phase[w] \in Unanswered
                              /\ phase'[w] \in NobodyAsked => phase[w] \in NobodyAsked
      PROVE  /\ Unspoken(phase', voice') /\ CutIsDelivered' /\ WaitsUnsaid(later', voice')
             /\ voice' \in [Speakers -> {"none", "fetching", "typing", "aloud", "over"}]
             /\ cut' \in Speakers \union {NoOne} /\ later' \in Seq(News)
  BY <1>1, <1>2, <1>3, VoiceGoesOn, Zenon
<1>4. ASSUME NEW m \in Words, s = Reply(m), phase[m] \in {"answering", "closing"}, Settles(m)
      PROVE  ConvInv'
  <2>1. /\ HeldHasATurn' /\ LockHasATurn' /\ FaceIsSomebodys' /\ queued' = NoOne
        /\ phase' \in [Words -> Phases] /\ awaiting' \in BOOLEAN /\ speaking' \in BOOLEAN /\ drains' \in BOOLEAN
        /\ \A w \in Words : /\ phase'[w] \in Unanswered => phase[w] \in Unanswered
                            /\ phase'[w] \in NobodyAsked => phase[w] \in NobodyAsked
                            /\ phase[w] = "proposed" => phase'[w] = "proposed"
    BY <1>4, PhasesAre, SettlesKeeps, Zenon
  <2>2. ConvTypeOK'
    BY <1>1, <1>3, <1>p, <2>1, Zenon DEF ConvTypeOK
  <2> QED BY <1>1, <1>3, <1>p, <2>1, <2>2, Zenon DEF ConvInv
<1>5. ASSUME ~ \E m \in Words : s = Reply(m) /\ phase[m] \in {"answering", "closing"}
      PROVE  ConvInv'
  <2>1. /\ speaking' = FALSE /\ drains' = TRUE /\ UNCHANGED <<awaiting, queued>>
        /\ phase' = [w \in Words |-> IF s = Reply(w) /\ phase[w] = "telling" THEN "done" ELSE phase[w]]
    BY <1>5, Zenon DEF Finishes
  <2>2. phase' \in [Words -> Phases]
    BY <2>1, <1>p, PhasesAre, Zenon
  <2>3. ASSUME NEW w \in Words
        PROVE  /\ phase'[w] \in Unanswered => phase[w] \in Unanswered
               /\ phase'[w] \in NobodyAsked => phase[w] \in NobodyAsked
               /\ phase[w] \in Turn => phase'[w] \in Turn
               /\ phase[w] \in {"proposed", "held"} => phase'[w] = phase[w]
    <3>1. phase'[w] = phase[w] \/ (phase[w] = "telling" /\ phase'[w] = "done")
      BY <2>1, Zenon
    <3> QED BY <3>1, SMT DEF Unanswered, NobodyAsked, Turn
  <2>4. HeldHasATurn' /\ LockHasATurn' /\ FaceIsSomebodys'
    BY <2>1, <2>3, Zenon DEF ConvInv, HeldHasATurn, LockHasATurn, FaceIsSomebodys
  <2>5. ConvTypeOK'
    <3>1. awaiting' \in BOOLEAN /\ speaking' \in BOOLEAN /\ drains' \in BOOLEAN /\ recording' \in BOOLEAN
      BY <1>1, <1>p, <2>1, Zenon
    <3> QED BY <1>1, <1>3, <1>p, <2>1, <2>2, <2>3, <3>1, Zenon DEF ConvTypeOK
  <2>6. proposal' # NoOne => phase'[proposal'] = "proposed"
    BY <1>1, <1>p, <2>3, Zenon
  <2>7. queued' # NoOne => phase'[queued'] = "held"
    BY <1>p, <2>1, <2>3, Zenon
  <2> QED BY <1>3, <2>3, <2>4, <2>5, <2>6, <2>7, Zenon DEF ConvInv
<1>6. ASSUME NEW m \in Words, s = Reply(m), phase[m] \in {"answering", "closing"}
      PROVE  ConvInv'
  <2>1. PICK w \in Words : s = Reply(w) /\ Settles(w)
    BY <1>6, Zenon DEF Finishes
  <2>2. w = m
    BY <1>6, <2>1, SpeakersAre, Zenon
  <2> QED BY <1>4, <1>6, <2>1, <2>2, Zenon
<1> QED BY <1>5, <1>6, Zenon

(* One that waits is said: those behind it still wait unsaid.              *)
LEMMA TailWaits ==
  ASSUME ConvInv, later # <<>>, later' = Tail(later), Speaks(Head(later))
  PROVE  /\ Head(later) \in News /\ voice[Head(later)] = "none"
         /\ later' \in Seq(News) /\ WaitsUnsaid(later', voice')
<1>1. later \in Seq(News) /\ voice \in [Speakers -> {"none", "fetching", "typing", "aloud", "over"}]
  BY Zenon DEF ConvInv, ConvTypeOK
<1>2. /\ 1 \in DOMAIN later /\ Head(later) = later[1] /\ later[1] \in News
      /\ later' \in Seq(News)
      /\ \A i \in DOMAIN later' : i \in Nat /\ i >= 1 /\ i + 1 \in DOMAIN later /\ later'[i] = later[i + 1] /\ later[i + 1] \in News
  BY <1>1, SMT
<1>3. \A i \in DOMAIN later : voice[later[i]] = "none" /\ \A j \in DOMAIN later : later[j] = later[i] => j = i
  BY Zenon DEF ConvInv, WaitsUnsaid
<1>4. voice' = [voice EXCEPT ![Head(later)] = "fetching"]
  BY Zenon DEF Speaks
<1>5. ASSUME NEW i \in DOMAIN later'
      PROVE  voice'[later'[i]] = "none" /\ \A j \in DOMAIN later' : later'[j] = later'[i] => j = i
  <2>1. /\ i \in Nat /\ i >= 1 /\ i + 1 \in DOMAIN later /\ later'[i] = later[i + 1] /\ later[i + 1] \in News
    BY <1>2, Zenon
  <2>2. i + 1 # 1
    BY <2>1, SMT
  <2>3. later'[i] # Head(later)
    BY <1>2, <1>3, <2>1, <2>2, Zenon
  <2>4. voice'[later'[i]] = voice[later'[i]]
    BY <1>1, <1>4, <2>1, <2>3, SpeakersAre, Zenon
  <2>5. voice[later'[i]] = "none"
    BY <1>3, <2>1, Zenon
  <2>6. ASSUME NEW j \in DOMAIN later', later'[j] = later'[i] PROVE j = i
    <3>1. j \in Nat /\ j + 1 \in DOMAIN later /\ later'[j] = later[j + 1]
      BY <1>2, Zenon
    <3>2. j + 1 = i + 1
      BY <1>3, <2>1, <2>6, <3>1, Zenon
    <3> QED BY <2>1, <3>1, <3>2, SMT
  <2> QED BY <2>4, <2>5, <2>6, Zenon
<1> QED BY <1>2, <1>3, <1>5, Zenon DEF WaitsUnsaid

(* News that is said: nothing else of the conversation moves.              *)
LEMMA NewsKeeps ==
  ASSUME ConvInv, NEW n \in News, Speaks(n), voice[n] = "none",
         UNCHANGED <<phase, awaiting, queued, proposal, cut, recording>>, drains' \in BOOLEAN,
         later' \in Seq(News), WaitsUnsaid(later', voice')
  PROVE  ConvInv'
<1>1. n \in Speakers /\ \A w \in Words : n # Reply(w) /\ n # Asking(w)
  BY SpeakersAre, Zenon
<1>2. /\ phase' \in [Words -> Phases]
      /\ proposal' \in Words \union {NoOne} /\ (proposal' # NoOne => phase'[proposal'] = "proposed")
  BY Zenon DEF ConvInv, ConvTypeOK
<1>3. voice[n] \in {"none", "over"}
  OBVIOUS
<1>4. \A w \in Words : /\ phase'[w] \in Unanswered => phase[w] \in Unanswered /\ n # Reply(w)
                       /\ phase'[w] \in NobodyAsked => phase[w] \in NobodyAsked /\ n # Asking(w)
                       /\ phase[w] \in Turn => phase'[w] \in Turn
                       /\ phase[w] = "held" => phase'[w] = "held"
  BY <1>1, Zenon
<1> QED BY <1>1, <1>2, <1>3, <1>4, SpeaksKeeps, Zenon

(* Those that wait go on waiting while something else is said.             *)
LEMMA OthersWait ==
  ASSUME ConvInv, NEW n \in News, Speaks(n), \A i \in DOMAIN later : later[i] # n, UNCHANGED later
  PROVE  later' \in Seq(News) /\ WaitsUnsaid(later', voice')
<1>1. later \in Seq(News) /\ voice \in [Speakers -> {"none", "fetching", "typing", "aloud", "over"}]
  BY Zenon DEF ConvInv, ConvTypeOK
<1>2. \A i \in DOMAIN later : later[i] \in News
  BY <1>1, SMT
<1>3. voice' = [voice EXCEPT ![n] = "fetching"]
  BY Zenon DEF Speaks
<1>4. \A i \in DOMAIN later : voice'[later[i]] = voice[later[i]]
  BY <1>1, <1>2, <1>3, SpeakersAre, Zenon
<1> QED BY <1>1, <1>4, Zenon DEF ConvInv, WaitsUnsaid

(* The flags beside the turns, when no message, no voice and nothing that waits moves. *)
LEMMA BesideKeeps ==
  ASSUME ConvInv, UNCHANGED <<phase, awaiting, speaking, queued, proposal, cut>>,
         later' \in Seq(News), WaitsUnsaid(later', voice'), UNCHANGED voice,
         drains' \in BOOLEAN, quiet' \in {"none", "fetching", "aloud"}, recording' \in BOOLEAN
  PROVE  ConvInv'
<1>1. ConvTypeOK'
  BY Zenon DEF ConvInv, ConvTypeOK
<1>2. Unspoken(phase', voice') /\ CutIsDelivered'
  BY Zenon DEF ConvInv, CutIsDelivered
<1>3. HeldHasATurn' /\ LockHasATurn' /\ FaceIsSomebodys'
  BY Zenon DEF ConvInv, HeldHasATurn, LockHasATurn, FaceIsSomebodys
<1> QED BY <1>1, <1>2, <1>3, Zenon DEF ConvInv

LEMMA VolunteersKeeps ==
  ASSUME ConvInv, NEW n \in News, Volunteers(n) \/ Wonders(n)
  PROVE  ConvInv'
<1>1. /\ voice[n] = "none" /\ \A i \in DOMAIN later : later[i] # n
      /\ UNCHANGED <<phase, awaiting, queued, proposal, cut, recording>> /\ UNCHANGED drains
  BY Zenon DEF Volunteers, Wonders
<1>p. drains \in BOOLEAN /\ quiet \in {"none", "fetching", "aloud"} /\ recording \in BOOLEAN /\ later \in Seq(News)
  BY Zenon DEF ConvInv, ConvTypeOK
<1>2. CASE Speaks(n) /\ UNCHANGED later
  <2>1. later' \in Seq(News) /\ WaitsUnsaid(later', voice')
    BY <1>1, <1>2, OthersWait, Zenon
  <2> QED BY <1>1, <1>2, <1>p, <2>1, NewsKeeps, Zenon
<1>3. CASE later' = Append(later, n) /\ UNCHANGED <<voice, speaking, quiet>>
  <2>1. later' \in Seq(News) /\ DOMAIN later' = DOMAIN later \union {Len(later) + 1}
        /\ Len(later) + 1 \notin DOMAIN later /\ later'[Len(later) + 1] = n
        /\ \A i \in DOMAIN later : later'[i] = later[i]
    BY <1>3, <1>p, SMT
  <2>2. \A i \in DOMAIN later : voice[later[i]] = "none" /\ \A j \in DOMAIN later : later[j] = later[i] => j = i
    BY Zenon DEF ConvInv, WaitsUnsaid
  <2>3. WaitsUnsaid(later', voice')
    <3> SUFFICES ASSUME NEW i \in DOMAIN later'
                 PROVE  voice'[later'[i]] = "none" /\ \A j \in DOMAIN later' : later'[j] = later'[i] => j = i
      BY Zenon DEF WaitsUnsaid
    <3>1. CASE i \in DOMAIN later
      BY <1>1, <1>3, <2>1, <2>2, <3>1, Zenon
    <3>2. CASE i = Len(later) + 1
      BY <1>1, <1>3, <2>1, <2>2, <3>2, Zenon
    <3> QED BY <2>1, <3>1, <3>2, Zenon
  <2> QED BY <1>1, <1>3, <1>p, <2>1, <2>3, BesideKeeps, Zenon
<1> QED BY <1>2, <1>3, Zenon DEF Volunteers, Wonders

LEMMA DrainKeeps ==
  ASSUME ConvInv, Drain
  PROVE  ConvInv'
<1>1. UNCHANGED <<phase, awaiting, queued, proposal, cut, recording>>
  BY Zenon DEF Drain
<1>p. /\ drains \in BOOLEAN /\ quiet \in {"none", "fetching", "aloud"} /\ recording \in BOOLEAN /\ later \in Seq(News)
      /\ WaitsUnsaid(later, voice)
  BY Zenon DEF ConvInv, ConvTypeOK
<1>2. CASE drains' = FALSE /\ UNCHANGED <<later, voice, speaking, quiet>>
  BY <1>1, <1>2, <1>p, BesideKeeps, Zenon
<1>3. CASE later # <<>> /\ later' = Tail(later) /\ Speaks(Head(later)) /\ drains' = TRUE
  <2>1. /\ Head(later) \in News /\ voice[Head(later)] = "none"
        /\ later' \in Seq(News) /\ WaitsUnsaid(later', voice')
    BY <1>3, TailWaits, Zenon
  <2> QED BY <1>1, <1>3, <2>1, NewsKeeps, Zenon
<1> QED BY <1>2, <1>3, Zenon DEF Drain

LEMMA QuietKeeps ==
  ASSUME ConvInv, SpeaksQuietly \/ QuietGoesOn \/ QuietEnds \/ StopsRecording
  PROVE  ConvInv'
<1>p. /\ drains \in BOOLEAN /\ quiet \in {"none", "fetching", "aloud"} /\ recording \in BOOLEAN /\ later \in Seq(News)
      /\ WaitsUnsaid(later, voice)
  BY Zenon DEF ConvInv, ConvTypeOK
<1>1. /\ UNCHANGED <<phase, awaiting, speaking, queued, proposal, cut>> /\ UNCHANGED <<later, voice>>
  BY Zenon DEF SpeaksQuietly, QuietGoesOn, QuietEnds, StopsRecording
<1>2. quiet' \in {"none", "fetching", "aloud"}
  BY <1>p, Zenon DEF SpeaksQuietly, QuietGoesOn, QuietEnds, StopsRecording
<1>3. drains' \in BOOLEAN
  BY <1>p, Zenon DEF SpeaksQuietly, QuietGoesOn, QuietEnds, StopsRecording
<1>4. recording' \in BOOLEAN
  BY <1>p, Zenon DEF SpeaksQuietly, QuietGoesOn, QuietEnds, StopsRecording
<1>5. later' \in Seq(News) /\ WaitsUnsaid(later', voice')
  BY <1>p, <1>1, Zenon
<1> QED BY <1>1, <1>2, <1>3, <1>4, <1>5, BesideKeeps, Zenon

LEMMA RecordsKeeps ==
  ASSUME ConvInv, Records
  PROVE  ConvInv'
<1>1. /\ recording' = TRUE /\ voice' = [s \in Speakers |-> IF s = cut THEN "typing" ELSE voice[s]]
      /\ quiet' = (IF quiet = "aloud" THEN "none" ELSE quiet)
      /\ UNCHANGED <<phase, awaiting, speaking, queued, proposal, cut, later, drains>>
  BY Zenon DEF Records
<1>p. /\ drains \in BOOLEAN /\ quiet \in {"none", "fetching", "aloud"} /\ recording \in BOOLEAN /\ later \in Seq(News)
      /\ awaiting \in BOOLEAN /\ speaking \in BOOLEAN
      /\ cut \in Speakers \union {NoOne} /\ voice \in [Speakers -> {"none", "fetching", "typing", "aloud", "over"}]
      /\ (cut # NoOne => voice[cut] \in {"typing", "aloud"})
  BY Zenon DEF ConvInv, ConvTypeOK, CutIsDelivered
<1>2. voice' \in [Speakers -> {"none", "fetching", "typing", "aloud", "over"}]
  <2>1. \A s \in Speakers : (IF s = cut THEN "typing" ELSE voice[s]) \in {"none", "fetching", "typing", "aloud", "over"}
    BY <1>p, Zenon
  <2> QED BY <1>1, <2>1, Zenon
<1>3. \A s \in Speakers : \/ voice'[s] = voice[s]
                          \/ s = cut /\ voice[s] \in {"typing", "aloud"} /\ voice'[s] = "typing"
  BY <1>1, <1>p, SpeakersAre, Zenon
<1>n. "typing" # "none" /\ "aloud" # "none" /\ "typing" \in OpenVoices
  BY DEF OpenVoices
<1>4. \A s \in Speakers : /\ voice[s] = "none" => voice'[s] = "none"
                          /\ voice[s] \in OpenVoices => voice'[s] \in OpenVoices
  BY <1>3, <1>n, Zenon
<1>5. Unspoken(phase', voice')
  BY <1>1, <1>4, SpeakersAre, Zenon DEF ConvInv, Unspoken
<1>6. WaitsUnsaid(later', voice')
  <2>1. \A i \in DOMAIN later : later[i] \in News
    BY <1>p, SMT
  <2> QED BY <1>1, <1>4, <2>1, SpeakersAre, Zenon DEF ConvInv, WaitsUnsaid
<1>7. CutIsDelivered'
  BY <1>1, <1>2, <1>p, SpeakersAre, Zenon DEF CutIsDelivered
<1>8. HeldHasATurn' /\ LockHasATurn' /\ FaceIsSomebodys'
  BY <1>1, <1>4, TurnsGoOn, Zenon
<1>9. ConvTypeOK'
  <2>1. quiet' \in {"none", "fetching", "aloud"} /\ recording' \in BOOLEAN
    BY <1>1, <1>p, Zenon
  <2> QED BY <1>1, <1>2, <1>p, <2>1, Zenon DEF ConvInv, ConvTypeOK
<1> QED BY <1>1, <1>5, <1>6, <1>7, <1>8, <1>9, Zenon DEF ConvInv

LEMMA ConvKeeps == ConvInv /\ ConvNext => ConvInv'
<1> SUFFICES ASSUME ConvInv, ConvNext PROVE ConvInv'
  OBVIOUS
<1>1. ASSUME NEW m \in Words,
             Says(m) \/ Chooses(m) \/ Decides(m) \/ Made(m) \/ Replies(m) \/ ReplyFails(m) \/ RunAccepted(m)
               \/ RunSpeaks(m) \/ RunEnds(m) \/ StopsWaiting(m)
      PROVE  ConvInv'
  BY <1>1, SaysKeeps, ChoosesKeeps, DecidesKeeps, SaidKeeps, RunAcceptedKeeps, EndsKeep, Zenon
<1>2. ASSUME NEW s \in Speakers, Delivers(s) \/ Finishes(s)
      PROVE  ConvInv'
  BY <1>2, DeliversKeeps, FinishesKeeps, Zenon
<1>3. ASSUME NEW n \in News, Volunteers(n) \/ Wonders(n)
      PROVE  ConvInv'
  BY <1>3, VolunteersKeeps, Zenon
<1>4. CASE Drain \/ SpeaksQuietly \/ QuietGoesOn \/ QuietEnds \/ Records \/ StopsRecording
  BY <1>4, DrainKeeps, QuietKeeps, RecordsKeeps, Zenon
<1> QED BY <1>1, <1>2, <1>3, <1>4, Zenon DEF ConvNext

(***************************************************************************)
(* The voice line                                                          *)
(***************************************************************************)
LEMMA LeastOf ==
  ASSUME NEW S, S \subseteq Nat, S # {}
  PROVE  \E x \in S : \A y \in S : x <= y
<1>1. \E x \in S : \A y \in S : ~ (<<y, x>> \in OpToRel(<, Nat))
  BY NatLessThanWellFounded, WFMin
<1>2. PICK x \in S : \A y \in S : ~ (<<y, x>> \in OpToRel(<, Nat))
  BY <1>1
<1>3. ASSUME NEW y \in S, y < x PROVE FALSE
  <2>1. <<y, x>> \in OpToRel(<, Nat)
    BY <1>3, Zenon DEF OpToRel
  <2> QED
    BY <1>2, <2>1
<1>4. x \in Nat /\ \A y \in S : y \in Nat
  OBVIOUS
<1>5. \A y \in S : x <= y
  BY <1>3, <1>4
<1> QED
  BY <1>5

(* What a sequence is with something behind it, and without its head.      *)
LEMMA WithOneMore ==
  ASSUME NEW S, NEW s \in Seq(S), NEW v \in S
  PROVE  /\ Len(s) \in Nat /\ DOMAIN s = 1..Len(s)
         /\ Append(s, v) \in Seq(S) /\ Len(Append(s, v)) = Len(s) + 1
         /\ \A i \in 1..Len(s) : Append(s, v)[i] = s[i]
         /\ Append(s, v)[Len(s) + 1] = v
BY SMT

LEMMA WithoutItsHead ==
  ASSUME NEW S, NEW s \in Seq(S), s # <<>>
  PROVE  /\ Head(s) \in S /\ Head(s) = s[1] /\ Tail(s) \in Seq(S)
         /\ Len(s) \in Nat /\ Len(s) # 0 /\ Len(Tail(s)) = Len(s) - 1
         /\ \A i \in 1..(Len(s) - 1) : Tail(s)[i] = s[i + 1]
BY SMT

LEMMA SequenceIs ==
  ASSUME NEW S, NEW s \in Seq(S)
  PROVE  Len(s) \in Nat /\ DOMAIN s = 1..Len(s)
BY SMT

(* The calls that tell main the line is closed.                            *)
Closings(s) == {i \in DOMAIN s : ~s[i]}
One(i) == IF i # 0 THEN 1 ELSE 0
(* The closings that main can still be told of: those on their way, and one for each *)
(* session that is opened, held or being ended.                            *)
ToTell == Cardinality(Closings(states)) + Cardinality(starts) + One(ending) + One(conv)

ArmCalls == [id : 1..MaxArms, cancelled : BOOLEAN, at : {"asking", "waiting", "loading"}]
StartCalls == [id : 1..MaxLines, at : {"ticket", "opening"}]

(* The listener: one call of arm() at most is not cancelled, one at most loads, and *)
(* nothing is on the way while a recorder runs.                            *)
EarInv ==
  /\ arms \subseteq ArmCalls /\ recorder \in 0..MaxArms /\ engines \subseteq 1..MaxArms /\ frames \subseteq 1..MaxArms
  /\ {arming, loading, backing} \subseteq BOOLEAN
  /\ \A a \in arms : /\ ~a.cancelled => arming
                     /\ a.at = "loading" => loading
                     /\ \A b \in arms : ~a.cancelled /\ ~b.cancelled => a = b
                     /\ \A b \in arms : a.at = "loading" /\ b.at = "loading" => a = b
  /\ loading => loads = 1
  /\ ~loading => loads = 0
  /\ recorder # 0 => ~arming /\ ~loading /\ engines = {recorder}
  /\ recorder = 0 => engines = {}

(* The line: no more to tell than was opened.                              *)
LineInv ==
  /\ opened \in 0..MaxLines /\ conv \in 0..MaxLines /\ ending \in 0..MaxLines /\ lines \subseteq 1..MaxLines
  /\ starts \subseteq StartCalls /\ IsFiniteSet(starts) /\ states \in Seq(BOOLEAN)
  /\ ToTell <= opened

(* Room for an arm of each closing that main can still be told of.         *)
RoomLeft == lit => Cardinality(Free) >= ToTell + (MaxLines - opened)

VoiceInv ==
  /\ {lit, lineOpen, asleep, locked, settling, fresh} \subseteq BOOLEAN
  /\ EarInv /\ LineInv /\ RoomLeft
  /\ IsArmed => WantWake

(* An arm with a field changed is the same arm.                            *)
LEMMA ArmIs ==
  ASSUME NEW a \in ArmCalls
  PROVE  /\ [a EXCEPT !.cancelled = TRUE] \in ArmCalls
         /\ [a EXCEPT !.cancelled = TRUE].id = a.id /\ [a EXCEPT !.cancelled = TRUE].at = a.at
         /\ [a EXCEPT !.cancelled = TRUE].cancelled
         /\ a.id \in 1..MaxArms /\ a.cancelled \in BOOLEAN
<1>1. TRUE \in BOOLEAN
  OBVIOUS
<1> QED BY <1>1, Zenon DEF ArmCalls

LEMMA ArmAt ==
  ASSUME NEW a \in ArmCalls, NEW at \in {"asking", "waiting", "loading"}
  PROVE  /\ [a EXCEPT !.at = at] \in ArmCalls
         /\ [a EXCEPT !.at = at].id = a.id /\ [a EXCEPT !.at = at].at = at
         /\ [a EXCEPT !.at = at].cancelled = a.cancelled
BY Zenon DEF ArmCalls

LEMMA ClosingsAre ==
  ASSUME NEW S, NEW s \in Seq(S)
  PROVE  IsFiniteSet(Closings(s)) /\ Cardinality(Closings(s)) \in Nat /\ Len(s) \in Nat /\ DOMAIN s = 1..Len(s)
<1>1. Len(s) \in Nat /\ DOMAIN s = 1..Len(s)
  BY SequenceIs, Zenon
<1>2. IsFiniteSet(1..Len(s))
  BY <1>1, FS_Interval, SMT
<1>3. Closings(s) \in SUBSET (1..Len(s))
  BY <1>1, Zenon DEF Closings
<1>4. IsFiniteSet(Closings(s))
  BY <1>2, <1>3, FS_Subset, Zenon
<1>5. Cardinality(Closings(s)) \in Nat
  BY <1>4, FS_CardinalityType, Zenon
<1> QED BY <1>1, <1>4, <1>5, Zenon

(* One closing more at the end.                                            *)
LEMMA ClosingsAppended ==
  ASSUME NEW S, NEW s \in Seq(S), NEW v \in S
  PROVE  /\ v => Cardinality(Closings(Append(s, v))) = Cardinality(Closings(s))
         /\ ~v => Cardinality(Closings(Append(s, v))) = Cardinality(Closings(s)) + 1
<1> DEFINE t == Append(s, v)
           n == Len(s) + 1
<1>a. Append(s, v)[Len(s) + 1] = v
  BY WithOneMore, Zenon
<1>b. Append(s, v) \in Seq(S) /\ Len(Append(s, v)) = Len(s) + 1 /\ \A i \in 1..Len(s) : Append(s, v)[i] = s[i]
  BY SMT
<1>1. t \in Seq(S) /\ Len(t) = n /\ (\A i \in 1..Len(s) : t[i] = s[i]) /\ t[n] = v
  BY <1>a, <1>b
<1>2. DOMAIN t = 1..n /\ DOMAIN s = 1..Len(s) /\ Len(s) \in Nat
  BY <1>1, ClosingsAre, Zenon
<1>3. 1..n = 1..Len(s) \union {n} /\ n \notin 1..Len(s)
  BY <1>2, SMT
<1> HIDE DEF t, n
<1>4. v => Closings(t) = Closings(s)
  BY <1>1, <1>2, <1>3, Zenon DEF Closings
<1>5. ~v => Closings(t) = Closings(s) \union {n}
  BY <1>1, <1>2, <1>3, Zenon DEF Closings
<1>6. n \notin Closings(s)
  BY <1>2, <1>3, Zenon DEF Closings
<1>7. Cardinality(Closings(s) \union {n}) = Cardinality(Closings(s)) + 1
  BY <1>6, ClosingsAre, FS_AddElement, Zenon
<1> QED BY <1>4, <1>5, <1>7, Zenon DEF t

(* A step down of a set of numbers.                                        *)
LEMMA StepDown ==
  ASSUME NEW n \in Nat, NEW S \in SUBSET (1..n), NEW T, T = {i \in 1..(n - 1) : i + 1 \in S}
  PROVE  /\ IsFiniteSet(S) /\ IsFiniteSet(T)
         /\ Cardinality(T) <= Cardinality(S)
         /\ 1 \in S => Cardinality(T) + 1 <= Cardinality(S)
<1> DEFINE R == S \ {1}
<1>1. IsFiniteSet(S)
  <2>1. IsFiniteSet(1..n)
    BY FS_Interval, SMT
  <2> QED BY <2>1, FS_Subset, Zenon
<1>2. IsFiniteSet(R) /\ Cardinality(R) = IF 1 \in S THEN Cardinality(S) - 1 ELSE Cardinality(S)
  BY <1>1, FS_RemoveElement, Zenon
<1> DEFINE f == [i \in R |-> i - 1]
<1>3. f \in [R -> T]
  BY SMT
<1>4. \A j \in T : \E i \in R : f[i] = j
  <2> TAKE j \in T
  <2>1. j + 1 \in R /\ (j + 1) - 1 = j
    BY SMT
  <2> QED BY <2>1, Zenon
<1>5. f \in Surjection(R, T)
  BY <1>3, <1>4, Zenon DEF Surjection
<1> HIDE DEF R, f
<1>6. IsFiniteSet(T) /\ Cardinality(T) <= Cardinality(R)
  BY <1>2, <1>5, FS_Surjection, Zenon
<1>7. Cardinality(S) \in Nat /\ Cardinality(T) \in Nat /\ Cardinality(R) \in Nat
  BY <1>1, <1>2, <1>6, FS_CardinalityType, Zenon
<1> QED BY <1>1, <1>2, <1>6, <1>7, SMT

LEMMA ClosingsOfTail ==
  ASSUME NEW S, NEW s \in Seq(S), s # <<>>
  PROVE  /\ Tail(s) \in Seq(S) /\ Head(s) \in S
         /\ Cardinality(Closings(Tail(s))) <= Cardinality(Closings(s))
         /\ ~Head(s) => Cardinality(Closings(Tail(s))) + 1 <= Cardinality(Closings(s))
<1>1. /\ Tail(s) \in Seq(S) /\ Head(s) \in S /\ Len(Tail(s)) = Len(s) - 1 /\ Head(s) = s[1]
      /\ Len(s) # 0 /\ \A i \in 1..(Len(s) - 1) : Tail(s)[i] = s[i + 1]
  BY WithoutItsHead, Zenon
<1>2. DOMAIN s = 1..Len(s) /\ Len(s) \in Nat /\ DOMAIN Tail(s) = 1..Len(Tail(s))
  BY <1>1, ClosingsAre, Zenon
<1>4. Closings(s) \in SUBSET (1..Len(s))
  BY <1>2, Zenon DEF Closings
<1>5. \A i \in 1..(Len(s) - 1) : i + 1 \in 1..Len(s)
  BY <1>2, SMT
<1>6. Closings(Tail(s)) = {i \in 1..(Len(s) - 1) : i + 1 \in Closings(s)}
  BY <1>1, <1>2, <1>5, Zenon DEF Closings
<1>7. /\ Cardinality(Closings(Tail(s))) <= Cardinality(Closings(s))
      /\ 1 \in Closings(s) => Cardinality(Closings(Tail(s))) + 1 <= Cardinality(Closings(s))
  BY <1>2, <1>4, <1>6, StepDown, Zenon
<1>8. ~Head(s) => 1 \in Closings(s)
  <2>1. 1 \in 1..Len(s)
    BY <1>1, <1>2, SMT
  <2> QED BY <1>1, <1>2, <2>1, Zenon DEF Closings
<1> QED BY <1>1, <1>7, <1>8, Zenon

(* What an arm, an engine or a frame has the number of.                    *)
Used == {a.id : a \in arms} \union engines \union frames

LEMMA FreeIs ==
  /\ Free = (1..MaxArms) \ Used /\ IsFiniteSet(Free) /\ Cardinality(Free) \in Nat
  /\ Free' = (1..MaxArms) \ Used' /\ IsFiniteSet(Free') /\ Cardinality(Free') \in Nat
<1>1. Free = (1..MaxArms) \ Used /\ Free' = (1..MaxArms) \ Used'
  BY Zenon DEF Free, Used
<1>2. IsFiniteSet(1..MaxArms)
  BY VoiceBounds, FS_Interval, SMT
<1>3. Free \in SUBSET (1..MaxArms) /\ Free' \in SUBSET (1..MaxArms)
  BY <1>1, Zenon
<1>4. IsFiniteSet(Free) /\ IsFiniteSet(Free')
  BY <1>2, <1>3, FS_Subset, Zenon
<1>5. Cardinality(Free) \in Nat /\ Cardinality(Free') \in Nat
  BY <1>4, FS_CardinalityType, Zenon
<1> QED BY <1>1, <1>4, <1>5, Zenon

LEMMA FreeGrows ==
  ASSUME Used' \subseteq Used
  PROVE  Cardinality(Free) <= Cardinality(Free')
<1>1. Free \in SUBSET Free'
  BY FreeIs, Zenon
<1> QED BY <1>1, FreeIs, FS_Subset, Zenon

(* An arm takes one.                                                       *)
LEMMA FreeTaken ==
  ASSUME NEW id \in Free, Used' = Used \union {id}
  PROVE  Cardinality(Free') = Cardinality(Free) - 1
<1>1. Free' = Free \ {id}
  BY FreeIs, Zenon
<1>2. Cardinality(Free \ {id}) = Cardinality(Free) - 1
  BY FreeIs, FS_RemoveElement, Zenon
<1> QED BY <1>1, <1>2, Zenon

LEMMA FreeIsThere == Cardinality(Free) >= 1 => Free # {}
BY FreeIs, FS_EmptySet, SMT

LEMMA ToTellIs ==
  ASSUME LineInv
  PROVE  /\ ToTell \in Nat /\ Cardinality(Closings(states)) \in Nat /\ Cardinality(starts) \in Nat
         /\ One(ending) \in {0, 1} /\ One(conv) \in {0, 1}
<1>1. states \in Seq(BOOLEAN) /\ IsFiniteSet(starts)
  BY Zenon DEF LineInv
<1>2. Cardinality(Closings(states)) \in Nat
  BY <1>1, ClosingsAre, Zenon
<1>3. Cardinality(starts) \in Nat
  BY <1>1, FS_CardinalityType, Zenon
<1>4. One(ending) \in {0, 1} /\ One(conv) \in {0, 1}
  BY Zenon DEF One
<1> QED BY <1>2, <1>3, <1>4, SMT DEF ToTell

(***************************************************************************)
(* The listener                                                            *)
(***************************************************************************)
LEMMA DisarmKeeps ==
  ASSUME EarInv, Disarm, frames' = frames
  PROVE  EarInv' /\ Used' \subseteq Used /\ ~IsArmed'
<1>1. /\ arms' = {[a EXCEPT !.cancelled = TRUE] : a \in arms} /\ arming' = FALSE
      /\ recorder' = (IF arming THEN recorder ELSE 0)
      /\ engines' = (IF arming THEN engines ELSE engines \ {recorder})
      /\ loading' = loading /\ loads' = loads /\ backing' = backing
  BY Zenon DEF Disarm
<1>2. recorder' = 0 /\ engines' = {}
  <2>1. CASE recorder = 0
    BY <1>1, <2>1, Zenon DEF EarInv
  <2>2. CASE recorder # 0
    BY <1>1, <2>2, Zenon DEF EarInv
  <2> QED BY <2>1, <2>2, Zenon
<1>3. arms \subseteq ArmCalls
  BY Zenon DEF EarInv
<1>4. ASSUME NEW a \in arms'
      PROVE  a \in ArmCalls /\ a.cancelled /\ \E b \in arms : a.id = b.id /\ a.at = b.at /\ a = [b EXCEPT !.cancelled = TRUE]
  <2>1. PICK b \in arms : a = [b EXCEPT !.cancelled = TRUE]
    BY <1>1, Zenon
  <2>2. /\ a \in ArmCalls /\ a.id = b.id /\ a.at = b.at /\ a.cancelled
    BY <1>3, <2>1, ArmIs, Zenon
  <2> QED BY <2>1, <2>2, Zenon
<1>5. Used' \subseteq Used
  <2>1. {a.id : a \in arms'} \subseteq {a.id : a \in arms}
    BY <1>4, Zenon
  <2> QED BY <1>2, <2>1, Zenon DEF Used
<1>6. \A a \in arms' : /\ ~a.cancelled => arming'
                       /\ a.at = "loading" => loading'
                       /\ \A b \in arms' : ~a.cancelled /\ ~b.cancelled => a = b
                       /\ \A b \in arms' : a.at = "loading" /\ b.at = "loading" => a = b
  <2> TAKE a \in arms'
  <2>1. PICK b \in arms : a.at = b.at /\ a = [b EXCEPT !.cancelled = TRUE]
    BY <1>4, Zenon
  <2>2. a.cancelled /\ (a.at = "loading" => loading')
    BY <1>1, <1>4, <2>1, Zenon DEF EarInv
  <2>3. ASSUME NEW c \in arms', a.at = "loading", c.at = "loading" PROVE a = c
    <3>1. PICK d \in arms : c.at = d.at /\ c = [d EXCEPT !.cancelled = TRUE]
      BY <1>4, Zenon
    <3>2. b = d
      BY <2>1, <2>3, <3>1, Zenon DEF EarInv
    <3> QED BY <2>1, <3>1, <3>2, Zenon
  <2> QED BY <2>2, <2>3, Zenon
<1>7. ~IsArmed'
  BY <1>1, <1>2, Zenon DEF IsArmed
<1>8. 0 \in 0..MaxArms
  BY VoiceBounds, SMT
<1>9. {arming', loading', backing'} \subseteq BOOLEAN
  BY <1>1, Zenon DEF EarInv
<1>10. arms' \subseteq ArmCalls
  BY <1>4, Zenon
<1>11. /\ recorder' \in 0..MaxArms /\ engines' \subseteq 1..MaxArms /\ frames' \subseteq 1..MaxArms
       /\ loading' => loads' = 1
       /\ ~loading' => loads' = 0
       /\ recorder' # 0 => ~arming' /\ ~loading' /\ engines' = {recorder'}
       /\ recorder' = 0 => engines' = {}
  BY <1>1, <1>2, <1>8, Zenon DEF EarInv
<1> QED BY <1>5, <1>6, <1>7, <1>9, <1>10, <1>11, Zenon DEF EarInv

LEMMA ArmKeeps ==
  ASSUME EarInv, ~IsArmed, Free # {}, Arm, frames' = frames
  PROVE  EarInv' /\ (Used' \subseteq Used \/ \E id \in Free : Used' = Used \union {id})
<1>1. CASE backing /\ ~fresh
  <2>1. UNCHANGED ear
    BY <1>1, Zenon DEF Arm
  <2>2. /\ arming' = arming /\ arms' = arms /\ loading' = loading /\ loads' = loads /\ recorder' = recorder
        /\ engines' = engines /\ backing' = backing
    BY <2>1, Zenon DEF ear
  <2>3. EarInv'
    BY <2>2, Zenon DEF EarInv
  <2>4. Used' = Used
    BY <2>2, Zenon DEF Used
  <2> QED BY <2>3, <2>4, Zenon
<1>2. CASE ~(backing /\ ~fresh)
  <2> DEFINE id == CHOOSE i \in Free : \A j \in Free : i <= j
             new == [id |-> id, cancelled |-> FALSE, at |-> "asking"]
  <2>1. /\ backing' = FALSE /\ arming' = TRUE
        /\ arms' = arms \union {[id |-> id, cancelled |-> FALSE, at |-> "asking"]}
        /\ loading' = loading /\ loads' = loads /\ recorder' = recorder /\ engines' = engines
    BY <1>2, Zenon DEF Arm
  <2>2. id \in Free
    <3>1. Free \subseteq Nat
      BY VoiceBounds, SMT DEF Free
    <3>2. \E i \in Free : \A j \in Free : i <= j
      BY <3>1, LeastOf, Zenon
    <3> QED BY <3>2, Zenon
  <2>a. id \in 1..MaxArms
    BY <2>2, Zenon DEF Free
  <2> HIDE DEF id
  <2>3. new \in ArmCalls /\ new.id = id /\ new.cancelled = FALSE /\ new.at = "asking"
    BY <2>a, Zenon DEF ArmCalls
  <2>4. arms' = arms \union {new}
    BY <2>1, Zenon
  <2> HIDE DEF new
  <2>5. Used' = Used \union {id}
    BY <2>1, <2>3, <2>4, Zenon DEF Used
  <2>6. recorder = 0 /\ ~arming
    BY Zenon DEF IsArmed
  <2>7. \A a \in arms : a.cancelled
    BY <2>6, Zenon DEF EarInv
  <2>n. "asking" # "loading"
    OBVIOUS
  <2>8. \A a \in arms' : /\ ~a.cancelled => arming'
                         /\ a.at = "loading" => loading'
                         /\ \A b \in arms' : ~a.cancelled /\ ~b.cancelled => a = b
                         /\ \A b \in arms' : a.at = "loading" /\ b.at = "loading" => a = b
    <3> TAKE a \in arms'
    <3>1. a = new \/ a \in arms
      BY <2>4, Zenon
    <3>2. \A b \in arms' : b = new \/ b \in arms
      BY <2>4, Zenon
    <3>3. ~a.cancelled => arming'
      BY <2>1
    <3>4. a.at = "loading" => loading'
      BY <2>1, <2>3, <2>n, <3>1, Zenon DEF EarInv
    <3>5. \A b \in arms' : ~a.cancelled /\ ~b.cancelled => a = b
      BY <2>7, <3>1, <3>2, Zenon
    <3>6. \A b \in arms' : a.at = "loading" /\ b.at = "loading" => a = b
      BY <2>3, <2>n, <3>1, <3>2, Zenon DEF EarInv
    <3> QED BY <3>3, <3>4, <3>5, <3>6, Zenon
  <2>9. {arming', loading', backing'} \subseteq BOOLEAN
    BY <2>1, Zenon DEF EarInv
  <2>10. /\ arms' \subseteq ArmCalls /\ recorder' \in 0..MaxArms /\ engines' \subseteq 1..MaxArms /\ frames' \subseteq 1..MaxArms
         /\ loading' => loads' = 1
         /\ ~loading' => loads' = 0
         /\ recorder' # 0 => ~arming' /\ ~loading' /\ engines' = {recorder'}
         /\ recorder' = 0 => engines' = {}
    BY <2>1, <2>3, <2>4, <2>6, Zenon DEF EarInv
  <2> QED BY <2>2, <2>5, <2>8, <2>9, <2>10, Zenon DEF EarInv
<1> QED BY <1>1, <1>2, Zenon

(* One arm goes, or goes on to another wait.                               *)
LEMMA ArmsMove ==
  ASSUME EarInv, NEW a \in arms, UNCHANGED <<recorder, engines, frames>>, {arming', loading', backing'} \subseteq BOOLEAN,
         \/ arms' = arms \ {a} /\ (loading' = loading \/ (a.at = "loading" /\ ~loading'))
              /\ (arming' = arming \/ (~a.cancelled /\ ~arming'))
         \/ \E at \in {"waiting", "loading"} :
              /\ ~a.cancelled /\ arms' = (arms \ {a}) \union {[a EXCEPT !.at = at]}
              /\ arming' = arming /\ loading' /\ (at = "loading" => ~loading),
         loading' => loads' = 1, ~loading' => loads' = 0
  PROVE  EarInv' /\ Used' \subseteq Used
<1>a. a \in ArmCalls /\ arms \subseteq ArmCalls
  BY Zenon DEF EarInv
<1>1. CASE /\ arms' = arms \ {a}
           /\ loading' = loading \/ (a.at = "loading" /\ ~loading')
           /\ arming' = arming \/ (~a.cancelled /\ ~arming')
  <2>1. Used' \subseteq Used
    BY <1>1, Zenon DEF Used
  <2>2. \A b \in arms' : b \in arms /\ b # a
    BY <1>1, Zenon
  <2>3. \A b \in arms' : /\ ~b.cancelled => arming'
                         /\ b.at = "loading" => loading'
                         /\ \A c \in arms' : ~b.cancelled /\ ~c.cancelled => b = c
                         /\ \A c \in arms' : b.at = "loading" /\ c.at = "loading" => b = c
    <3> TAKE b \in arms'
    <3>0. b \in arms /\ b # a
      BY <2>2, Zenon
    <3>a. (~b.cancelled => arming) /\ (b.at = "loading" => loading)
      BY <3>0, Zenon DEF EarInv
    <3>b. (~a.cancelled => b.cancelled) /\ (a.at = "loading" => b.at # "loading")
      BY <3>0, Zenon DEF EarInv
    <3>1. ~b.cancelled => arming'
      BY <1>1, <3>a, <3>b, Zenon
    <3>2. b.at = "loading" => loading'
      BY <1>1, <3>a, <3>b, Zenon
    <3>3. \A c \in arms' : /\ ~b.cancelled /\ ~c.cancelled => b = c
                           /\ b.at = "loading" /\ c.at = "loading" => b = c
      BY <2>2, <3>0, Zenon DEF EarInv
    <3> QED BY <3>1, <3>2, <3>3, Zenon
  <2>4. recorder' # 0 => ~arming' /\ ~loading' /\ engines' = {recorder'}
    BY <1>1, Zenon DEF EarInv
  <2>5. arms' \subseteq ArmCalls
    BY <1>1, <1>a, Zenon
  <2> QED BY <2>1, <2>3, <2>4, <2>5, Zenon DEF EarInv
<1>2. ASSUME NEW at \in {"waiting", "loading"},
             ~a.cancelled, arms' = (arms \ {a}) \union {[a EXCEPT !.at = at]},
             arming' = arming, loading', at = "loading" => ~loading
      PROVE  EarInv' /\ Used' \subseteq Used
  <2> DEFINE new == [a EXCEPT !.at = at]
  <2>1. new \in ArmCalls /\ new.id = a.id /\ new.at = at /\ new.cancelled = a.cancelled
    <3>1. at \in {"asking", "waiting", "loading"}
      OBVIOUS
    <3> QED BY <1>a, <3>1, ArmAt, Zenon
  <2>2. arms' = (arms \ {a}) \union {new}
    BY <1>2, Zenon
  <2> HIDE DEF new
  <2>3. Used' \subseteq Used
    BY <2>1, <2>2, Zenon DEF Used
  <2>4. arming /\ recorder = 0
    BY <1>2, Zenon DEF EarInv
  <2>5. \A b \in arms' : /\ ~b.cancelled => arming'
                         /\ b.at = "loading" => loading'
                         /\ \A c \in arms' : ~b.cancelled /\ ~c.cancelled => b = c
                         /\ \A c \in arms' : b.at = "loading" /\ c.at = "loading" => b = c
    <3> TAKE b \in arms'
    <3>0. b = new \/ (b \in arms /\ b # a)
      BY <2>2, Zenon
    <3>c. \A c \in arms' : c = new \/ (c \in arms /\ c # a)
      BY <2>2, Zenon
    <3>1. (~b.cancelled => arming') /\ (b.at = "loading" => loading')
      BY <1>2, <2>4, Zenon
    <3>2. \A c \in arms' : ~b.cancelled /\ ~c.cancelled => b = c
      <4>1. \A c \in arms : c # a => c.cancelled
        BY <1>2, Zenon DEF EarInv
      <4> QED BY <4>1, <3>0, <3>c, Zenon
    <3>3. \A c \in arms' : b.at = "loading" /\ c.at = "loading" => b = c
      <4>1. \A c \in arms : c.at = "loading" => loading
        BY Zenon DEF EarInv
      <4>2. \A c, d \in arms : c.at = "loading" /\ d.at = "loading" => c = d
        BY Zenon DEF EarInv
      <4> QED BY <1>2, <2>1, <4>1, <4>2, <3>0, <3>c, Zenon
    <3> QED BY <3>1, <3>2, <3>3, Zenon
  <2>6. arms' \subseteq ArmCalls
    BY <1>a, <2>1, <2>2, Zenon
  <2> QED BY <2>3, <2>4, <2>5, <2>6, Zenon DEF EarInv
<1> QED BY <1>1, <1>2, Zenon

LEMMA MicAnswersKeeps ==
  ASSUME EarInv, NEW a \in arms, MicAnswers(a)
  PROVE  EarInv' /\ Used' \subseteq Used /\ (IsArmed' => IsArmed)
<1>1. /\ a.at = "asking" /\ UNCHANGED <<recorder, engines, frames>> /\ backing' = backing
  BY Zenon DEF MicAnswers
<1>n. a.at # "loading"
  BY <1>1
<1>b. {arming, loading, backing} \subseteq BOOLEAN
  BY Zenon DEF EarInv
<1>2. CASE a.cancelled /\ arms' = arms \ {a} /\ UNCHANGED <<arming, loading, loads>>
  <2>1. (loading' => loads' = 1) /\ (~loading' => loads' = 0) /\ {arming', loading', backing'} \subseteq BOOLEAN
    BY <1>1, <1>2, <1>b, Zenon DEF EarInv
  <2>2. EarInv' /\ Used' \subseteq Used
    BY <1>1, <1>2, <2>1, ArmsMove, Zenon
  <2> QED BY <1>1, <1>2, <2>2, Zenon DEF IsArmed
<1>3. CASE ~a.cancelled /\ arms' = arms \ {a} /\ arming' = FALSE /\ UNCHANGED <<loading, loads>>
  <2>1. (loading' => loads' = 1) /\ (~loading' => loads' = 0) /\ {arming', loading', backing'} \subseteq BOOLEAN
    BY <1>1, <1>3, <1>b, Zenon DEF EarInv
  <2>2. EarInv' /\ Used' \subseteq Used
    BY <1>1, <1>3, <2>1, ArmsMove, Zenon
  <2> QED BY <1>1, <1>3, <2>2, Zenon DEF IsArmed
<1>4. CASE /\ ~a.cancelled /\ UNCHANGED arming
           /\ arms' = (arms \ {a}) \union {[a EXCEPT !.at = IF loading THEN "waiting" ELSE "loading"]}
           /\ loading' = TRUE /\ loads' = IF loading THEN loads ELSE loads + 1
  <2> DEFINE at == IF loading THEN "waiting" ELSE "loading"
  <2>1. at \in {"waiting", "loading"} /\ (at = "loading" => ~loading)
    <3>1. "waiting" # "loading"
      OBVIOUS
    <3> QED BY <3>1, Zenon
  <2>2. loads' = 1
    <3>1. loading => loads' = 1
      BY <1>4, Zenon DEF EarInv
    <3>2. ~loading => loads' = 0 + 1
      BY <1>4, Zenon DEF EarInv
    <3>3. 0 + 1 = 1
      OBVIOUS
    <3> QED BY <3>1, <3>2, <3>3, Zenon
  <2>3. loading' /\ {arming', loading', backing'} \subseteq BOOLEAN /\ arms' = (arms \ {a}) \union {[a EXCEPT !.at = at]}
    BY <1>1, <1>4, <1>b, Zenon
  <2> HIDE DEF at
  <2>4. EarInv' /\ Used' \subseteq Used
    BY <1>1, <1>4, <2>1, <2>2, <2>3, ArmsMove, Zenon
  <2> QED BY <1>1, <1>4, <2>4, Zenon DEF IsArmed
<1> QED BY <1>2, <1>3, <1>4, Zenon DEF MicAnswers

LEMMA WaitEndsKeeps ==
  ASSUME EarInv, NEW a \in arms, WaitEnds(a)
  PROVE  EarInv' /\ Used' \subseteq Used /\ (IsArmed' => IsArmed)
<1>1. a.at = "waiting" /\ ~loading /\ UNCHANGED <<recorder, engines, frames>> /\ backing' = backing /\ arming' = arming
  BY Zenon DEF WaitEnds
<1>b. {arming, loading, backing} \subseteq BOOLEAN
  BY Zenon DEF EarInv
<1>2. CASE a.cancelled
  <2>0. arms' = arms \ {a} /\ loading' = loading /\ loads' = loads
    BY <1>2, Zenon DEF WaitEnds
  <2>1. (loading' => loads' = 1) /\ (~loading' => loads' = 0) /\ {arming', loading', backing'} \subseteq BOOLEAN
    BY <1>1, <2>0, <1>b, Zenon DEF EarInv
  <2>2. EarInv' /\ Used' \subseteq Used
    BY <1>1, <2>0, <2>1, ArmsMove, Zenon
  <2> QED BY <1>1, <2>2, Zenon DEF IsArmed
<1>3. CASE ~a.cancelled
  <2>0. arms' = (arms \ {a}) \union {[a EXCEPT !.at = "loading"]} /\ loading' = TRUE /\ loads' = loads + 1
    BY <1>3, Zenon DEF WaitEnds
  <2>1. loads' = 1
    <3>1. loads' = 0 + 1
      BY <1>1, <2>0, Zenon DEF EarInv
    <3> QED BY <3>1
  <2>2. loading' /\ {arming', loading', backing'} \subseteq BOOLEAN
    BY <1>1, <2>0, <1>b, Zenon
  <2>3. EarInv' /\ Used' \subseteq Used
    BY <1>1, <1>3, <2>0, <2>1, <2>2, ArmsMove, Zenon
  <2> QED BY <1>1, <2>3, Zenon DEF IsArmed
<1> QED BY <1>2, <1>3, Zenon

LEMMA LoadEndsKeeps ==
  ASSUME EarInv, NEW a \in arms, LoadEnds(a)
  PROVE  EarInv' /\ Used' \subseteq Used /\ (IsArmed' => IsArmed)
<1>1. a.at = "loading" /\ arms' = arms \ {a} /\ loading' = FALSE /\ loads' = loads - 1 /\ frames' = frames
  BY Zenon DEF LoadEnds
<1>b. {arming, loading, backing} \subseteq BOOLEAN
  BY Zenon DEF EarInv
<1>2. loads' = 0
  <2>1. loads' = 1 - 1
    BY <1>1, Zenon DEF EarInv
  <2> QED BY <2>1
<1>3. CASE a.cancelled
  <2>1. UNCHANGED <<engines, recorder, arming, backing>>
    BY <1>3, Zenon DEF LoadEnds, Loaded, Failed
  <2>2. {arming', loading', backing'} \subseteq BOOLEAN /\ ~loading'
    BY <1>1, <1>b, <2>1, Zenon
  <2>3. EarInv' /\ Used' \subseteq Used
    BY <1>1, <1>2, <2>1, <2>2, ArmsMove, Zenon
  <2> QED BY <2>1, <2>3, Zenon DEF IsArmed
<1>4. CASE ~a.cancelled /\ arming' = FALSE /\ backing' = TRUE /\ UNCHANGED <<engines, recorder>>
  <2>2. {arming', loading', backing'} \subseteq BOOLEAN /\ ~loading'
    BY <1>1, <1>b, <1>4, Zenon
  <2>3. EarInv' /\ Used' \subseteq Used
    BY <1>1, <1>2, <1>4, <2>2, ArmsMove, Zenon
  <2> QED BY <1>4, <2>3, Zenon DEF IsArmed
<1>5. CASE ~a.cancelled /\ engines' = engines \union {a.id} /\ recorder' = a.id /\ arming' = FALSE /\ backing' = FALSE
  <2>1. arming /\ recorder = 0 /\ engines = {} /\ a \in ArmCalls
    BY <1>5, Zenon DEF EarInv
  <2>2. a.id \in 1..MaxArms
    BY <2>1, ArmIs, Zenon
  <2>3. a.id # 0 /\ a.id \in 0..MaxArms
    BY <2>2, VoiceBounds, SMT
  <2>4. engines' = {recorder'} /\ recorder' # 0 /\ recorder' \in 0..MaxArms /\ engines' \subseteq 1..MaxArms
    BY <1>5, <2>1, <2>2, <2>3, Zenon
  <2>5. Used' \subseteq Used
    BY <1>1, <1>5, Zenon DEF Used
  <2>6. \A b \in arms' : /\ ~b.cancelled => arming'
                         /\ b.at = "loading" => loading'
                         /\ \A c \in arms' : ~b.cancelled /\ ~c.cancelled => b = c
                         /\ \A c \in arms' : b.at = "loading" /\ c.at = "loading" => b = c
    <3> TAKE b \in arms'
    <3>0. b \in arms /\ b # a
      BY <1>1, Zenon
    <3>1. b.cancelled /\ b.at # "loading"
      BY <1>1, <1>5, <3>0, Zenon DEF EarInv
    <3> QED BY <3>1, Zenon
  <2>7. {arming', loading', backing'} \subseteq BOOLEAN
    BY <1>1, <1>5, Zenon
  <2>8. arms' \subseteq ArmCalls
    BY <1>1, Zenon DEF EarInv
  <2>9. EarInv'
    BY <1>1, <1>2, <1>5, <2>4, <2>6, <2>7, <2>8, Zenon DEF EarInv
  <2> QED BY <2>1, <2>5, <2>9, Zenon DEF IsArmed
<1> QED BY <1>3, <1>4, <1>5, Zenon DEF LoadEnds, Loaded, Failed

(* The rest of the listener.                                               *)
LEMMA EarKeeps ==
  ASSUME EarInv, FrameTaken \/ EarFails \/ BackoffPasses \/ \E r \in frames : NoWake(r)
  PROVE  EarInv' /\ Used' \subseteq Used /\ (IsArmed' => IsArmed)
<1>b. {arming, loading, backing} \subseteq BOOLEAN
  BY Zenon DEF EarInv
<1>1. CASE FrameTaken
  <2>1. /\ recorder # 0 /\ frames' = frames \union {recorder} /\ UNCHANGED ear
    BY <1>1, Zenon DEF FrameTaken
  <2>2. /\ arming' = arming /\ arms' = arms /\ loading' = loading /\ loads' = loads /\ recorder' = recorder
        /\ engines' = engines /\ backing' = backing
    BY <2>1, Zenon DEF ear
  <2>3. recorder \in engines
    BY <2>1, Zenon DEF EarInv
  <2>4. Used' \subseteq Used
    BY <2>1, <2>2, <2>3, Zenon DEF Used
  <2>5. frames' \subseteq 1..MaxArms
    BY <2>1, <2>3, Zenon DEF EarInv
  <2> QED BY <2>2, <2>4, <2>5, Zenon DEF EarInv, IsArmed
<1>2. CASE EarFails
  <2>1. /\ recorder # 0 /\ recorder' = 0 /\ engines' = engines \ {recorder} /\ backing' = TRUE
        /\ UNCHANGED <<arming, arms, loading, loads, frames>>
    BY <1>2, Zenon DEF EarFails
  <2>2. engines' = {}
    BY <2>1, Zenon DEF EarInv
  <2>3. Used' \subseteq Used
    BY <2>1, <2>2, Zenon DEF Used
  <2>4. 0 \in 0..MaxArms
    BY VoiceBounds, SMT
  <2>5. {arming', loading', backing'} \subseteq BOOLEAN
    BY <2>1, <1>b, Zenon
  <2> QED BY <2>1, <2>2, <2>3, <2>4, <2>5, Zenon DEF EarInv, IsArmed
<1>3. CASE BackoffPasses
  <2>1. /\ backing' = FALSE /\ UNCHANGED <<arming, arms, loading, loads, recorder, engines, frames>>
    BY <1>3, Zenon DEF BackoffPasses
  <2>3. Used' \subseteq Used
    BY <2>1, Zenon DEF Used
  <2>5. {arming', loading', backing'} \subseteq BOOLEAN
    BY <2>1, <1>b, Zenon
  <2> QED BY <2>1, <2>3, <2>5, Zenon DEF EarInv, IsArmed
<1>4. ASSUME NEW r \in frames, NoWake(r)
      PROVE  EarInv' /\ Used' \subseteq Used /\ (IsArmed' => IsArmed)
  <2>1. frames' \subseteq frames /\ UNCHANGED ear
    BY <1>4, Zenon DEF NoWake
  <2>2. /\ arming' = arming /\ arms' = arms /\ loading' = loading /\ loads' = loads /\ recorder' = recorder
        /\ engines' = engines /\ backing' = backing
    BY <2>1, Zenon DEF ear
  <2>4. Used' \subseteq Used
    BY <2>1, <2>2, Zenon DEF Used
  <2>5. frames' \subseteq 1..MaxArms
    BY <2>1, Zenon DEF EarInv
  <2> QED BY <2>2, <2>4, <2>5, Zenon DEF EarInv, IsArmed
<1> QED BY <1>1, <1>2, <1>3, <1>4, Zenon

(***************************************************************************)
(* The line                                                                *)
(***************************************************************************)
(* Nothing more comes to be told than was opened meanwhile.                *)
NoMoreToTell == ToTell' + opened <= ToTell + opened'

LEMMA OneIs == One(0) = 0 /\ \A i : One(i) \in {0, 1} /\ (i # 0 => One(i) = 1)
BY Zenon DEF One

(* The line's account, from that of its four parts.                        *)
LEMMA LineHolds ==
  ASSUME LineInv, opened' \in 0..MaxLines, conv' \in 0..MaxLines, ending' \in 0..MaxLines, lines' \subseteq 1..MaxLines,
         starts' \subseteq StartCalls, IsFiniteSet(starts'), states' \in Seq(BOOLEAN),
         Cardinality(Closings(states')) + Cardinality(starts') + One(ending') + One(conv') + opened
           <= Cardinality(Closings(states)) + Cardinality(starts) + One(ending) + One(conv) + opened'
  PROVE  LineInv' /\ NoMoreToTell
<1>1. Cardinality(Closings(states')) \in Nat /\ Cardinality(starts') \in Nat
  BY ClosingsAre, FS_CardinalityType, Zenon
<1>2. One(ending') \in {0, 1} /\ One(conv') \in {0, 1}
  BY OneIs, Zenon
<1>3. Cardinality(Closings(states)) \in Nat /\ Cardinality(starts) \in Nat /\ One(ending) \in {0, 1} /\ One(conv) \in {0, 1}
  BY ToTellIs, Zenon
<1>4. ToTell <= opened /\ opened \in 0..MaxLines
  BY Zenon DEF LineInv
<1>5. NoMoreToTell
  BY <1>1, <1>2, <1>3, SMT DEF NoMoreToTell, ToTell
<1>6. ToTell' <= opened'
  <2>1. ToTell \in Nat /\ ToTell' \in Nat
    BY <1>1, <1>2, <1>3, SMT DEF ToTell
  <2>2. opened \in Nat /\ opened' \in Nat
    BY <1>4, VoiceBounds, SMT
  <2>3. ToTell' + opened <= ToTell + opened'
    BY <1>5, Zenon DEF NoMoreToTell
  <2>4. ToTell <= opened
    BY <1>4, Zenon
  <2>5. \A t, u, o, p \in Nat : t <= o /\ u + o <= t + p => u <= p
    BY SMT
  <2> QED BY <2>1, <2>2, <2>3, <2>4, <2>5, Zenon
<1> QED BY <1>5, <1>6, Zenon DEF LineInv

(* One call of start() goes, or its wait changes.                          *)
LEMMA StartGoes ==
  ASSUME LineInv, NEW s \in starts
  PROVE  /\ starts \ {s} \subseteq StartCalls /\ IsFiniteSet(starts \ {s})
         /\ Cardinality(starts \ {s}) = Cardinality(starts) - 1
         /\ LET t == (starts \ {s}) \union {[s EXCEPT !.at = "opening"]}
            IN  t \subseteq StartCalls /\ IsFiniteSet(t) /\ Cardinality(t) <= Cardinality(starts)
         /\ s.id \in 1..MaxLines
<1>1. IsFiniteSet(starts) /\ starts \subseteq StartCalls
  BY Zenon DEF LineInv
<1>2. IsFiniteSet(starts \ {s}) /\ Cardinality(starts \ {s}) = Cardinality(starts) - 1
  BY <1>1, FS_RemoveElement, Zenon
<1>3. [s EXCEPT !.at = "opening"] \in StartCalls /\ s.id \in 1..MaxLines
  BY <1>1, Zenon DEF StartCalls
<1> DEFINE t == (starts \ {s}) \union {[s EXCEPT !.at = "opening"]}
<1>4. /\ IsFiniteSet(t)
      /\ Cardinality(t) = IF [s EXCEPT !.at = "opening"] \in starts \ {s} THEN Cardinality(starts \ {s})
                                                                         ELSE Cardinality(starts \ {s}) + 1
  BY <1>2, FS_AddElement, Zenon
<1>5. Cardinality(starts) \in Nat
  BY <1>1, FS_CardinalityType, Zenon
<1>6. Cardinality(t) = Cardinality(starts \ {s}) \/ Cardinality(t) = Cardinality(starts \ {s}) + 1
  BY <1>4, Zenon
<1> HIDE DEF t
<1>7. Cardinality(t) <= Cardinality(starts)
  BY <1>2, <1>5, <1>6, SMT
<1>8. t \subseteq StartCalls
  BY <1>1, <1>3, Zenon DEF t
<1> QED BY <1>1, <1>2, <1>3, <1>4, <1>7, <1>8, Zenon DEF t

LEMMA LineStartKeeps ==
  ASSUME LineInv, Start, states' = states
  PROVE  LineInv' /\ NoMoreToTell
<1>1. /\ opened < MaxLines /\ opened' = opened + 1 /\ conv' = conv /\ ending' = ending /\ lines' = lines
      /\ starts' = starts \union {[id |-> opened + 1, at |-> "ticket"]}
  BY Zenon DEF Start
<1>2. /\ opened \in 0..MaxLines /\ conv \in 0..MaxLines /\ ending \in 0..MaxLines /\ lines \subseteq 1..MaxLines
      /\ starts \subseteq StartCalls /\ IsFiniteSet(starts) /\ states \in Seq(BOOLEAN)
  BY Zenon DEF LineInv
<1>3. opened' \in 0..MaxLines /\ opened + 1 \in 1..MaxLines
  BY <1>1, <1>2, VoiceBounds, SMT
<1>4. starts' \subseteq StartCalls
  <2>1. [id |-> opened + 1, at |-> "ticket"] \in StartCalls
    BY <1>3, Zenon DEF StartCalls
  <2> QED BY <1>1, <1>2, <2>1, Zenon
<1>5. IsFiniteSet(starts') /\ (Cardinality(starts') = Cardinality(starts) \/ Cardinality(starts') = Cardinality(starts) + 1)
  BY <1>1, <1>2, FS_AddElement, Zenon
<1>6. /\ Cardinality(Closings(states)) \in Nat /\ Cardinality(starts) \in Nat
      /\ One(ending) \in {0, 1} /\ One(conv) \in {0, 1}
  BY ToTellIs, Zenon
<1>7. Cardinality(Closings(states')) = Cardinality(Closings(states)) /\ One(ending') = One(ending) /\ One(conv') = One(conv)
  BY <1>1, Zenon
<1>8. Cardinality(Closings(states')) + Cardinality(starts') + One(ending') + One(conv') + opened
        <= Cardinality(Closings(states)) + Cardinality(starts) + One(ending) + One(conv) + opened'
  <2>1. opened \in Nat
    BY <1>2, VoiceBounds, SMT
  <2> QED BY <2>1, <1>1, <1>5, <1>6, <1>7, SMT
<1> QED BY <1>1, <1>2, <1>3, <1>4, <1>5, <1>8, LineHolds, Zenon

LEMMA LineCallsKeep ==
  ASSUME LineInv, NEW s \in starts, Ticket(s) \/ Opens(s) \/ OpenFails(s)
  PROVE  LineInv' /\ NoMoreToTell
<1>1. /\ starts \ {s} \subseteq StartCalls /\ IsFiniteSet(starts \ {s})
      /\ Cardinality(starts \ {s}) = Cardinality(starts) - 1 /\ s.id \in 1..MaxLines
  BY StartGoes, Zenon
<1>t. LET t == (starts \ {s}) \union {[s EXCEPT !.at = "opening"]}
      IN  t \subseteq StartCalls /\ IsFiniteSet(t) /\ Cardinality(t) <= Cardinality(starts)
  BY StartGoes, Zenon
<1>2. /\ opened \in 0..MaxLines /\ conv \in 0..MaxLines /\ ending \in 0..MaxLines /\ lines \subseteq 1..MaxLines
      /\ states \in Seq(BOOLEAN)
  BY Zenon DEF LineInv
<1>3. /\ Cardinality(Closings(states)) \in Nat /\ Cardinality(starts) \in Nat
      /\ One(ending) \in {0, 1} /\ One(conv) \in {0, 1} /\ opened \in Nat /\ 0 \in 0..MaxLines
  <2>1. opened \in Nat /\ 0 \in 0..MaxLines
    BY <1>2, VoiceBounds, SMT
  <2> QED BY <2>1, ToTellIs, Zenon
<1>4. CASE Ticket(s)
  <2>1. /\ conv' = conv /\ ending' = ending /\ lines' = lines /\ opened' = opened /\ states' = states
        /\ starts' = starts \ {s} \/ starts' = (starts \ {s}) \union {[s EXCEPT !.at = "opening"]}
    BY <1>4, Zenon DEF Ticket
  <2>2. starts' \subseteq StartCalls /\ IsFiniteSet(starts')
    BY <1>1, <1>t, <2>1, Zenon
  <2>3. Cardinality(starts') <= Cardinality(starts)
    <3>1. Cardinality(starts \ {s}) <= Cardinality(starts)
      BY <1>1, <1>3, SMT
    <3> QED BY <3>1, <1>t, <2>1, Zenon
  <2>4. Cardinality(Closings(states')) = Cardinality(Closings(states)) /\ One(ending') = One(ending) /\ One(conv') = One(conv)
    BY <2>1, Zenon
  <2>5. Cardinality(starts') \in Nat
    BY <2>2, FS_CardinalityType, Zenon
  <2>6. Cardinality(Closings(states')) + Cardinality(starts') + One(ending') + One(conv') + opened
          <= Cardinality(Closings(states)) + Cardinality(starts) + One(ending) + One(conv) + opened'
    BY <1>3, <2>1, <2>3, <2>4, <2>5, SMT
  <2> QED BY <1>2, <2>1, <2>2, <2>6, LineHolds, Zenon
<1>5. CASE Opens(s)
  <2>1. /\ conv' = s.id /\ ending' = ending /\ lines' = lines \union {s.id} /\ opened' = opened
        /\ states' = Append(states, TRUE) /\ starts' = starts \ {s}
    BY <1>5, Zenon DEF Opens
  <2>2. states' \in Seq(BOOLEAN) /\ Cardinality(Closings(states')) = Cardinality(Closings(states))
    <3>1. TRUE \in BOOLEAN
      OBVIOUS
    <3> QED BY <3>1, <1>2, <2>1, ClosingsAppended, WithOneMore, Zenon
  <2>3. conv' \in 0..MaxLines /\ lines' \subseteq 1..MaxLines
    <3>1. s.id \in 0..MaxLines
      BY <1>1, VoiceBounds, SMT
    <3> QED BY <3>1, <1>1, <1>2, <2>1, Zenon
  <2>4. One(ending') = One(ending) /\ One(conv') \in {0, 1}
    BY <2>1, OneIs, Zenon
  <2>5. Cardinality(starts') = Cardinality(starts) - 1
    BY <1>1, <2>1, Zenon
  <2>6. Cardinality(Closings(states')) + Cardinality(starts') + One(ending') + One(conv') + opened
          <= Cardinality(Closings(states)) + Cardinality(starts) + One(ending) + One(conv) + opened'
    <3>1. opened' = opened
      BY <2>1, Zenon
    <3> QED BY <1>3, <2>2, <2>4, <2>5, <3>1, SMT
  <2> QED BY <1>1, <1>2, <2>1, <2>2, <2>3, <2>6, LineHolds, Zenon
<1>6. CASE OpenFails(s)
  <2>1. /\ conv' = 0 /\ ending' = ending /\ lines' = lines /\ opened' = opened
        /\ states' = Append(states, FALSE) /\ starts' = starts \ {s}
    BY <1>6, Zenon DEF OpenFails
  <2>2. states' \in Seq(BOOLEAN) /\ Cardinality(Closings(states')) = Cardinality(Closings(states)) + 1
    <3>1. FALSE \in BOOLEAN
      OBVIOUS
    <3> QED BY <3>1, <1>2, <2>1, ClosingsAppended, WithOneMore, Zenon
  <2>4. One(ending') = One(ending) /\ One(conv') = 0
    BY <2>1, OneIs, Zenon
  <2>5. Cardinality(starts') = Cardinality(starts) - 1
    BY <1>1, <2>1, Zenon
  <2>6. Cardinality(Closings(states')) + Cardinality(starts') + One(ending') + One(conv') + opened
          <= Cardinality(Closings(states)) + Cardinality(starts) + One(ending) + One(conv) + opened'
    <3>1. opened' = opened
      BY <2>1, Zenon
    <3> QED BY <1>3, <2>2, <2>4, <2>5, <3>1, SMT
  <2> QED BY <1>1, <1>2, <1>3, <2>1, <2>2, <2>6, LineHolds, Zenon
<1> QED BY <1>4, <1>5, <1>6, Zenon

LEMMA LineEndsKeep ==
  ASSUME LineInv, End \/ Ended \/ \E l \in lines : HangsUp(l)
  PROVE  LineInv' /\ NoMoreToTell
<1>2. /\ opened \in 0..MaxLines /\ conv \in 0..MaxLines /\ ending \in 0..MaxLines /\ lines \subseteq 1..MaxLines
      /\ states \in Seq(BOOLEAN) /\ starts \subseteq StartCalls /\ IsFiniteSet(starts)
  BY Zenon DEF LineInv
<1>3. /\ Cardinality(Closings(states)) \in Nat /\ Cardinality(starts) \in Nat
      /\ One(ending) \in {0, 1} /\ One(conv) \in {0, 1} /\ opened \in Nat /\ 0 \in 0..MaxLines
  <2>1. opened \in Nat /\ 0 \in 0..MaxLines
    BY <1>2, VoiceBounds, SMT
  <2> QED BY <2>1, ToTellIs, Zenon
<1>f. FALSE \in BOOLEAN
  OBVIOUS
<1>4. CASE End
  <2>1. /\ conv # 0 /\ ending = 0 /\ conv' = 0 /\ ending' = conv /\ lines' = lines /\ opened' = opened /\ states' = states
        /\ starts' = starts
    BY <1>4, Zenon DEF End
  <2>2. One(conv') = 0 /\ One(ending') = 1 /\ One(conv) = 1 /\ One(ending) = 0
    BY <2>1, OneIs, Zenon
  <2>3. Cardinality(Closings(states')) = Cardinality(Closings(states)) /\ Cardinality(starts') = Cardinality(starts)
        /\ opened' = opened
    BY <2>1, Zenon
  <2>6. Cardinality(Closings(states')) + Cardinality(starts') + One(ending') + One(conv') + opened
          <= Cardinality(Closings(states)) + Cardinality(starts) + One(ending) + One(conv) + opened'
    BY <1>3, <2>2, <2>3, SMT
  <2> QED BY <1>2, <1>3, <2>1, <2>6, LineHolds, Zenon
<1>5. CASE Ended
  <2>1. /\ ending # 0 /\ ending' = 0 /\ conv' = conv /\ lines' \subseteq lines /\ opened' = opened
        /\ states' = Append(states, FALSE) /\ starts' = starts
    BY <1>5, Zenon DEF Ended
  <2>2. One(conv') = One(conv) /\ One(ending') = 0 /\ One(ending) = 1
    BY <2>1, OneIs, Zenon
  <2>3. states' \in Seq(BOOLEAN) /\ Cardinality(Closings(states')) = Cardinality(Closings(states)) + 1
    BY <1>f, <1>2, <2>1, ClosingsAppended, WithOneMore, Zenon
  <2>4. Cardinality(starts') = Cardinality(starts) /\ opened' = opened
    BY <2>1, Zenon
  <2>6. Cardinality(Closings(states')) + Cardinality(starts') + One(ending') + One(conv') + opened
          <= Cardinality(Closings(states)) + Cardinality(starts) + One(ending) + One(conv) + opened'
    BY <1>3, <2>2, <2>3, <2>4, SMT
  <2> QED BY <1>2, <1>3, <2>1, <2>3, <2>6, LineHolds, Zenon
<1>6. ASSUME NEW l \in lines, HangsUp(l)
      PROVE  LineInv' /\ NoMoreToTell
  <2>1. /\ conv' = 0 /\ ending' = ending /\ lines' \subseteq lines /\ opened' = opened /\ starts' = starts
        /\ (conv = 0 /\ states' = states) \/ (conv # 0 /\ states' = Append(states, FALSE))
    BY <1>6, Zenon DEF HangsUp
  <2>2. states' \in Seq(BOOLEAN)
    BY <1>f, <1>2, <2>1, WithOneMore, Zenon
  <2>3. Cardinality(Closings(states')) + One(conv') = Cardinality(Closings(states)) + One(conv)
    <3>1. CASE conv = 0 /\ states' = states
      BY <2>1, <3>1, Zenon
    <3>2. CASE conv # 0 /\ states' = Append(states, FALSE)
      <4>1. Cardinality(Closings(states')) = Cardinality(Closings(states)) + 1
        BY <1>f, <1>2, <3>2, ClosingsAppended, Zenon
      <4>2. One(conv') = 0 /\ One(conv) = 1
        BY <2>1, <3>2, OneIs, Zenon
      <4> QED BY <1>3, <4>1, <4>2, SMT
    <3> QED BY <2>1, <3>1, <3>2, Zenon
  <2>4. Cardinality(starts') = Cardinality(starts) /\ opened' = opened /\ One(ending') = One(ending) /\ One(conv') \in {0, 1}
    BY <2>1, OneIs, Zenon
  <2>5. Cardinality(Closings(states')) \in Nat
    BY <2>2, ClosingsAre, Zenon
  <2>6. Cardinality(Closings(states')) + Cardinality(starts') + One(ending') + One(conv') + opened
          <= Cardinality(Closings(states)) + Cardinality(starts) + One(ending) + One(conv) + opened'
    BY <1>3, <2>3, <2>4, <2>5, SMT
  <2> QED BY <1>2, <1>3, <2>1, <2>2, <2>6, LineHolds, Zenon
<1> QED BY <1>4, <1>5, <1>6, Zenon

(* Main is told: one closing less, if that is what it was told.            *)
LEMMA ToldKeeps ==
  ASSUME LineInv, states # <<>>, states' = Tail(states), UNCHANGED <<conv, ending, starts, lines, opened>>
  PROVE  /\ LineInv' /\ NoMoreToTell /\ Head(states) \in BOOLEAN
         /\ ~Head(states) => ToTell' + 1 <= ToTell
<1>2. /\ opened \in 0..MaxLines /\ conv \in 0..MaxLines /\ ending \in 0..MaxLines /\ lines \subseteq 1..MaxLines
      /\ states \in Seq(BOOLEAN) /\ starts \subseteq StartCalls /\ IsFiniteSet(starts)
  BY Zenon DEF LineInv
<1>3. /\ Cardinality(Closings(states)) \in Nat /\ Cardinality(starts) \in Nat
      /\ One(ending) \in {0, 1} /\ One(conv) \in {0, 1} /\ opened \in Nat
  <2>1. opened \in Nat
    BY <1>2, VoiceBounds, SMT
  <2> QED BY <2>1, ToTellIs, Zenon
<1>4. /\ states' \in Seq(BOOLEAN) /\ Head(states) \in BOOLEAN
      /\ Cardinality(Closings(states')) <= Cardinality(Closings(states))
      /\ ~Head(states) => Cardinality(Closings(states')) + 1 <= Cardinality(Closings(states))
  BY <1>2, ClosingsOfTail, Zenon
<1>5. /\ One(ending') = One(ending) /\ One(conv') = One(conv) /\ Cardinality(starts') = Cardinality(starts) /\ opened' = opened
  BY Zenon
<1>6. Cardinality(Closings(states')) \in Nat
  BY <1>4, ClosingsAre, Zenon
<1>7. Cardinality(Closings(states')) + Cardinality(starts') + One(ending') + One(conv') + opened
        <= Cardinality(Closings(states)) + Cardinality(starts) + One(ending) + One(conv) + opened'
  <2>1. Cardinality(Closings(states')) <= Cardinality(Closings(states))
    BY <1>4, Zenon
  <2> QED BY <2>1, <1>3, <1>5, <1>6, SMT
<1>8. Cardinality(Closings(states')) + 1 <= Cardinality(Closings(states)) => ToTell' + 1 <= ToTell
  BY <1>3, <1>5, <1>6, SMT DEF ToTell
<1> QED BY <1>2, <1>4, <1>7, <1>8, LineHolds, Zenon

(* The line, when nothing of it moves.                                     *)
LEMMA LineRests ==
  ASSUME LineInv, UNCHANGED <<line, states>>
  PROVE  LineInv' /\ NoMoreToTell /\ ToTell' = ToTell /\ opened' = opened
<1>1. /\ conv' = conv /\ ending' = ending /\ starts' = starts /\ lines' = lines /\ opened' = opened /\ states' = states
  BY Zenon DEF line
<1>2. LineInv'
  BY <1>1, Zenon DEF LineInv, ToTell
<1>3. ToTell' = ToTell
  BY <1>1, Zenon DEF ToTell
<1>4. NoMoreToTell
  <2>1. opened \in Nat /\ ToTell \in Nat
    <3>1. opened \in 0..MaxLines
      BY Zenon DEF LineInv
    <3> QED BY <3>1, ToTellIs, VoiceBounds, SMT
  <2>2. ToTell + opened <= ToTell + opened
    BY <2>1, SMT
  <2> QED BY <1>1, <1>3, <2>2, Zenon DEF NoMoreToTell
<1> QED BY <1>1, <1>2, <1>3, <1>4, Zenon

(***************************************************************************)
(* When it may listen                                                      *)
(***************************************************************************)
LEMMA SyncKeeps ==
  ASSUME EarInv, fresh \in BOOLEAN, Sync, frames' = frames, WantWake' => Free # {}
  PROVE  /\ EarInv' /\ fresh' \in BOOLEAN /\ (IsArmed' => WantWake')
         /\ \/ Used' \subseteq Used
            \/ WantWake' /\ \E id \in Free : Used' = Used \union {id}
<1>1. CASE WantWake' /\ ~IsArmed /\ Arm /\ fresh' = FALSE
  BY <1>1, ArmKeeps, Zenon
<1>2. CASE ~WantWake' /\ IsArmed /\ Disarm /\ UNCHANGED fresh
  BY <1>2, DisarmKeeps, Zenon
<1>3. CASE (WantWake' <=> IsArmed) /\ UNCHANGED <<ear, fresh>>
  <2>1. /\ arming' = arming /\ arms' = arms /\ loading' = loading /\ loads' = loads /\ recorder' = recorder
        /\ engines' = engines /\ backing' = backing /\ fresh' = fresh
    BY <1>3, Zenon DEF ear
  <2>2. EarInv'
    BY <2>1, Zenon DEF EarInv
  <2>3. Used' \subseteq Used
    BY <2>1, Zenon DEF Used
  <2>4. IsArmed' => IsArmed
    BY <2>1, Zenon DEF IsArmed
  <2> QED BY <1>3, <2>1, <2>2, <2>3, <2>4, Zenon
<1> QED BY <1>1, <1>2, <1>3, Zenon DEF Sync

(* The numbers that are left, in each of the three ways a step changes them. *)
LEMMA RoomIs ==
  ASSUME LineInv, LineInv'
  PROVE  /\ ToTell \in Nat /\ ToTell' \in Nat /\ opened \in Nat /\ opened' \in Nat /\ MaxLines \in Nat
         /\ ToTell <= opened /\ opened <= MaxLines /\ opened' <= MaxLines
         /\ Cardinality(Free) \in Nat /\ Cardinality(Free') \in Nat
<1>1. opened \in 0..MaxLines /\ opened' \in 0..MaxLines /\ ToTell <= opened
  BY Zenon DEF LineInv
<1>2. ToTell \in Nat
  BY ToTellIs, Zenon
<1>3. ToTell' \in Nat
  <2>1. states' \in Seq(BOOLEAN) /\ IsFiniteSet(starts')
    BY Zenon DEF LineInv
  <2>2. Cardinality(Closings(states')) \in Nat /\ Cardinality(starts') \in Nat
    BY <2>1, ClosingsAre, FS_CardinalityType, Zenon
  <2>3. One(ending') \in {0, 1} /\ One(conv') \in {0, 1}
    BY OneIs, Zenon
  <2> QED BY <2>2, <2>3, SMT DEF ToTell
<1>4. opened \in Nat /\ opened' \in Nat /\ MaxLines \in Nat /\ opened <= MaxLines /\ opened' <= MaxLines
  BY <1>1, VoiceBounds, SMT
<1> QED BY <1>1, <1>2, <1>3, <1>4, FreeIs, Zenon

LEMMA RoomSums ==
  /\ \A f, g, t, u, o, p, m \in Nat :
       f >= t + (m - o) /\ f <= g /\ u + o <= t + p /\ o <= m /\ p <= m => g >= u + (m - p)
  /\ \A f, g, t, o, m \in Nat :
       f > m /\ (f <= g \/ g = f - 1) /\ t <= o /\ o <= m => g >= t + (m - o)
  /\ \A f, g, t, u, o, m \in Nat :
       f >= t + (m - o) /\ g = f - 1 /\ u + 1 <= t /\ o <= m => g >= u + (m - o)
  /\ \A f, t, u, o, m \in Nat : f >= t + (m - o) /\ u + 1 <= t /\ o <= m => f >= 1
  /\ \A f, m \in Nat : f > m => f >= 1
BY SMT

LEMMA RoomStays ==
  ASSUME LineInv, LineInv', RoomLeft, Used' \subseteq Used, lit' => lit, NoMoreToTell
  PROVE  RoomLeft'
<1>1. Cardinality(Free) <= Cardinality(Free')
  BY FreeGrows, Zenon
<1>2. ASSUME lit'
      PROVE  Cardinality(Free') >= ToTell' + (MaxLines - opened')
  <2>1. Cardinality(Free) >= ToTell + (MaxLines - opened)
    BY <1>2, Zenon DEF RoomLeft
  <2> QED BY <1>1, <2>1, RoomIs, RoomSums, Zenon DEF NoMoreToTell
<1> QED BY <1>2, Zenon DEF RoomLeft

(* A step that leaves the light, the Mac and the line's flag alone.        *)
LEMMA ListenerKeeps ==
  ASSUME VoiceInv, UNCHANGED <<lit, lineOpen, power>>, EarInv', Used' \subseteq Used, IsArmed' => IsArmed,
         LineInv', NoMoreToTell
  PROVE  VoiceInv'
<1>1. /\ lit' = lit /\ lineOpen' = lineOpen /\ asleep' = asleep /\ locked' = locked /\ settling' = settling /\ fresh' = fresh
  BY Zenon DEF power
<1>2. (lit' => lit) /\ (WantWake => WantWake')
  <2>1. (lit' <=> lit) /\ (lineOpen' <=> lineOpen) /\ (asleep' <=> asleep) /\ (locked' <=> locked) /\ (settling' <=> settling)
    BY <1>1
  <2> QED BY <2>1, Zenon DEF WantWake
<1>3. RoomLeft'
  <2>1. LineInv /\ RoomLeft
    BY Zenon DEF VoiceInv
  <2> QED BY <1>2, <2>1, RoomStays, Zenon
<1>4. {lit', lineOpen', asleep', locked', settling', fresh'} \subseteq BOOLEAN
  BY <1>1, Zenon DEF VoiceInv
<1>5. IsArmed' => WantWake'
  BY <1>2, Zenon DEF VoiceInv
<1> QED BY <1>3, <1>4, <1>5, Zenon DEF VoiceInv

(* syncWakeWord, with room for the arm it may make.                        *)
LEMMA LookKeeps ==
  ASSUME VoiceInv, Room, Sync, UNCHANGED <<frames, line, states>>,
         {lit', lineOpen', asleep', locked', settling'} \subseteq BOOLEAN
  PROVE  VoiceInv'
<1>1. EarInv /\ LineInv /\ fresh \in BOOLEAN /\ frames' = frames
  BY Zenon DEF VoiceInv
<1>2. LineInv' /\ ToTell' = ToTell /\ opened' = opened
  BY <1>1, LineRests, Zenon
<1>3. Cardinality(Free) > MaxLines
  BY Zenon DEF Room
<1>4. Free # {}
  <2>1. Cardinality(Free) >= 1
    BY <1>1, <1>2, <1>3, RoomIs, RoomSums, Zenon
  <2> QED BY <2>1, FreeIsThere, Zenon
<1>5. /\ EarInv' /\ fresh' \in BOOLEAN /\ (IsArmed' => WantWake')
      /\ Used' \subseteq Used \/ \E id \in Free : Used' = Used \union {id}
  BY <1>1, <1>4, SyncKeeps, Zenon
<1>6. Cardinality(Free) <= Cardinality(Free') \/ Cardinality(Free') = Cardinality(Free) - 1
  BY <1>5, FreeGrows, FreeTaken, Zenon
<1>7. Cardinality(Free') >= ToTell + (MaxLines - opened)
  BY <1>1, <1>2, <1>3, <1>6, RoomIs, RoomSums, Zenon
<1>8. RoomLeft'
  BY <1>2, <1>7, Zenon DEF RoomLeft
<1>9. {lit', lineOpen', asleep', locked', settling', fresh'} \subseteq BOOLEAN
  BY <1>5, Zenon
<1> QED BY <1>2, <1>5, <1>8, <1>9, Zenon DEF VoiceInv

LEMMA ToldIsKept ==
  ASSUME VoiceInv, Told
  PROVE  VoiceInv'
<1>1. /\ EarInv /\ LineInv /\ RoomLeft /\ fresh \in BOOLEAN /\ frames' = frames
      /\ states # <<>> /\ states' = Tail(states) /\ lineOpen' = Head(states)
      /\ lit' = lit /\ asleep' = asleep /\ locked' = locked /\ settling' = settling /\ UNCHANGED line /\ Sync
  BY Zenon DEF VoiceInv, Told
<1>2. UNCHANGED <<conv, ending, starts, lines, opened>>
  BY <1>1, Zenon DEF line
<1>3. /\ LineInv' /\ NoMoreToTell /\ Head(states) \in BOOLEAN
      /\ ~Head(states) => ToTell' + 1 <= ToTell
  BY <1>1, <1>2, ToldKeeps, Zenon
<1>4. ASSUME WantWake'
      PROVE  /\ Cardinality(Free) >= ToTell + (MaxLines - opened) /\ ToTell' + 1 <= ToTell
             /\ Free # {}
  <2>1. lit /\ ~Head(states)
    BY <1>1, <1>4, Zenon DEF WantWake
  <2>2. Cardinality(Free) >= ToTell + (MaxLines - opened) /\ ToTell' + 1 <= ToTell
    BY <1>1, <1>3, <2>1, Zenon DEF RoomLeft
  <2>3. Cardinality(Free) >= 1
    BY <1>1, <1>3, <2>2, RoomIs, RoomSums, Zenon
  <2> QED BY <2>2, <2>3, FreeIsThere, Zenon
<1>5. /\ EarInv' /\ fresh' \in BOOLEAN /\ (IsArmed' => WantWake')
      /\ \/ Used' \subseteq Used
         \/ WantWake' /\ \E id \in Free : Used' = Used \union {id}
  BY <1>1, <1>4, SyncKeeps, Zenon
<1>6. RoomLeft'
  <2>1. CASE Used' \subseteq Used
    BY <1>1, <1>3, <2>1, RoomStays, Zenon
  <2>2. CASE WantWake' /\ \E id \in Free : Used' = Used \union {id}
    <3>1. Cardinality(Free') = Cardinality(Free) - 1
      BY <2>2, FreeTaken, Zenon
    <3>2. Cardinality(Free') >= ToTell' + (MaxLines - opened)
      BY <1>1, <1>3, <1>4, <2>2, <3>1, RoomIs, RoomSums, Zenon
    <3> QED BY <1>2, <3>2, Zenon DEF RoomLeft
  <2> QED BY <1>5, <2>1, <2>2, Zenon
<1>7. {lit', lineOpen', asleep', locked', settling', fresh'} \subseteq BOOLEAN
  BY <1>1, <1>3, <1>5, Zenon DEF VoiceInv
<1> QED BY <1>3, <1>5, <1>6, <1>7, Zenon DEF VoiceInv

(* The Mac sleeps or locks: what listens is let go in the same step.       *)
LEMMA StandDownKeeps ==
  ASSUME VoiceInv, StandDown, {asleep', locked'} \subseteq BOOLEAN
  PROVE  VoiceInv'
<1>1. /\ EarInv /\ LineInv /\ RoomLeft /\ frames' = frames /\ lit' = lit /\ lineOpen' = lineOpen
      /\ settling' = FALSE /\ fresh' = FALSE /\ UNCHANGED <<line, states>>
  BY Zenon DEF VoiceInv, StandDown
<1>2. LineInv' /\ NoMoreToTell
  BY <1>1, LineRests, Zenon
<1>3. EarInv' /\ Used' \subseteq Used /\ ~IsArmed'
  <2>1. CASE IsArmed
    <3>1. Disarm
      BY <2>1, Zenon DEF StandDown
    <3> QED BY <1>1, <3>1, DisarmKeeps, Zenon
  <2>2. CASE ~IsArmed
    <3>1. UNCHANGED ear
      BY <2>2, Zenon DEF StandDown
    <3>2. /\ arming' = arming /\ arms' = arms /\ loading' = loading /\ loads' = loads /\ recorder' = recorder
          /\ engines' = engines /\ backing' = backing
      BY <3>1, Zenon DEF ear
    <3>3. EarInv' /\ Used' \subseteq Used /\ (IsArmed' => IsArmed)
      BY <1>1, <3>2, Zenon DEF EarInv, Used, IsArmed
    <3> QED BY <2>2, <3>3, Zenon
  <2> QED BY <2>1, <2>2, Zenon
<1>4. RoomLeft'
  BY <1>1, <1>2, <1>3, RoomStays, Zenon
<1>5. {lit', lineOpen', asleep', locked', settling', fresh'} \subseteq BOOLEAN
  BY <1>1, Zenon DEF VoiceInv
<1> QED BY <1>2, <1>3, <1>4, <1>5, Zenon DEF VoiceInv

(* It comes back: nothing listened, and nothing does yet.                  *)
LEMMA ComesBackKeeps ==
  ASSUME VoiceInv, Resume \/ Unlock
  PROVE  VoiceInv'
<1>1. /\ EarInv /\ LineInv /\ RoomLeft /\ frames' = frames /\ lit' = lit /\ lineOpen' = lineOpen
      /\ UNCHANGED ear /\ UNCHANGED <<line, states>> /\ (asleep \/ locked)
  BY Zenon DEF VoiceInv, Resume, Unlock
<1>2. ~IsArmed
  BY <1>1, Zenon DEF VoiceInv, WantWake
<1>3. /\ arming' = arming /\ arms' = arms /\ loading' = loading /\ loads' = loads /\ recorder' = recorder
      /\ engines' = engines /\ backing' = backing
  BY <1>1, Zenon DEF ear
<1>4. EarInv' /\ Used' \subseteq Used /\ (IsArmed' => IsArmed)
  BY <1>1, <1>3, Zenon DEF EarInv, Used, IsArmed
<1>5. LineInv' /\ NoMoreToTell
  BY <1>1, LineRests, Zenon
<1>6. RoomLeft'
  BY <1>1, <1>4, <1>5, RoomStays, Zenon
<1>7. {lit, lineOpen, asleep, locked, settling, fresh} \subseteq BOOLEAN
  BY Zenon DEF VoiceInv
<1>8. {asleep', locked', fresh'} \subseteq BOOLEAN
  BY <1>7, Zenon DEF Resume, Unlock
<1>9. settling' \in BOOLEAN
  BY Zenon DEF Resume, Unlock
<1>10. {lit', lineOpen', asleep', locked', settling', fresh'} \subseteq BOOLEAN
  BY <1>1, <1>7, <1>8, <1>9, Zenon
<1> QED BY <1>2, <1>4, <1>5, <1>6, <1>10, Zenon DEF VoiceInv

(* A step of the renderer's line: the listener rests, but for a frame that is over. *)
LEMMA LineMoves ==
  ASSUME VoiceInv, UNCHANGED <<lit, lineOpen, power, ear>>, frames' \subseteq frames, LineInv', NoMoreToTell
  PROVE  VoiceInv'
<1>1. /\ arming' = arming /\ arms' = arms /\ loading' = loading /\ loads' = loads /\ recorder' = recorder
      /\ engines' = engines /\ backing' = backing
  BY Zenon DEF ear
<1>2. EarInv /\ frames \subseteq 1..MaxArms
  BY Zenon DEF VoiceInv, EarInv
<1>3. EarInv'
  BY <1>1, <1>2, Zenon DEF EarInv
<1>4. Used' \subseteq Used /\ (IsArmed' => IsArmed)
  BY <1>1, Zenon DEF Used, IsArmed
<1> QED BY <1>3, <1>4, ListenerKeeps, Zenon

LEMMA VoiceStarts == VoiceInit => VoiceInv
<1> SUFFICES ASSUME VoiceInit PROVE VoiceInv
  OBVIOUS
<1>1. /\ lit = FALSE /\ lineOpen = FALSE /\ asleep = FALSE /\ locked \in BOOLEAN /\ settling = FALSE /\ fresh = FALSE
  BY Zenon DEF VoiceInit
<1>2. /\ arming = FALSE /\ arms = {} /\ loading = FALSE /\ loads = 0 /\ recorder = 0 /\ engines = {} /\ frames = {}
      /\ backing = FALSE
  BY Zenon DEF VoiceInit
<1>3. conv = 0 /\ ending = 0 /\ starts = {} /\ lines = {} /\ states = <<>> /\ opened = 0
  BY Zenon DEF VoiceInit
<1>4. 0 \in 0..MaxArms /\ 0 \in 0..MaxLines
  BY VoiceBounds, SMT
<1>5. EarInv
  BY <1>2, <1>4, Zenon DEF EarInv
<1>6. IsFiniteSet({}) /\ Cardinality({}) = 0
  BY FS_EmptySet, Zenon
<1>7. states \in Seq(BOOLEAN) /\ Closings(states) = {}
  <2>1. <<>> \in Seq(BOOLEAN) /\ DOMAIN <<>> = {}
    OBVIOUS
  <2> QED BY <1>3, <2>1, Zenon DEF Closings
<1>8. ToTell <= opened
  <2>1. Cardinality(Closings(states)) = 0 /\ Cardinality(starts) = 0 /\ One(ending) = 0 /\ One(conv) = 0
    BY <1>3, <1>6, <1>7, OneIs, Zenon
  <2> QED BY <1>3, <2>1, SMT DEF ToTell
<1>9. LineInv
  BY <1>3, <1>4, <1>6, <1>7, <1>8, Zenon DEF LineInv
<1>10. RoomLeft
  BY <1>1, Zenon DEF RoomLeft
<1>11. ~IsArmed
  BY <1>2, Zenon DEF IsArmed
<1>12. {lit, lineOpen, asleep, locked, settling, fresh} \subseteq BOOLEAN
  BY <1>1, Zenon
<1> QED BY <1>5, <1>9, <1>10, <1>11, <1>12, Zenon DEF VoiceInv

LEMMA VoiceKeeps == VoiceInv /\ VoiceNext => VoiceInv'
<1> SUFFICES ASSUME VoiceInv, VoiceNext PROVE VoiceInv'
  OBVIOUS
<1>1. EarInv /\ LineInv /\ {lit, lineOpen, asleep, locked, settling, fresh} \subseteq BOOLEAN
  BY Zenon DEF VoiceInv
<1>2. ASSUME EarInv' /\ Used' \subseteq Used /\ (IsArmed' => IsArmed), UNCHANGED <<lit, lineOpen, power, line, states>>
      PROVE  VoiceInv'
  <2>1. LineInv' /\ NoMoreToTell
    BY <1>1, <1>2, LineRests, Zenon
  <2> QED BY <1>2, <2>1, ListenerKeeps, Zenon
<1>3. ASSUME NEW a \in arms, MicAnswers(a) \/ WaitEnds(a) \/ LoadEnds(a)
      PROVE  VoiceInv'
  <2>1. EarInv' /\ Used' \subseteq Used /\ (IsArmed' => IsArmed)
    BY <1>1, <1>3, MicAnswersKeeps, WaitEndsKeeps, LoadEndsKeeps, Zenon
  <2>2. UNCHANGED <<lit, lineOpen, power, line, states>>
    BY <1>3, Zenon DEF MicAnswers, WaitEnds, LoadEnds
  <2> QED BY <1>2, <2>1, <2>2, Zenon
<1>4. CASE FrameTaken \/ EarFails \/ BackoffPasses \/ \E r \in frames : NoWake(r)
  <2>1. EarInv' /\ Used' \subseteq Used /\ (IsArmed' => IsArmed)
    BY <1>1, <1>4, EarKeeps, Zenon
  <2>2. UNCHANGED <<lit, lineOpen, power, line, states>>
    BY <1>4, Zenon DEF FrameTaken, EarFails, BackoffPasses, NoWake
  <2> QED BY <1>2, <2>1, <2>2, Zenon
<1>5. ASSUME NEW r \in frames, Wake(r)
      PROVE  VoiceInv'
  <2>1. UNCHANGED <<lit, lineOpen, power, ear>> /\ frames' \subseteq frames /\ Start /\ states' = states
    BY <1>5, Zenon DEF Wake
  <2>2. LineInv' /\ NoMoreToTell
    BY <1>1, <2>1, LineStartKeeps, Zenon
  <2> QED BY <2>1, <2>2, LineMoves, Zenon
<1>6. CASE Light
  <2>1. /\ Room /\ Sync /\ UNCHANGED <<frames, line, states>> /\ lit' = ~lit
        /\ lineOpen' = lineOpen /\ asleep' = asleep /\ locked' = locked /\ settling' = settling
    BY <1>6, Zenon DEF Light
  <2>2. lit' \in BOOLEAN
    BY <2>1, Zenon
  <2>3. {lit', lineOpen', asleep', locked', settling'} \subseteq BOOLEAN
    BY <1>1, <2>1, <2>2, Zenon
  <2> QED BY <2>1, <2>3, LookKeeps, Zenon
<1>7. CASE Suspend \/ Lock
  <2>1. StandDown /\ (asleep' = TRUE \/ asleep' = asleep) /\ (locked' = TRUE \/ locked' = locked)
    BY <1>7, Zenon DEF Suspend, Lock
  <2>2. {asleep', locked'} \subseteq BOOLEAN
    BY <1>1, <2>1, Zenon
  <2> QED BY <2>1, <2>2, StandDownKeeps, Zenon
<1>8. CASE Resume \/ Unlock
  BY <1>8, ComesBackKeeps, Zenon
<1>9. CASE Settle \/ Heartbeat
  <2>1. /\ Room /\ Sync /\ UNCHANGED <<frames, line, states>> /\ lit' = lit
        /\ lineOpen' = lineOpen /\ asleep' = asleep /\ locked' \in BOOLEAN /\ (settling' = FALSE \/ settling' = settling)
    BY <1>9, Zenon DEF Settle, Heartbeat
  <2>2. {lit', lineOpen', asleep', locked', settling'} \subseteq BOOLEAN
    BY <1>1, <2>1, Zenon
  <2> QED BY <2>1, <2>2, LookKeeps, Zenon
<1>10. ASSUME NEW s \in starts, Ticket(s) \/ Opens(s) \/ OpenFails(s)
       PROVE  VoiceInv'
  <2>1. UNCHANGED <<lit, lineOpen, power, ear>> /\ frames' \subseteq frames
    BY <1>10, Zenon DEF Ticket, Opens, OpenFails
  <2>2. LineInv' /\ NoMoreToTell
    BY <1>1, <1>10, LineCallsKeep, Zenon
  <2> QED BY <2>1, <2>2, LineMoves, Zenon
<1>11. CASE Hold
  <2>1. UNCHANGED <<lit, lineOpen, power, ear>> /\ frames' \subseteq frames /\ Start /\ states' = states
    BY <1>11, Zenon DEF Hold
  <2>2. LineInv' /\ NoMoreToTell
    BY <1>1, <2>1, LineStartKeeps, Zenon
  <2> QED BY <2>1, <2>2, LineMoves, Zenon
<1>12. CASE End \/ Ended \/ \E l \in lines : HangsUp(l)
  <2>1. UNCHANGED <<lit, lineOpen, power, ear>> /\ frames' \subseteq frames
    BY <1>12, Zenon DEF End, Ended, HangsUp
  <2>2. LineInv' /\ NoMoreToTell
    BY <1>1, <1>12, LineEndsKeep, Zenon
  <2> QED BY <2>1, <2>2, LineMoves, Zenon
<1>13. CASE Told
  BY <1>13, ToldIsKept, Zenon
<1> QED BY <1>3, <1>4, <1>5, <1>6, <1>7, <1>8, <1>9, <1>10, <1>11, <1>12, <1>13, Zenon DEF VoiceNext

LEMMA VoiceStays == VoiceInv /\ UNCHANGED voiceVars => VoiceInv'
<1> SUFFICES ASSUME VoiceInv, UNCHANGED voiceVars PROVE VoiceInv'
  OBVIOUS
<1>1. UNCHANGED <<lit, lineOpen, power, ear>> /\ frames' \subseteq frames /\ UNCHANGED <<line, states>>
  BY Zenon DEF voiceVars
<1>2. LineInv' /\ NoMoreToTell
  BY <1>1, LineRests, Zenon DEF VoiceInv
<1> QED BY <1>1, <1>2, LineMoves, Zenon

LEMMA VoiceFollows ==
  ASSUME VoiceInv
  PROVE  VoiceTypeOK /\ ListeningIsWanted /\ OneEngine
<1>1. VoiceTypeOK
  <2>1. {lit, lineOpen, asleep, locked, settling, fresh, arming, loading, backing} \subseteq BOOLEAN
    BY Zenon DEF VoiceInv, EarInv
  <2> QED BY <2>1, Zenon DEF VoiceTypeOK, VoiceInv, EarInv, LineInv, ArmCalls, StartCalls
<1>2. ListeningIsWanted
  BY Zenon DEF ListeningIsWanted, VoiceInv, IsArmed, WantWake
<1>3. OneEngine
  <2>1. CASE recorder # 0
    <3>1. loads = 0 /\ engines = {recorder}
      BY <2>1, Zenon DEF VoiceInv, EarInv
    <3>2. Cardinality({recorder}) = 1
      BY FS_Singleton, Zenon
    <3>3. loads = 0 /\ Cardinality(engines) = 1
      BY <3>1, <3>2, Zenon
    <3> QED BY <3>3, SMT DEF OneEngine
  <2>2. CASE recorder = 0
    <3>1. (loads = 0 \/ loads = 1) /\ engines = {}
      BY <2>2, Zenon DEF VoiceInv, EarInv
    <3>2. Cardinality({}) = 0
      BY FS_EmptySet, Zenon
    <3>3. (loads = 0 \/ loads = 1) /\ Cardinality(engines) = 0
      BY <3>1, <3>2, Zenon
    <3> QED BY <3>3, SMT DEF OneEngine
  <2> QED BY <2>1, <2>2, Zenon
<1> QED BY <1>1, <1>2, <1>3, Zenon

(***************************************************************************)
(* The cards: a request the window was told of and that is still open has  *)
(* its card, or is on the list that is being shown, or its decision failed *)
(***************************************************************************)
Tellings == [id : CardIds, what : {"requested", "resolved"}]
Ends == {"given", "refused", "expired"}
CardKinds ==
  /\ request \in [CardIds -> {"unasked", "open", "given", "refused", "expired"}]
  /\ feed \in Seq(Tellings)
  /\ recovery \in [asked : BOOLEAN, left : SUBSET CardIds]
  /\ pressed \in [CardIds -> {"", "given", "refused"}]
  /\ cardFor \subseteq CardIds /\ owed \subseteq CardIds /\ botched \subseteq CardIds
LineKinds == {live, heardAny, reachable} \subseteq BOOLEAN /\ drops \in 0..MaxDrops

Rightly(what) == IF what = "resolved" THEN Ends ELSE Ends \union {"open"}
TellingsHold == \A i \in 1..Len(feed) : request[feed[i].id] \in Rightly(feed[i].what)
OwedWereAsked == \A r \in owed : request[r] # "unasked"
OpenIsShown == \A r \in owed : request[r] = "open" => r \in cardFor \union botched \union recovery.left

CardsInv == CardKinds /\ LineKinds /\ TellingsHold /\ OwedWereAsked /\ OpenIsShown

LEMMA CardsFollow == CardsInv => CardsTypeOK /\ ToldMeansShown
<1> SUFFICES ASSUME CardsInv PROVE CardsTypeOK /\ ToldMeansShown
  OBVIOUS
<1>1. CardsTypeOK
  <2>1. (cardFor \cup owed \cup botched) \subseteq CardIds
    BY DEF CardsInv, CardKinds
  <2> QED
    BY <2>1, Zenon DEF CardsInv, CardKinds, LineKinds, CardsTypeOK, Tellings
<1>2. ToldMeansShown
  <2> SUFFICES ASSUME recovery = NoList, NEW r \in owed \cap OpenAsks PROVE r \in cardFor \cup botched
    BY Zenon DEF ToldMeansShown, Calm
  <2>1. recovery.left = {}
    BY DEF NoList
  <2> QED
    BY <2>1 DEF CardsInv, OpenIsShown, OpenAsks
<1> QED
  BY <1>1, <1>2

LEMMA CardsStart == CardsInit => CardsInv
<1> SUFFICES ASSUME CardsInit PROVE CardsInv
  OBVIOUS
<1>1. recovery \in [asked : BOOLEAN, left : SUBSET CardIds]
  <2>1. {} \in SUBSET CardIds
    OBVIOUS
  <2> QED
    BY <2>1, Zenon DEF CardsInit, NoList
<1>2. request = [r \in CardIds |-> "unasked"] /\ feed = <<>> /\ cardFor = {} /\ pressed = [r \in CardIds |-> ""]
      /\ owed = {} /\ botched = {} /\ drops = 0
  BY Zenon DEF CardsInit
<1>3. CardKinds
  <2>1. request \in [CardIds -> {"unasked", "open", "given", "refused", "expired"}]
    <3>1. request = [r \in CardIds |-> "unasked"]
      BY <1>2, Zenon
    <3> QED
      BY <3>1
  <2>2. pressed \in [CardIds -> {"", "given", "refused"}]
    <3>1. pressed = [r \in CardIds |-> ""]
      BY <1>2, Zenon
    <3> QED
      BY <3>1
  <2>3. feed \in Seq(Tellings) /\ cardFor \subseteq CardIds /\ owed \subseteq CardIds /\ botched \subseteq CardIds
    <3>1. feed = <<>> /\ cardFor = {} /\ owed = {} /\ botched = {}
      BY <1>2, Zenon
    <3> QED
      BY <3>1
  <2> QED
    BY <1>1, <2>1, <2>2, <2>3, Zenon DEF CardKinds
<1>4. LineKinds
  <2>1. {live, heardAny, reachable} \subseteq BOOLEAN
    BY Zenon DEF CardsInit
  <2>2. drops \in 0..MaxDrops
    <3>1. drops = 0 /\ MaxDrops \in Nat
      BY CardsAssumption, Zenon DEF CardsInit
    <3> QED
      BY <3>1
  <2> QED
    BY <2>1, <2>2, Zenon DEF LineKinds
<1>5. TellingsHold /\ OwedWereAsked /\ OpenIsShown
  <2>1. feed = <<>> /\ owed = {}
    BY <1>2, Zenon
  <2> QED
    BY <2>1 DEF TellingsHold, OwedWereAsked, OpenIsShown
<1> QED
  BY <1>3, <1>4, <1>5, Zenon DEF CardsInv

(* A request becomes what it was not, and the window may be told of it.    *)
LEMMA TellingKeeps ==
  ASSUME CardsInv, NEW r \in CardIds, NEW what \in {"requested", "resolved"}, NEW as \in Ends \union {"open"},
         request' = [request EXCEPT ![r] = as], FeedTold(r, what) \/ feed' = feed,
         request[r] \in {"unasked", "open"}, request[r] = "open" => as \in Ends, as \in Rightly(what)
  PROVE  /\ request' \in [CardIds -> {"unasked", "open", "given", "refused", "expired"}]
         /\ feed' \in Seq(Tellings) /\ TellingsHold'
<1>1. PICK e : e = [id |-> r, what |-> what]
  OBVIOUS
<1>2. e \in Tellings /\ e.id = r /\ e.what = what
  BY <1>1 DEF Tellings
<1>3. feed' \in {feed, Append(feed, e)}
  BY <1>1, Zenon DEF FeedTold
<1>4. feed \in Seq(Tellings) /\ request \in [CardIds -> {"unasked", "open", "given", "refused", "expired"}]
  BY DEF CardsInv, CardKinds
<1>5. feed' \in Seq(Tellings)
  BY <1>2, <1>3, <1>4
<1>6. ASSUME NEW i \in 1..Len(feed') PROVE request'[feed'[i].id] \in Rightly(feed'[i].what)
  <2>1. CASE i \in 1..Len(feed) /\ feed'[i] = feed[i]
    <3>1. feed[i] \in Tellings
      BY <1>4, <2>1
    <3>2. feed[i].id \in CardIds /\ request[feed[i].id] \in Rightly(feed[i].what)
      BY <2>1, <3>1 DEF CardsInv, TellingsHold, Tellings
    <3>3. CASE feed[i].id = r
      <4>1. as \in Ends
        BY <3>2, <3>3 DEF Rightly, Ends
      <4> QED
        BY <1>4, <2>1, <3>3, <4>1 DEF Rightly
    <3>4. CASE feed[i].id # r
      BY <1>4, <2>1, <3>2, <3>4
    <3> QED
      BY <3>3, <3>4
  <2>2. CASE feed'[i] = e
    BY <1>2, <1>4, <2>2
  <2>3. CASE feed' = feed
    BY <1>6, <2>1, <2>3
  <2>4. CASE feed' = Append(feed, e)
    <3>1. \/ i \in 1..Len(feed) /\ feed'[i] = feed[i]
          \/ feed'[i] = e
      BY <1>4, <1>6, <2>4
    <3> QED
      BY <2>1, <2>2, <3>1
  <2> QED
    BY <1>3, <2>3, <2>4
<1> QED
  BY <1>4, <1>5, <1>6 DEF TellingsHold, Ends

LEMMA RequestsKeep ==
  ASSUME CardsInv, NEW r \in CardIds, Raised(r) \/ Expires(r) PROVE CardsInv'
<1>1. /\ UNCHANGED <<live, heardAny, reachable, recovery, cardFor, pressed, owed, botched, drops>>
      /\ \/ request[r] = "unasked" /\ request' = [request EXCEPT ![r] = "open"] /\ FeedTold(r, "requested")
         \/ request[r] = "open" /\ request' = [request EXCEPT ![r] = "expired"] /\ FeedTold(r, "resolved")
  BY Zenon DEF Raised, Expires
<1>2. /\ request' \in [CardIds -> {"unasked", "open", "given", "refused", "expired"}]
      /\ feed' \in Seq(Tellings) /\ TellingsHold'
  <2>1. CASE request[r] = "unasked" /\ request' = [request EXCEPT ![r] = "open"] /\ FeedTold(r, "requested")
    BY <2>1, TellingKeeps DEF Rightly
  <2>2. CASE request[r] = "open" /\ request' = [request EXCEPT ![r] = "expired"] /\ FeedTold(r, "resolved")
    BY <2>2, TellingKeeps DEF Ends, Rightly
  <2> QED
    BY <1>1, <2>1, <2>2
<1>3. CardKinds' /\ LineKinds'
  BY <1>1, <1>2, Zenon DEF CardsInv, CardKinds, LineKinds
<1>4. OpenIsShown'
  <2> SUFFICES ASSUME NEW p \in owed, request'[p] = "open" PROVE p \in cardFor \union botched \union recovery.left
    BY <1>1, Zenon DEF OpenIsShown
  <2> QED
    <3>1. request \in [CardIds -> {"unasked", "open", "given", "refused", "expired"}] /\ owed \subseteq CardIds
          /\ (\A p2 \in owed : request[p2] = "open" => p2 \in cardFor \union botched \union recovery.left)
          /\ (\A p2 \in owed : request[p2] # "unasked")
      BY Zenon DEF CardsInv, CardKinds, OpenIsShown, OwedWereAsked
    <3> QED
      BY <1>1, <3>1
<1>5. OwedWereAsked'
  BY <1>1 DEF CardsInv, CardKinds, OwedWereAsked
<1> QED
  BY <1>2, <1>3, <1>4, <1>5 DEF CardsInv

LEMMA LinesKeep ==
  ASSUME CardsInv, StreamUp \/ StreamDown \/ Unreachable \/ Reachable PROVE CardsInv'
<1>1. LineKinds'
  <2>1. {live, heardAny, reachable}' \subseteq BOOLEAN
    BY Zenon DEF CardsInv, LineKinds, StreamUp, StreamDown, Unreachable, Reachable
  <2>2. drops' \in {drops, drops + 1} /\ (drops' = drops + 1 => drops < MaxDrops \/ drops' = drops)
    BY Zenon DEF StreamUp, StreamDown, Unreachable, Reachable
  <2>3. drops' \in 0..MaxDrops
    BY <2>2, CardsAssumption DEF CardsInv, LineKinds
  <2> QED
    BY <2>1, <2>3, Zenon DEF LineKinds
<1>2. UNCHANGED <<request, cardFor, pressed, owed, botched>> /\ feed' \in {feed, <<>>}
  BY Zenon DEF StreamUp, StreamDown, Unreachable, Reachable
<1>3. recovery' \in [asked : BOOLEAN, left : SUBSET CardIds] /\ recovery'.left = recovery.left
  <2>1. recovery' \in {recovery, [recovery EXCEPT !.asked = TRUE]} /\ recovery \in [asked : BOOLEAN, left : SUBSET CardIds]
    BY Zenon DEF StreamUp, StreamDown, Unreachable, Reachable, CardsInv, CardKinds
  <2> QED
    BY <2>1
<1>4. CardKinds' /\ TellingsHold' /\ OwedWereAsked'
  <2>1. feed' \in Seq(Tellings) /\ TellingsHold'
    <3>1. CASE feed' = feed
      BY <1>2, <3>1, Zenon DEF CardsInv, CardKinds, TellingsHold
    <3>2. CASE feed' = <<>>
      BY <3>2 DEF TellingsHold
    <3> QED
      BY <1>2, <3>1, <3>2
  <2>2. OwedWereAsked'
    BY <1>2, Zenon DEF CardsInv, OwedWereAsked
  <2> QED
    BY <1>2, <1>3, <2>1, <2>2, Zenon DEF CardsInv, CardKinds
<1>5. OpenIsShown'
  BY <1>2, <1>3, Zenon DEF CardsInv, OpenIsShown
<1> QED
  BY <1>1, <1>4, <1>5 DEF CardsInv

LEMMA ListKeeps ==
  ASSUME CardsInv, Listed \/ NotListed \/ Recovered PROVE CardsInv'
<1>1. LineKinds'
  <2>1. {live, heardAny, reachable}' \subseteq BOOLEAN
    BY Zenon DEF CardsInv, LineKinds, Listed, NotListed, Recovered
  <2>2. drops' = drops \/ (drops' = drops + 1 /\ drops < MaxDrops)
    BY Zenon DEF Listed, NotListed, Recovered
  <2>3. drops' \in 0..MaxDrops
    BY <2>2, CardsAssumption DEF CardsInv, LineKinds
  <2> QED
    BY <2>1, <2>3, Zenon DEF LineKinds
<1>2. UNCHANGED <<request, feed, pressed, botched>>
  BY Zenon DEF Listed, NotListed, Recovered
<1>3. recovery \in [asked : BOOLEAN, left : SUBSET CardIds] /\ cardFor \subseteq CardIds /\ owed \subseteq CardIds
  BY DEF CardsInv, CardKinds
<1>4. OpenAsks \subseteq CardIds
  BY DEF OpenAsks
<1>5. CASE Listed
  <2>1. recovery' \in [asked : BOOLEAN, left : SUBSET CardIds] /\ recovery'.left = recovery.left \cup OpenAsks
    BY <1>3, <1>4, <1>5 DEF Listed
  <2>2. owed' = owed \cup OpenAsks /\ cardFor' = cardFor
    BY <1>5, Zenon DEF Listed
  <2>3. CardKinds' /\ TellingsHold' /\ OwedWereAsked'
    BY <1>2, <1>3, <1>4, <2>1, <2>2 DEF CardsInv, CardKinds, TellingsHold, OwedWereAsked, OpenAsks
  <2>4. OpenIsShown'
    BY <1>2, <2>1, <2>2 DEF CardsInv, OpenIsShown
  <2> QED
    BY <1>1, <2>3, <2>4 DEF CardsInv
<1>6. CASE NotListed
  <2>1. recovery' \in [asked : BOOLEAN, left : SUBSET CardIds] /\ recovery'.left = recovery.left
    BY <1>3, <1>6 DEF NotListed
  <2>2. owed' = owed /\ cardFor' = cardFor
    BY <1>6, Zenon DEF NotListed
  <2>3. CardKinds' /\ TellingsHold' /\ OwedWereAsked'
    BY <1>2, <2>1, <2>2 DEF CardsInv, CardKinds, TellingsHold, OwedWereAsked
  <2>4. OpenIsShown'
    BY <1>2, <2>1, <2>2, Zenon DEF CardsInv, OpenIsShown
  <2> QED
    BY <1>1, <2>3, <2>4 DEF CardsInv
<1>7. CASE Recovered
  <2>1. PICK r \in recovery.left : ShowsNext(r)
    BY <1>7, Zenon DEF Recovered
  <2>2. recovery' \in [asked : BOOLEAN, left : SUBSET CardIds] /\ recovery'.left = recovery.left \ {r}
    BY <1>3, <2>1 DEF ShowsNext
  <2>3. owed' = owed /\ cardFor' = cardFor \cup {r} /\ r \in CardIds
    BY <1>3, <1>7, <2>1 DEF Recovered, ShowsNext
  <2>4. CardKinds' /\ TellingsHold' /\ OwedWereAsked'
    BY <1>2, <2>2, <2>3 DEF CardsInv, CardKinds, TellingsHold, OwedWereAsked
  <2>5. OpenIsShown'
    BY <1>2, <2>2, <2>3 DEF CardsInv, OpenIsShown
  <2> QED
    BY <1>1, <2>4, <2>5 DEF CardsInv
<1> QED
  BY <1>5, <1>6, <1>7

LEMMA ArrivedKeeps == ASSUME CardsInv, Arrived PROVE CardsInv'
<1>1. feed \in Seq(Tellings) /\ feed # <<>> /\ feed' = Tail(feed) /\ heardAny' = TRUE
      /\ UNCHANGED <<request, live, reachable, recovery, pressed, botched, drops>>
  BY Zenon DEF CardsInv, CardKinds, Arrived
<1>2. Head(feed) = feed[1] /\ feed[1] \in Tellings /\ 1 \in 1..Len(feed)
  BY <1>1
<1>3. PICK e : e = Head(feed)
  OBVIOUS
<1>4. e \in Tellings /\ (e.what = "resolved" => request[e.id] # "open") /\ request[e.id] # "unasked" /\ e.id \in CardIds
  BY <1>2, <1>3 DEF CardsInv, TellingsHold, Ends, Rightly, Tellings
<1>5. IF e.what = "requested" THEN cardFor' = cardFor \cup {e.id} /\ owed' = owed \cup {e.id}
                              ELSE cardFor' = cardFor \ {e.id} /\ owed' = owed
  BY <1>3, Zenon DEF Arrived
<1>6. feed' \in Seq(Tellings) /\ TellingsHold'
  BY <1>1 DEF CardsInv, TellingsHold
<1>7. CardKinds'
  BY <1>1, <1>4, <1>5, <1>6 DEF CardsInv, CardKinds
<1>8. OpenIsShown'
  BY <1>1, <1>4, <1>5 DEF CardsInv, OpenIsShown, Tellings
<1>9. LineKinds'
  BY <1>1, Zenon DEF CardsInv, LineKinds
<1>10. OwedWereAsked'
  BY <1>1, <1>4, <1>5 DEF CardsInv, OwedWereAsked
<1> QED
  BY <1>6, <1>7, <1>8, <1>9, <1>10 DEF CardsInv

LEMMA DecisionsKeep ==
  ASSUME CardsInv, NEW r \in CardIds,
         Decided(r) \/ Undecided(r) \/ (\E d \in {"given", "refused"} : DecisionPressed(r, d))
  PROVE  CardsInv'
<1>1. pressed \in [CardIds -> {"", "given", "refused"}] /\ request \in [CardIds -> {"unasked", "open", "given", "refused", "expired"}]
      /\ cardFor \subseteq CardIds /\ botched \subseteq CardIds
  BY DEF CardsInv, CardKinds
<1>2. CASE \E d \in {"given", "refused"} : DecisionPressed(r, d)
  <2>1. PICK d \in {"given", "refused"} : DecisionPressed(r, d)
    BY <1>2
  <2>2. pressed' \in [CardIds -> {"", "given", "refused"}]
    BY <1>1, <2>1 DEF DecisionPressed
  <2>3. UNCHANGED <<request, feed, live, heardAny, reachable, recovery, cardFor, owed, botched, drops>>
    BY <2>1, Zenon DEF DecisionPressed
  <2> QED
    BY <2>2, <2>3, Zenon DEF CardsInv, CardKinds, LineKinds, TellingsHold, OwedWereAsked, OpenIsShown
<1>3. CASE Decided(r) \/ Undecided(r)
  <2>1. pressed' \in [CardIds -> {"", "given", "refused"}] /\ cardFor' = cardFor \ {r} /\ pressed[r] \in {"given", "refused"}
        /\ UNCHANGED <<live, heardAny, reachable, recovery, owed>>
    BY <1>1, <1>3 DEF Decided, Undecided, Settled
  <2>2. \/ UNCHANGED <<request, feed>>
        \/ request[r] = "open" /\ request' = [request EXCEPT ![r] = pressed[r]] /\ FeedTold(r, "resolved")
    BY <1>3, Zenon DEF Decided, Undecided
  <2>3. /\ request' \in [CardIds -> {"unasked", "open", "given", "refused", "expired"}]
        /\ feed' \in Seq(Tellings) /\ TellingsHold'
    <3>1. CASE UNCHANGED <<request, feed>>
      BY <3>1, Zenon DEF CardsInv, CardKinds, TellingsHold, OwedWereAsked
    <3>2. CASE request[r] = "open" /\ request' = [request EXCEPT ![r] = pressed[r]] /\ FeedTold(r, "resolved")
      BY <2>1, <3>2, TellingKeeps DEF Ends, Rightly
    <3> QED
      BY <2>2, <3>1, <3>2
  <2>4. /\ botched' \in {botched, botched \cup {r}}
        /\ request'[r] = "open" => botched' = botched \cup {r}
    BY <1>1, <1>3, <2>1 DEF Decided, Undecided
  <2>5. CardKinds'
    BY <1>1, <2>1, <2>3, <2>4 DEF CardsInv, CardKinds
  <2>6. LineKinds'
    <3>1. drops' = drops \/ (drops' = drops + 1 /\ drops < MaxDrops)
      BY <1>3, Zenon DEF Decided, Undecided
    <3>2. drops' \in 0..MaxDrops
      BY <3>1, CardsAssumption DEF CardsInv, LineKinds
    <3> QED
      BY <2>1, <3>2, Zenon DEF CardsInv, LineKinds
  <2>7. OpenIsShown'
    <3> SUFFICES ASSUME NEW p \in owed, request'[p] = "open" PROVE p \in cardFor' \union botched' \union recovery.left
      BY <2>1, Zenon DEF OpenIsShown
    <3>1. CASE p = r
      BY <2>4, <3>1
    <3>2. CASE p # r
      BY <1>1, <2>1, <2>2, <2>4, <3>2 DEF CardsInv, CardKinds, OpenIsShown
    <3> QED
      BY <3>1, <3>2
  <2>8. OwedWereAsked'
    BY <1>1, <2>1, <2>2 DEF CardsInv, CardKinds, OwedWereAsked
  <2> QED
    BY <2>3, <2>5, <2>6, <2>7, <2>8 DEF CardsInv
<1> QED
  BY <1>2, <1>3

LEMMA CardsKeep == CardsInv /\ CardsNext => CardsInv'
  BY RequestsKeep, LinesKeep, ListKeeps, ArrivedKeeps, DecisionsKeep, Zenon DEF CardsNext

LEMMA CardsStay == CardsInv /\ UNCHANGED cardVars => CardsInv'
<1> SUFFICES ASSUME CardsInv, UNCHANGED cardVars PROVE CardsInv'
  OBVIOUS
<1>1. UNCHANGED <<request, feed, live, heardAny, reachable, recovery, cardFor, pressed, owed, botched, drops>>
  BY Zenon DEF cardVars
<1> QED
  BY <1>1, Zenon DEF CardsInv, CardKinds, LineKinds, TellingsHold, OwedWereAsked, OpenIsShown

(***************************************************************************)
(* Wondering: one thought at a time, begun from all that was asked         *)
(***************************************************************************)
FlagKinds == {invited, cooled, engaged} \subseteq BOOLEAN
WatchInv ==
  /\ asked \subseteq Matters /\ today \in 0..MaxPerDay /\ restarts \in 0..MaxRestarts
  /\ \/ thinking = 0 /\ loaded = {}
     \/ thinking = 1 /\ loaded = asked
AskInv ==
  /\ answering \in Matters \union {NoMatter} /\ heard \in [Matters -> 0..1] /\ weighing \subseteq Matters
  /\ \A q \in Matters : heard[q] > 0 => q \in asked
  /\ \A q \in weighing : heard[q] = 1
  /\ answering # NoMatter => heard[answering] = 1
FactInv ==
  /\ facts \in Seq(Matters) /\ Len(facts) <= MaxFacts
  /\ \A i, j \in 1..Len(facts) : facts[i] = facts[j] => i = j
WondInv == FlagKinds /\ WatchInv /\ AskInv /\ FactInv

(* Facts that are all different are as many as the list is long.           *)
LEMMA AllDifferent ==
  ASSUME NEW s \in Seq(Matters), \A i, j \in 1..Len(s) : s[i] = s[j] => i = j
  PROVE  Cardinality(ToSet(s)) = Len(s)
<1>1. PICK f : f = [i \in 1..Len(s) |-> s[i]]
  OBVIOUS
<1>2. f \in Bijection(1..Len(s), ToSet(s))
  <2>1. f \in [1..Len(s) -> ToSet(s)] /\ DOMAIN s = 1..Len(s)
    BY <1>1 DEF ToSet
  <2>2. \A a, b \in 1..Len(s) : f[a] = f[b] => a = b
    BY <1>1
  <2>3. \A t \in ToSet(s) : \E a \in 1..Len(s) : f[a] = t
    BY <1>1, <2>1 DEF ToSet
  <2> QED
    BY <2>1, <2>2, <2>3 DEF Bijection, Injection, Surjection, IsInjective
<1>3. Len(s) \in Nat /\ IsFiniteSet(1..Len(s)) /\ Cardinality(1..Len(s)) = Len(s)
  <2>1. 1 \in Int /\ Len(s) \in Int /\ Len(s) \in Nat
    OBVIOUS
  <2>2. IsFiniteSet(1..Len(s)) /\ Cardinality(1..Len(s)) = IF 1 > Len(s) THEN 0 ELSE Len(s) - 1 + 1
    BY <2>1, FS_Interval
  <2> QED
    BY <2>1, <2>2
<1>4. ExistsBijection(1..Len(s), ToSet(s))
  BY <1>2, Zenon DEF ExistsBijection
<1> QED
  BY <1>3, <1>4, FS_Bijection

LEMMA WondFollows == WondInv => WondTypeOK /\ AskedOnce /\ AnswersWereAsked /\ FactsDiffer
<1> SUFFICES ASSUME WondInv PROVE WondTypeOK /\ AskedOnce /\ AnswersWereAsked /\ FactsDiffer
  OBVIOUS
<1>1. FactsDiffer
  BY AllDifferent DEF WondInv, FactInv, FactsDiffer
<1>2. AskedOnce
  BY DEF WondInv, AskInv, AskedOnce
<1>3. AnswersWereAsked
  BY WonderingAssumption DEF WondInv, AskInv, AnswersWereAsked
<1>4. ToSet(facts) \subseteq Matters
  BY DEF WondInv, FactInv, ToSet
<1>5. thinking \in 0..2 /\ loaded \subseteq Matters /\ heard \in [Matters -> 0..2]
  BY DEF WondInv, WatchInv, AskInv
<1>6. WondTypeOK
  BY <1>4, <1>5, Zenon DEF WondInv, FlagKinds, WatchInv, AskInv, FactInv, WondTypeOK
<1> QED
  BY <1>1, <1>2, <1>3, <1>6

LEMMA WondStarts == WondInit => WondInv
<1> SUFFICES ASSUME WondInit PROVE WondInv
  OBVIOUS
<1>1. FlagKinds
  BY Zenon DEF WondInit, FlagKinds
<1>2. /\ thinking = 0 /\ loaded = {} /\ asked = {} /\ today = 0 /\ answering = NoMatter
      /\ heard = [q \in Matters |-> 0] /\ weighing = {} /\ facts = <<>> /\ restarts = 0
  BY Zenon DEF WondInit
<1>3. WatchInv /\ AskInv /\ FactInv
  BY <1>2, WonderingAssumption DEF WatchInv, AskInv, FactInv
<1> QED
  BY <1>1, <1>3 DEF WondInv

LEMMA AskKeeps == ASSUME WondInv, NEW q \in Matters, Ask(q) PROVE WondInv'
<1>1. thinking = 1 /\ loaded = asked /\ q \notin asked
  BY DEF Ask, WondInv, WatchInv
<1>2. thinking' = 0 /\ loaded' = {} /\ asked' = asked \union {q} /\ UNCHANGED <<weighing, facts, restarts>>
  BY <1>1 DEF Ask
<1>3. WatchInv'
  <2>1. today' \in 0..MaxPerDay
    BY WonderingAssumption DEF Ask, WondInv, WatchInv
  <2> QED
    BY <1>2, <2>1 DEF WondInv, WatchInv
<1>4. heard \in [Matters -> 0..1] /\ heard[q] = 0
  BY <1>1 DEF WondInv, AskInv
<1>5. AskInv'
  <2>1. CASE engaged
    <3>1. UNCHANGED <<answering, heard>>
      BY <2>1, Zenon DEF Ask, Put, chatside
    <3> QED
      BY <1>2, <3>1 DEF WondInv, AskInv
  <2>2. CASE ~engaged
    <3>1. answering' = q /\ heard' = [heard EXCEPT ![q] = IF @ < 2 THEN @ + 1 ELSE @]
      BY <2>2, Zenon DEF Ask, Put
    <3>2. heard' = [heard EXCEPT ![q] = 1]
      BY <1>4, <3>1
    <3> QED
      BY <1>2, <1>4, <3>1, <3>2 DEF WondInv, AskInv
  <2> QED
    BY <2>1, <2>2
<1>6. FlagKinds'
  <2>1. {invited, cooled}' \subseteq BOOLEAN
    BY Zenon DEF Ask, WondInv, FlagKinds
  <2>2. engaged' \in BOOLEAN
    BY Zenon DEF Ask, Put, chatside, WondInv, FlagKinds
  <2> QED
    BY <2>1, <2>2, Zenon DEF FlagKinds
<1>7. FactInv'
  BY <1>2, Zenon DEF WondInv, FactInv
<1> QED
  BY <1>3, <1>5, <1>6, <1>7 DEF WondInv

(* What is remembered is still different from all that was.                *)
LEMMA RememberedKeeps ==
  ASSUME WondInv, NEW q \in Matters, facts' \in {facts, Remembered(q)}
  PROVE  FactInv'
<1>1. facts \in Seq(Matters) /\ Len(facts) <= MaxFacts /\ MaxFacts \in Nat
      /\ (\A i, j \in 1..Len(facts) : facts[i] = facts[j] => i = j)
  BY WonderingAssumption DEF WondInv, FactInv
<1>2. CASE facts' = facts
  BY <1>2, Zenon DEF WondInv, FactInv
<1>3. CASE facts' # facts
  <2>1. q \notin ToSet(facts) /\ facts' = IF Len(Append(facts, q)) > MaxFacts THEN Tail(Append(facts, q)) ELSE Append(facts, q)
    BY <1>3, Zenon DEF Remembered
  <2>2. PICK more : more = Append(facts, q)
    OBVIOUS
  <2>3. more \in Seq(Matters) /\ Len(more) = Len(facts) + 1 /\ \A i \in 1..Len(facts) : more[i] = facts[i] /\ facts[i] # q
    BY <1>1, <2>1, <2>2 DEF ToSet
  <2>4. more[Len(more)] = q
    BY <1>1, <2>2
  <2>5. \A i, j \in 1..Len(more) : more[i] = more[j] => i = j
    BY <1>1, <2>3, <2>4
  <2>6. CASE Len(more) > MaxFacts
    <3>1. facts' = Tail(more) /\ more # <<>>
      BY <1>1, <2>1, <2>2, <2>3, <2>6
    <3>2. facts' \in Seq(Matters) /\ Len(facts') = Len(more) - 1 /\ \A i \in 1..Len(facts') : facts'[i] = more[i + 1]
      BY <2>3, <3>1
    <3> QED
      BY <1>1, <2>3, <2>5, <3>2 DEF FactInv
  <2>7. CASE ~(Len(more) > MaxFacts)
    <3>1. facts' = more
      BY <2>1, <2>2, <2>7
    <3>2. Len(more) <= MaxFacts
      BY <1>1, <2>3, <2>7
    <3> QED
      BY <2>3, <2>5, <3>1, <3>2 DEF FactInv
  <2> QED
    BY <2>6, <2>7
<1> QED
  BY <1>2, <1>3

LEMMA JoinedIs ==
  ASSUME NEW S, NEW a \in Seq(S), NEW b \in Seq(S)
  PROVE  /\ a \o b \in Seq(S) /\ Len(a \o b) = Len(a) + Len(b)
         /\ \A k \in 1..Len(a \o b) : (a \o b)[k] = IF k <= Len(a) THEN a[k] ELSE b[k - Len(a)]
<1>1. a \o b \in Seq(S)
  OBVIOUS
<1>2. Len(a \o b) = Len(a) + Len(b)
  OBVIOUS
<1>3. ASSUME NEW k \in 1..(Len(a) + Len(b)) PROVE (a \o b)[k] = IF k <= Len(a) THEN a[k] ELSE b[k - Len(a)]
  OBVIOUS
<1> QED
  BY <1>1, <1>2, <1>3

LEMMA ForgetsKeeps ==
  ASSUME WondInv, NEW q \in Matters, Forgets(q)
  PROVE  FactInv'
<1>1. facts \in Seq(Matters) /\ Len(facts) <= MaxFacts /\ MaxFacts \in Nat
      /\ (\A i, j \in 1..Len(facts) : facts[i] = facts[j] => i = j)
  BY WonderingAssumption DEF WondInv, FactInv
<1>2. PICK i \in 1..Len(facts) : facts' = SubSeq(facts, 1, i - 1) \o SubSeq(facts, i + 1, Len(facts))
  <2>1. PICK i \in DOMAIN facts : facts' = RemoveAt(facts, i)
    BY Zenon DEF Forgets
  <2>2. DOMAIN facts = 1..Len(facts)
    BY <1>1
  <2> QED
    BY <2>1, <2>2, Zenon DEF RemoveAt
<1>3. PICK a, b : a = SubSeq(facts, 1, i - 1) /\ b = SubSeq(facts, i + 1, Len(facts))
  OBVIOUS
<1>4. a \in Seq(Matters) /\ Len(a) = i - 1 /\ \A k \in 1..Len(a) : a[k] = facts[k]
  BY <1>1, <1>3
<1>5. b \in Seq(Matters) /\ Len(b) = Len(facts) - i /\ \A k \in 1..Len(b) : b[k] = facts[k + i]
  BY <1>1, <1>3
<1>6. facts' \in Seq(Matters) /\ Len(facts') = Len(facts) - 1
      /\ \A k \in 1..Len(facts') : facts'[k] = IF k < i THEN facts[k] ELSE facts[k + 1]
  <2>1. facts' = a \o b
    BY <1>2, <1>3
  <2>2. facts' \in Seq(Matters) /\ Len(facts') = Len(a) + Len(b)
        /\ \A k \in 1..Len(facts') : facts'[k] = IF k <= Len(a) THEN a[k] ELSE b[k - Len(a)]
    <3>1. a \in Seq(Matters) /\ b \in Seq(Matters)
      BY <1>4, <1>5
    <3> QED
      BY <2>1, <3>1, JoinedIs
  <2>3. Len(facts') = Len(facts) - 1
    BY <1>1, <1>4, <1>5, <2>2
  <2>4. ASSUME NEW k \in 1..Len(facts') PROVE facts'[k] = IF k < i THEN facts[k] ELSE facts[k + 1]
    <3>1. CASE k < i
      BY <1>4, <2>2, <2>4, <3>1
    <3>2. CASE ~(k < i)
      <4>a. \A n, l \in Nat : \A h \in 1..n : l = n - 1 =>
              \A j \in 1..l : ~(j < h) => /\ ~(j <= h - 1) /\ j - (h - 1) \in 1..(n - h)
                                          /\ (j - (h - 1)) + h = j + 1
        BY SMT
      <4>b. Len(facts) \in Nat /\ Len(facts') \in Nat
        BY <1>1, <2>2
      <4>c. ~(k <= Len(a)) /\ k - Len(a) \in 1..Len(b) /\ (k - Len(a)) + i = k + 1
        BY <4>a, <4>b, <1>4, <1>5, <2>3, <2>4, <3>2, Zenon
      <4>1. k - Len(a) \in 1..Len(b) /\ (k - Len(a)) + i = k + 1 /\ facts'[k] = b[k - Len(a)]
        BY <4>c, <2>2, <2>4, Zenon
      <4> QED
        BY <1>5, <3>2, <4>1
    <3> QED
      BY <3>1, <3>2
  <2> QED
    BY <2>2, <2>3, <2>4
<1> QED
  BY <1>1, <1>6 DEF FactInv

LEMMA WondKeeps == WondInv /\ WondNext => WondInv'
<1> SUFFICES ASSUME WondInv, WondNext PROVE WondInv'
  OBVIOUS
<1>0. {invited, cooled, engaged} \subseteq BOOLEAN
  BY Zenon DEF WondInv, FlagKinds
<1>1. CASE GatesMove \/ TimeGoesBy \/ Consider \/ NothingToAsk
  <2>1. FlagKinds'
    BY <1>0, <1>1, Zenon DEF GatesMove, TimeGoesBy, Consider, NothingToAsk, chatside, FlagKinds
  <2>2. UNCHANGED <<asked, answering, heard, weighing, facts, restarts>> /\ today' \in {today, 0}
    BY <1>1, Zenon DEF GatesMove, TimeGoesBy, Consider, NothingToAsk, chatside
  <2>3. \/ UNCHANGED <<thinking, loaded>>
        \/ thinking = 0 /\ thinking' = thinking + 1 /\ loaded' = asked
        \/ thinking > 0 /\ thinking' = thinking - 1 /\ loaded' = {}
    BY <1>1, Zenon DEF GatesMove, TimeGoesBy, Consider, NothingToAsk, Idle
  <2>4. WatchInv'
    BY <2>2, <2>3, WonderingAssumption DEF WondInv, WatchInv
  <2> QED
    BY <2>1, <2>2, <2>4, Zenon DEF WondInv, AskInv, FactInv
<1>2. CASE Speech \/ PersonReplies \/ AnswerWindowEnds
  <2>1. FlagKinds'
    BY <1>0, <1>2, Zenon DEF Speech, PersonReplies, AnswerWindowEnds, watcher, FlagKinds
  <2>2. UNCHANGED <<thinking, loaded, asked, today, heard, facts, restarts>>
    BY <1>2, Zenon DEF Speech, PersonReplies, AnswerWindowEnds, watcher
  <2>3. AskInv'
    <3>1. \/ UNCHANGED <<answering, weighing>>
          \/ answering # NoMatter /\ answering' = NoMatter /\ weighing' \in {weighing, weighing \union {answering}}
      BY <1>2, Zenon DEF Speech, PersonReplies, AnswerWindowEnds
    <3> QED
      BY <2>2, <3>1 DEF WondInv, AskInv
  <2> QED
    BY <2>1, <2>2, <2>3, Zenon DEF WondInv, WatchInv, FactInv
<1>3. CASE Restart
  <2>1. FlagKinds'
    BY <1>0, <1>3, Zenon DEF Restart, FlagKinds
  <2>2. thinking' = 0 /\ loaded' = {} /\ answering' = NoMatter /\ weighing' = {} /\ UNCHANGED <<asked, today, heard, facts>>
        /\ restarts < MaxRestarts /\ restarts' = restarts + 1
    BY <1>3, Zenon DEF Restart
  <2>3. WatchInv' /\ AskInv'
    BY <2>2, WonderingAssumption DEF WondInv, WatchInv, AskInv
  <2> QED
    BY <2>1, <2>2, <2>3, Zenon DEF WondInv, FactInv
<1>4. ASSUME NEW q \in Matters, Weighed(q) \/ Noted(q) \/ Forgets(q) PROVE WondInv'
  <2>1. UNCHANGED <<invited, cooled, thinking, loaded, asked, today, engaged, answering, heard, restarts>>
    BY <1>4, Zenon DEF Weighed, Noted, Forgets, watcher, chatside
  <2>2. weighing' \subseteq weighing
    BY <1>4 DEF Weighed, Noted, Forgets
  <2>3. FactInv'
    <3>1. CASE Forgets(q)
      BY <3>1, ForgetsKeeps
    <3>2. CASE Weighed(q) \/ Noted(q)
      <4>1. facts' \in {facts, Remembered(q)}
        BY <3>2, Zenon DEF Weighed, Noted
      <4> QED
        BY <4>1, RememberedKeeps
    <3> QED
      BY <1>4, <3>1, <3>2
  <2>4. AskInv'
    BY <2>1, <2>2 DEF WondInv, AskInv
  <2> QED
    BY <2>1, <2>3, <2>4, Zenon DEF WondInv, FlagKinds, WatchInv
<1> QED
  BY <1>1, <1>2, <1>3, <1>4, AskKeeps, Zenon DEF WondNext

LEMMA WondStays == WondInv /\ UNCHANGED wondVars => WondInv'
<1> SUFFICES ASSUME WondInv, UNCHANGED wondVars PROVE WondInv'
  OBVIOUS
<1>1. UNCHANGED <<invited, cooled, thinking, loaded, asked, today, engaged, answering, heard, weighing, facts, restarts>>
  BY Zenon DEF wondVars, watcher, chatside
<1> QED
  BY <1>1, Zenon DEF WondInv, FlagKinds, WatchInv, AskInv, FactInv

(***************************************************************************)
(* Presence: while somebody is away, nobody has been greeted for it        *)
(***************************************************************************)
PresInv == PresTypeOK /\ OneHello /\ (mark # "none" => hellos = 0)

LEMMA PresStarts == PresInit => PresInv
<1> SUFFICES ASSUME PresInit PROVE PresInv
  OBVIOUS
<1>1. watching \in BOOLEAN /\ settleArmed \in BOOLEAN /\ floor \in BOOLEAN /\ greeted \in BOOLEAN
  BY Zenon DEF PresInit
<1> QED
  BY <1>1 DEF PresInit, PresInv, PresTypeOK, OneHello

LEMMA ComesAndGoes ==
  ASSUME PresInv
  PROVE  /\ Leaving => /\ mark' \in {"none", "short", "long"} /\ hellos' \in 0..1
                       /\ mark' # "none" => hellos' = 0
         /\ Returning /\ greeting < 2 =>
              /\ mark' = "none" /\ hellos' \in 0..1 /\ greeting' \in 0..2
  BY DEF PresInv, PresTypeOK, OneHello, Leaving, Returning, TakesMark, Deserved

LEMMA PresKeeps == PresInv /\ PresNext => PresInv'
<1> SUFFICES ASSUME PresInv, PresNext PROVE PresInv'
  OBVIOUS
<1> USE DEF PresInv, PresTypeOK, OneHello, narrator, arrival
<1>1. CASE WatchingChanges
  <2>1. watching' \in BOOLEAN
    BY <1>1, Zenon DEF WatchingChanges
  <2> QED
    BY <1>1, <2>1 DEF WatchingChanges
<1>2. CASE \E p \in Places : Note(p)
  <2>1. settleArmed' \in BOOLEAN
    BY <1>2, Zenon DEF Note
  <2> QED
    BY <1>2, <2>1 DEF Note
<1>3. CASE Fire
  BY <1>3 DEF Fire
<1>4. CASE Thought \/ NoThought \/ FloorPasses
  BY <1>4 DEF Thought, NoThought, FloorPasses
<1>5. CASE LeaveSignal \/ BackSignal
  BY <1>5, ComesAndGoes DEF LeaveSignal, BackSignal
<1>6. CASE Glimpse \/ GlimpseReported
  BY <1>6, ComesAndGoes DEF Glimpse, GlimpseReported
<1>7. CASE MinutesPass \/ Composed \/ GreetingFades
  <2>1. greeted' \in BOOLEAN
    BY <1>7, Zenon DEF MinutesPass, Composed, GreetingFades
  <2>2. CASE MinutesPass
    BY <2>1, <2>2 DEF MinutesPass
  <2>3. CASE Composed
    <3>1. greeting' \in 0..2
      BY <2>3 DEF Composed
    <3>2. UNCHANGED <<watching, narrator, mark, glimpse, hellos>>
      BY <2>3, Zenon DEF Composed
    <3> QED
      BY <2>1, <3>1, <3>2
  <2>4. CASE GreetingFades
    BY <2>1, <2>4 DEF GreetingFades
  <2> QED
    BY <1>7, <2>2, <2>3, <2>4
<1> QED
  BY <1>1, <1>2, <1>3, <1>4, <1>5, <1>6, <1>7 DEF PresNext

LEMMA PresStays == PresInv /\ UNCHANGED presVars => PresInv'
  BY DEF PresInv, PresTypeOK, OneHello, presVars, narrator, arrival

(***************************************************************************)
(* The interview: wherever answers are held, each was said to its question *)
(* or to correct it, and every reading goes with the question of its time  *)
(***************************************************************************)
Held(a, n, at) ==
  /\ a \in [Steps -> 0..MaxSaid]
  /\ \A q \in Steps : a[q] <= n /\ (a[q] # 0 => at[a[q]] \in {0, q})

InterFlags == {setup, wakeOnLaunch, asLaunched, aglow} \subseteq BOOLEAN
Sheets == [kind : {"none", "skipped", "kept"}, answers : [Steps -> 0..MaxSaid], volunteer : BOOLEAN]
InterCounts ==
  /\ launches \in 0..MaxStarts /\ said \in 0..MaxSaid /\ saidAt \in [Sayings -> 0..Questions]
  /\ step \in Nat /\ step >= 1 /\ IsFiniteSet(reading) /\ step + Cardinality(reading) <= said + 1
ReadingsFit == reading \subseteq Handler /\ \A h \in reading : h.n <= said /\ saidAt[h.n] = h.q
SheetsFit ==
  /\ Held(answers, said, saidAt)
  /\ finishing \subseteq Finisher
  /\ \A f \in finishing : Held(f.answers, said, saidAt) /\ (f.volunteer => f.answers[1] # 0)
ProfileFits ==
  /\ profile \in Sheets /\ Held(profile.answers, said, saidAt) /\ (profile.volunteer => profile.answers[1] # 0)
  /\ savings \in 0..1
  /\ setup => profile.kind = "none" /\ savings = 0

InterInv == InterFlags /\ InterCounts /\ ReadingsFit /\ SheetsFit /\ ProfileFits

LEMMA InterFollows == InterInv => InterviewTypeOK /\ AnswersFit /\ AskedOnlyOnce /\ VolunteersAsked
<1> SUFFICES ASSUME InterInv PROVE InterviewTypeOK /\ AnswersFit /\ AskedOnlyOnce /\ VolunteersAsked
  OBVIOUS
<1>1. step \in 1..Questions + MaxSaid
  <2>1. Cardinality(reading) \in Nat
    BY FS_CardinalityType DEF InterInv, InterCounts
  <2>2. step \in Nat /\ step >= 1 /\ said \in 0..MaxSaid /\ step + Cardinality(reading) <= said + 1
    BY Zenon DEF InterInv, InterCounts
  <2> QED
    BY <2>1, <2>2, InterviewBounds
<1>2. answers \in [Steps -> 0..MaxSaid] /\ reading \subseteq Handler /\ finishing \subseteq Finisher /\ profile \in Sheets
  BY Zenon DEF InterInv, ReadingsFit, SheetsFit, ProfileFits, Held
<1>3. InterviewTypeOK
  BY <1>1, <1>2, Zenon DEF InterInv, InterFlags, InterCounts, ProfileFits, InterviewTypeOK, Sheets
<1>4. AnswersFit
  BY Zenon DEF InterInv, SheetsFit, ProfileFits, Held, AnswersFit, Fits
<1> QED
  BY <1>3, <1>4, Zenon DEF InterInv, ProfileFits, AskedOnlyOnce, VolunteersAsked

LEMMA NobodyAnswered == NoAnswers \in [Steps -> 0..MaxSaid] /\ (\A q \in Steps : NoAnswers[q] = 0) /\ 1 \in Steps
  BY InterviewBounds DEF NoAnswers, Steps

LEMMA NothingHeld == ASSUME NEW n \in Nat, NEW at PROVE Held(NoAnswers, n, at)
  BY NobodyAnswered DEF Held

LEMMA NoProfileIs ==
  /\ NoProfile \in Sheets /\ NoProfile.answers = NoAnswers /\ ~NoProfile.volunteer /\ NoProfile.kind = "none"
  /\ Skipped \in Sheets /\ Skipped.answers = NoAnswers /\ ~Skipped.volunteer
<1>1. NoProfile \in Sheets
  BY NobodyAnswered, Zenon DEF NoProfile, Sheets
<1>2. NoProfile.answers = NoAnswers /\ ~NoProfile.volunteer /\ NoProfile.kind = "none"
  BY DEF NoProfile
<1>3. PICK p : p = NoProfile
  OBVIOUS
<1>4. [p EXCEPT !.kind = "skipped"] \in Sheets /\ [p EXCEPT !.kind = "skipped"].answers = p.answers
      /\ [p EXCEPT !.kind = "skipped"].volunteer = p.volunteer
  BY <1>1, <1>3 DEF Sheets
<1> QED
  BY <1>1, <1>2, <1>3, <1>4 DEF Skipped

LEMMA InterStarts == InterviewInit => InterInv
<1> SUFFICES ASSUME InterviewInit PROVE InterInv
  OBVIOUS
<1>1. /\ step = 1 /\ answers = NoAnswers /\ reading = {} /\ finishing = {} /\ profile = NoProfile
      /\ launches = 0 /\ said = 0 /\ saidAt = [n \in Sayings |-> 0] /\ savings = 0 /\ ~setup
  BY Zenon DEF InterviewInit
<1>2. InterFlags
  BY Zenon DEF InterviewInit, InterFlags
<1>3. InterCounts
  <2>1. IsFiniteSet({}) /\ Cardinality({}) = 0
    BY FS_EmptySet
  <2>2. saidAt \in [Sayings -> 0..Questions]
    BY <1>1, InterviewBounds
  <2> QED
    BY <1>1, <2>1, <2>2, InterviewBounds DEF InterCounts
<1>4. Held(NoAnswers, said, saidAt)
  BY <1>1, NothingHeld
<1>5. ReadingsFit /\ SheetsFit
  BY <1>1, <1>4 DEF ReadingsFit, SheetsFit
<1>6. ProfileFits
  <2>1. savings \in 0..1
    BY <1>1
  <2> QED
    BY <1>1, <1>4, <2>1, NoProfileIs, Zenon DEF ProfileFits
<1> QED
  BY <1>2, <1>3, <1>5, <1>6 DEF InterInv

(* More is said, or one thing said turns out to correct another: what was  *)
(* held is held.                                                           *)
LEMMA HeldOn ==
  ASSUME NEW a, NEW n \in Nat, NEW m \in Nat, NEW at, NEW now, Held(a, n, at), n <= m,
         \A k \in 1..n : now[k] \in {0, at[k]}
  PROVE  Held(a, m, now)
<1>1. a \in [Steps -> 0..MaxSaid]
  BY Zenon DEF Held
<1>2. ASSUME NEW q \in Steps PROVE a[q] <= m /\ (a[q] # 0 => now[a[q]] \in {0, q})
  <2>1. a[q] \in 0..MaxSaid /\ a[q] <= n /\ (a[q] # 0 => at[a[q]] \in {0, q})
    BY <1>1, Zenon DEF Held
  <2>2. a[q] \in Nat
    BY <2>1, InterviewBounds
  <2>3. a[q] # 0 => a[q] \in 1..n
    BY <2>1, <2>2
  <2> QED
    BY <2>1, <2>2, <2>3
<1> QED
  BY <1>1, <1>2, Zenon DEF Held

(* What is read is put down for the question it was said to, or corrects.  *)
LEMMA HeldWith ==
  ASSUME NEW a, NEW n \in Nat, NEW at, Held(a, n, at), NEW k \in Steps, NEW m \in 1..MaxSaid, m <= n, at[m] \in {0, k}
  PROVE  Held([a EXCEPT ![k] = m], n, at)
<1>1. a \in [Steps -> 0..MaxSaid] /\ \A q \in Steps : a[q] <= n /\ (a[q] # 0 => at[a[q]] \in {0, q})
  BY Zenon DEF Held
<1>2. m \in 0..MaxSaid
  BY InterviewBounds
<1>3. PICK b : b = [a EXCEPT ![k] = m]
  OBVIOUS
<1>4. b \in [Steps -> 0..MaxSaid] /\ \A q \in Steps : b[q] = IF q = k THEN m ELSE a[q]
  BY <1>1, <1>2, <1>3
<1>5. Held(b, n, at)
  BY <1>1, <1>4 DEF Held
<1> QED
  BY <1>3, <1>5

LEMMA ReadIs ==
  ASSUME InterInv, NEW h \in reading
  PROVE  h.q \in Steps /\ h.n \in 1..MaxSaid /\ h.n <= said /\ saidAt[h.n] = h.q
  BY DEF InterInv, ReadingsFit, Handler, Sayings

LEMMA SaidIs == InterInv => said \in Nat /\ said \in 0..MaxSaid /\ MaxSaid \in Nat /\ Questions \in Nat /\ Questions >= 2
  BY InterviewBounds DEF InterInv, InterCounts

(* Nothing new is said, and the answers change no more than they may.      *)
LEMMA InterRests ==
  ASSUME InterInv, InterFlags', UNCHANGED <<said, saidAt>>,
         reading' = reading, step' = step, launches' = launches, SheetsFit', ProfileFits'
  PROVE  InterInv'
<1>1. InterCounts' /\ ReadingsFit'
  BY Zenon DEF InterInv, InterCounts, ReadingsFit
<1> QED
  BY <1>1, Zenon DEF InterInv

LEMMA LaunchesKeep == ASSUME InterInv, Launches PROVE InterInv'
<1>1. /\ launches < MaxStarts /\ launches' = launches + 1 /\ step' = 1 /\ answers' = NoAnswers
      /\ reading' = {} /\ finishing' = {} /\ savings' = 0 /\ UNCHANGED <<profile, said, saidAt>>
      /\ (setup' <=> profile.kind = "none")
  BY Zenon DEF Launches
<1>2. InterFlags'
  <2>1. {wakeOnLaunch, asLaunched, aglow}' \subseteq BOOLEAN
    BY Zenon DEF InterInv, InterFlags, Launches
  <2>2. setup' \in BOOLEAN
    BY Zenon DEF Launches
  <2> QED
    BY <2>1, <2>2, Zenon DEF InterFlags
<1>3. InterCounts'
  <2>1. IsFiniteSet({}) /\ Cardinality({}) = 0
    BY FS_EmptySet
  <2>2. launches' \in 0..MaxStarts
    BY <1>1, InterviewBounds DEF InterInv, InterCounts
  <2>3. step' \in Nat /\ step' >= 1 /\ step' + 0 <= said + 1
    BY <1>1, SaidIs
  <2>4. said' \in 0..MaxSaid /\ saidAt' \in [Sayings -> 0..Questions]
    BY <1>1, Zenon DEF InterInv, InterCounts
  <2>5. IsFiniteSet(reading') /\ step' + Cardinality(reading') <= said' + 1
    BY <1>1, <2>1, <2>3, Zenon
  <2> QED
    BY <2>2, <2>3, <2>4, <2>5, Zenon DEF InterCounts
<1>4. Held(NoAnswers, said, saidAt)
  BY SaidIs, NothingHeld
<1>5. ReadingsFit' /\ SheetsFit'
  BY <1>1, <1>4 DEF ReadingsFit, SheetsFit
<1>6. ProfileFits'
  <2>1. savings' \in 0..1
    BY <1>1
  <2> QED
    BY <1>1, <2>1, Zenon DEF InterInv, ProfileFits
<1> QED
  BY <1>2, <1>3, <1>5, <1>6, Zenon DEF InterInv

LEMMA EndSetupKeeps ==
  ASSUME InterInv, NEW p \in Sheets, Held(p.answers, said, saidAt), p.volunteer => p.answers[1] # 0, EndSetup(p),
         UNCHANGED <<said, saidAt>>
  PROVE  ProfileFits' /\ setup' \in BOOLEAN
<1>1. CASE setup
  <2>1. setup' = FALSE /\ profile' = p /\ savings' = savings + 1 /\ savings = 0
    BY <1>1, Zenon DEF EndSetup, InterInv, ProfileFits
  <2>2. savings' \in 0..1
    BY <2>1
  <2> QED
    BY <2>1, <2>2, Zenon DEF ProfileFits
<1>2. CASE ~setup
  BY <1>2, Zenon DEF EndSetup, InterInv, ProfileFits, InterFlags
<1> QED
  BY <1>1, <1>2

LEMMA SkipKeeps == ASSUME InterInv, Skip PROVE InterInv'
<1>1. EndSetup(Skipped) /\ UNCHANGED <<step, answers, reading, finishing, wakeOnLaunch, asLaunched, aglow, launches, said, saidAt>>
  BY Zenon DEF Skip
<1>2. Held(Skipped.answers, said, saidAt) /\ Skipped \in Sheets /\ ~Skipped.volunteer
  BY SaidIs, NothingHeld, NoProfileIs
<1>3. ProfileFits' /\ setup' \in BOOLEAN
  BY <1>1, <1>2, EndSetupKeeps, Zenon
<1>4. InterFlags'
  BY <1>1, <1>3, Zenon DEF InterInv, InterFlags
<1>5. SheetsFit'
  BY <1>1, Zenon DEF InterInv, SheetsFit
<1> QED
  BY <1>1, <1>3, <1>4, <1>5, InterRests, Zenon

LEMMA AnswerKeeps == ASSUME InterInv, Answer PROVE InterInv'
<1>0. said \in Nat /\ said + 1 \in Sayings /\ said + 1 \in 1..MaxSaid /\ said' = said + 1
  BY SaidIs DEF Answer, Sayings
<1>1. UNCHANGED <<setup, step, answers, finishing, profile, wakeOnLaunch, asLaunched, aglow, launches, savings>>
  BY Zenon DEF Answer
<1>2. PICK d : d = IF step \in Steps THEN step ELSE 0
  OBVIOUS
<1>3. d \in 0..Questions /\ saidAt' = [saidAt EXCEPT ![said + 1] = d] /\ saidAt \in [Sayings -> 0..Questions]
  BY <1>2, SaidIs DEF Answer, Steps, InterInv, InterCounts
<1>4. saidAt' \in [Sayings -> 0..Questions] /\ saidAt'[said + 1] = d /\ \A k \in 1..said : saidAt'[k] = saidAt[k]
  BY <1>0, <1>3 DEF Sayings
<1>5. PICK h : h = [q |-> step, n |-> said + 1]
  OBVIOUS
<1>6. CASE step \in Steps
  <2>1. reading' = reading \union {h} /\ h \in Handler /\ h.q = d /\ h.n = said + 1
    BY <1>0, <1>2, <1>5, <1>6 DEF Answer, Handler
  <2>2. h \notin reading
    BY <1>0, <2>1 DEF InterInv, ReadingsFit
  <2>3. IsFiniteSet(reading') /\ Cardinality(reading') = Cardinality(reading) + 1
    BY <2>1, <2>2, FS_AddElement DEF InterInv, InterCounts
  <2>4. ReadingsFit'
    <3>1. ASSUME NEW g \in reading PROVE g.n \in 1..said /\ saidAt[g.n] = g.q /\ g \in Handler
      BY <1>0, ReadIs DEF InterInv, ReadingsFit
    <3> QED
      BY <1>0, <1>4, <2>1, <3>1 DEF ReadingsFit
  <2> QED
    <3>1. Cardinality(reading) \in Nat /\ step \in Nat /\ step >= 1 /\ step + Cardinality(reading) <= said + 1
      BY FS_CardinalityType DEF InterInv, InterCounts
    <3>2. step' + Cardinality(reading') <= said' + 1
      BY <1>0, <1>1, <2>3, <3>1
    <3>3. said' \in 0..MaxSaid
      BY <1>0, SaidIs
    <3>4. InterCounts'
      BY <1>1, <1>4, <2>3, <3>1, <3>2, <3>3, Zenon DEF InterInv, InterCounts
    <3>5. \A a : Held(a, said, saidAt) => Held(a, said', saidAt')
      BY <1>0, <1>4, HeldOn
    <3>6. SheetsFit' /\ ProfileFits' /\ InterFlags'
      BY <1>1, <3>5, Zenon DEF InterInv, SheetsFit, ProfileFits, InterFlags
    <3> QED
      BY <2>4, <3>4, <3>6, Zenon DEF InterInv
<1>7. CASE step \notin Steps
  <2>1. reading' = reading
    BY <1>7, Zenon DEF Answer
  <2>4. ReadingsFit'
    <3>1. ASSUME NEW g \in reading PROVE g.n \in 1..said /\ saidAt[g.n] = g.q /\ g \in Handler
      BY <1>0, ReadIs DEF InterInv, ReadingsFit
    <3> QED
      BY <1>0, <1>4, <2>1, <3>1 DEF ReadingsFit
  <2> QED
    <3>1. Cardinality(reading) \in Nat /\ step \in Nat /\ step >= 1 /\ step + Cardinality(reading) <= said + 1
      BY FS_CardinalityType DEF InterInv, InterCounts
    <3>2. step' + Cardinality(reading') <= said' + 1
      BY <1>0, <1>1, <2>1, <3>1
    <3>3. said' \in 0..MaxSaid
      BY <1>0, SaidIs
    <3>4. InterCounts'
      BY <1>1, <1>4, <2>1, <3>1, <3>2, <3>3, Zenon DEF InterInv, InterCounts
    <3>5. \A a : Held(a, said, saidAt) => Held(a, said', saidAt')
      BY <1>0, <1>4, HeldOn
    <3>6. SheetsFit' /\ ProfileFits' /\ InterFlags'
      BY <1>1, <3>5, Zenon DEF InterInv, SheetsFit, ProfileFits, InterFlags
    <3> QED
      BY <2>4, <3>4, <3>6, Zenon DEF InterInv
<1> QED
  BY <1>6, <1>7

LEMMA ExtractedKeeps == ASSUME InterInv, NEW h \in reading, Extracted(h) PROVE InterInv'
<1>0. h.q \in Steps /\ h.n \in 1..MaxSaid /\ h.n <= said /\ saidAt[h.n] = h.q /\ said \in Nat /\ h.n \in Sayings
  BY ReadIs, SaidIs DEF Sayings
<1>1. reading' = reading \ {h} /\ UNCHANGED <<setup, profile, wakeOnLaunch, asLaunched, aglow, launches, said, savings>>
  BY Zenon DEF Extracted
<1>2. /\ IsFiniteSet(reading') /\ Cardinality(reading') = Cardinality(reading) - 1
      /\ Cardinality(reading) \in Nat /\ step \in Nat /\ step >= 1 /\ step + Cardinality(reading) <= said + 1
  <2>1. IsFiniteSet(reading) /\ Cardinality(reading) \in Nat
    BY FS_CardinalityType DEF InterInv, InterCounts
  <2>2. IsFiniteSet(reading') /\ Cardinality(reading') = Cardinality(reading) - 1
    BY <1>1, <2>1, FS_RemoveElement
  <2> QED
    BY <2>1, <2>2, Zenon DEF InterInv, InterCounts
<1>3. /\ saidAt' \in [Sayings -> 0..Questions] /\ (\A k \in 1..said : saidAt'[k] \in {0, saidAt[k]})
      /\ (\A g \in reading' : saidAt'[g.n] = saidAt[g.n])
      /\ step' \in {step, step + 1}
      /\ Held(answers', said, saidAt')
      /\ \/ UNCHANGED finishing
         \/ finishing' = finishing \union {[answers |-> answers', at |-> "initiative", volunteer |-> FALSE, wake |-> TRUE]}
  <2>0. Held(answers, said, saidAt) /\ saidAt \in [Sayings -> 0..Questions]
    BY Zenon DEF InterInv, SheetsFit, InterCounts
  <2>1. CASE UNCHANGED <<answers, step, finishing, saidAt>>
    BY <2>0, <2>1, Zenon
  <2>2. CASE Read(h)
    <3>1. answers' = [answers EXCEPT ![h.q] = h.n] /\ step' = step + 1 /\ saidAt' = saidAt
      BY <2>2, Zenon DEF Read
    <3>2. Held(answers', said, saidAt)
      BY <1>0, <2>0, <3>1, HeldWith
    <3>3. \/ UNCHANGED finishing
          \/ finishing' = finishing \union {[answers |-> answers', at |-> "initiative", volunteer |-> FALSE, wake |-> TRUE]}
      BY <2>2, Zenon DEF Read
    <3> QED
      BY <2>0, <3>1, <3>2, <3>3, Zenon
  <2>3. CASE \E k \in Steps : Corrects(h, k)
    <3>1. PICK k \in Steps : Corrects(h, k)
      BY <2>3
    <3>2. answers' = [answers EXCEPT ![k] = h.n] /\ saidAt' = [saidAt EXCEPT ![h.n] = 0] /\ UNCHANGED <<step, finishing>>
      BY <3>1, Zenon DEF Corrects
    <3>3. saidAt' \in [Sayings -> 0..Questions] /\ (\A i \in Sayings : saidAt'[i] = IF i = h.n THEN 0 ELSE saidAt[i])
      BY <1>0, <2>0, <3>2, SaidIs
    <3>4. (\A i \in 1..said : saidAt'[i] \in {0, saidAt[i]}) /\ saidAt'[h.n] = 0
      BY <1>0, <3>3, SaidIs DEF Sayings
    <3>5. Held(answers, said, saidAt')
      BY <1>0, <2>0, <3>4, HeldOn
    <3>6. Held(answers', said, saidAt')
      BY <1>0, <3>2, <3>4, <3>5, HeldWith
    <3>7. ASSUME NEW g \in reading' PROVE saidAt'[g.n] = saidAt[g.n]
      <4>1. g \in reading /\ g # h
        BY <1>1
      <4>2. g.n \in Sayings /\ saidAt[g.n] = g.q /\ g \in Handler /\ h \in Handler
        BY <4>1 DEF InterInv, ReadingsFit, Handler
      <4>3. g.n # h.n
        BY <1>0, <4>1, <4>2 DEF Handler
      <4> QED
        BY <3>3, <4>2, <4>3
    <3> QED
      BY <3>2, <3>3, <3>4, <3>6, <3>7, Zenon
  <2> QED
    BY <2>1, <2>2, <2>3, Zenon DEF Extracted, AskedBack
<1>4. InterCounts'
  <2>1. step' \in Nat /\ step' >= 1 /\ step' + Cardinality(reading') <= said' + 1
    BY <1>1, <1>2, <1>3, <1>0
  <2> QED
    BY <1>1, <1>2, <1>3, <2>1, Zenon DEF InterInv, InterCounts
<1>5. ReadingsFit'
  BY <1>1, <1>3 DEF InterInv, ReadingsFit
<1>6. \A a : Held(a, said, saidAt) => Held(a, said, saidAt')
  BY <1>0, <1>3, HeldOn
<1>7. SheetsFit'
  <2>1. CASE UNCHANGED finishing
    BY <1>1, <1>3, <1>6, <2>1, Zenon DEF InterInv, SheetsFit
  <2>2. CASE finishing' = finishing \union {[answers |-> answers', at |-> "initiative", volunteer |-> FALSE, wake |-> TRUE]}
    <3>1. PICK f : f = [answers |-> answers', at |-> "initiative", volunteer |-> FALSE, wake |-> TRUE]
      OBVIOUS
    <3>2. answers' \in [Steps -> 0..MaxSaid]
      BY <1>3, Zenon DEF Held
    <3>3. f \in Finisher
      BY <3>1, <3>2, Zenon DEF Finisher
    <3>4. f.answers = answers' /\ ~f.volunteer
      BY <3>1
    <3> QED
      BY <1>1, <1>3, <1>6, <2>2, <3>1, <3>3, <3>4, Zenon DEF InterInv, SheetsFit
  <2> QED
    BY <1>3, <2>1, <2>2, Zenon
<1>8. ProfileFits' /\ InterFlags'
  BY <1>1, <1>6, Zenon DEF InterInv, ProfileFits, InterFlags
<1> QED
  BY <1>4, <1>5, <1>7, <1>8, Zenon DEF InterInv

LEMMA FinishingKeeps ==
  ASSUME InterInv, NEW f \in finishing, ReadsInitiative(f) \/ ReadsWake(f) \/ Saves(f)
  PROVE  InterInv'
<1>1. f \in Finisher /\ Held(f.answers, said, saidAt) /\ (f.volunteer => f.answers[1] # 0)
  BY Zenon DEF InterInv, SheetsFit
<1>2. UNCHANGED <<step, answers, reading, launches, said, saidAt, asLaunched>>
  BY Zenon DEF ReadsInitiative, ReadsWake, Saves
<1>3. CASE ReadsInitiative(f)
  <2>1. PICK r \in (IF f.answers[1] = 0 THEN {"unread"} ELSE Reads) :
          finishing' = (finishing \ {f}) \union {[f EXCEPT !.at = "wake", !.volunteer = (r = "yes")]}
    BY <1>3, Zenon DEF ReadsInitiative
  <2>2. PICK v : v = (r = "yes")
    OBVIOUS
  <2>3. PICK g : g = [f EXCEPT !.at = "wake", !.volunteer = v]
    OBVIOUS
  <2>4. v \in BOOLEAN
    BY <2>2, Zenon
  <2>5. g \in Finisher /\ g.answers = f.answers /\ g.volunteer = v
    BY <1>1, <2>3, <2>4 DEF Finisher
  <2>6. v => f.answers[1] # 0
    BY <2>1, <2>2
  <2>7. finishing' = (finishing \ {f}) \union {g}
    BY <2>1, <2>2, <2>3, Zenon
  <2>8. ASSUME NEW x \in finishing' PROVE x \in Finisher /\ Held(x.answers, said, saidAt) /\ (x.volunteer => x.answers[1] # 0)
    <3>1. CASE x = g
      BY <1>1, <2>5, <2>6, <3>1, Zenon
    <3>2. CASE x \in finishing
      BY <3>2, Zenon DEF InterInv, SheetsFit
    <3> QED
      BY <2>7, <3>1, <3>2
  <2>9. SheetsFit'
    BY <1>2, <2>8, Zenon DEF InterInv, SheetsFit
  <2>10. UNCHANGED <<setup, profile, wakeOnLaunch, aglow, savings>>
    BY <1>3, Zenon DEF ReadsInitiative
  <2>11. ProfileFits' /\ InterFlags'
    BY <1>2, <2>10, Zenon DEF InterInv, ProfileFits, InterFlags
  <2> QED
    BY <1>2, <2>9, <2>11, InterRests, Zenon
<1>4. CASE ReadsWake(f)
  <2>1. PICK r : /\ finishing' = (finishing \ {f}) \union {[f EXCEPT !.at = "save", !.wake = (r # "no")]}
                 /\ wakeOnLaunch' = (r # "no") /\ aglow' = (aglow /\ (r # "no"))
    BY <1>4, Zenon DEF ReadsWake
  <2>2. PICK v : v = (r # "no")
    OBVIOUS
  <2>3. PICK g : g = [f EXCEPT !.at = "save", !.wake = v]
    OBVIOUS
  <2>4. v \in BOOLEAN
    BY <2>2, Zenon
  <2>5. g \in Finisher /\ g.answers = f.answers /\ g.volunteer = f.volunteer
    BY <1>1, <2>3, <2>4 DEF Finisher
  <2>7. finishing' = (finishing \ {f}) \union {g}
    BY <2>1, <2>2, <2>3, Zenon
  <2>8. ASSUME NEW x \in finishing' PROVE x \in Finisher /\ Held(x.answers, said, saidAt) /\ (x.volunteer => x.answers[1] # 0)
    <3>1. CASE x = g
      BY <1>1, <2>5, <3>1, Zenon
    <3>2. CASE x \in finishing
      BY <3>2, Zenon DEF InterInv, SheetsFit
    <3> QED
      BY <2>7, <3>1, <3>2
  <2>9. SheetsFit'
    BY <1>2, <2>8, Zenon DEF InterInv, SheetsFit
  <2>10. UNCHANGED <<setup, profile, savings>>
    BY <1>4, Zenon DEF ReadsWake
  <2>11. ProfileFits'
    BY <1>2, <2>10, Zenon DEF InterInv, ProfileFits
  <2>12. InterFlags'
    <3>1. {setup, asLaunched}' \subseteq BOOLEAN
      BY <1>2, <2>10, Zenon DEF InterInv, InterFlags
    <3>2. {wakeOnLaunch, aglow}' \subseteq BOOLEAN
      BY <2>1, Zenon
    <3> QED
      BY <3>1, <3>2, Zenon DEF InterFlags
  <2> QED
    BY <1>2, <2>9, <2>11, <2>12, InterRests, Zenon
<1>5. CASE Saves(f)
  <2>1. PICK p : p = [kind |-> "kept", answers |-> f.answers, volunteer |-> f.volunteer]
    OBVIOUS
  <2>2. f.answers \in [Steps -> 0..MaxSaid] /\ f.volunteer \in BOOLEAN
    BY <1>1 DEF Finisher
  <2>3. p \in Sheets
    BY <2>1, <2>2, Zenon DEF Sheets
  <2>4. p.answers = f.answers /\ p.volunteer = f.volunteer
    BY <2>1
  <2>5. EndSetup(p) /\ finishing' = finishing \ {f} /\ UNCHANGED <<wakeOnLaunch, aglow>>
    BY <1>5, <2>1, Zenon DEF Saves
  <2>6. ProfileFits' /\ setup' \in BOOLEAN
    BY <1>1, <1>2, <2>3, <2>4, <2>5, EndSetupKeeps, Zenon
  <2>7. InterFlags'
    BY <1>2, <2>5, <2>6, Zenon DEF InterInv, InterFlags
  <2>8. finishing' \subseteq finishing
    BY <2>5
  <2>9. SheetsFit'
    BY <1>2, <2>8, Zenon DEF InterInv, SheetsFit
  <2> QED
    BY <1>2, <2>6, <2>7, <2>9, InterRests, Zenon
<1> QED
  BY <1>3, <1>4, <1>5

LEMMA InterKeeps == InterInv /\ InterviewNext => InterInv'
  BY LaunchesKeep, SkipKeeps, AnswerKeeps, ExtractedKeeps, FinishingKeeps, Zenon DEF InterviewNext

LEMMA InterStays == InterInv /\ UNCHANGED interVars => InterInv'
<1> SUFFICES ASSUME InterInv, UNCHANGED interVars PROVE InterInv'
  OBVIOUS
<1>1. UNCHANGED <<setup, step, answers, reading, finishing, profile, wakeOnLaunch, asLaunched, aglow, launches,
                  said, saidAt, savings>>
  BY Zenon DEF interVars
<1> QED
  BY <1>1, Zenon DEF InterInv, InterFlags, InterCounts, ReadingsFit, SheetsFit, ProfileFits

(***************************************************************************)
(* The lanes: the shared provider keeps its own model, so a request, and   *)
(* the agent's call, is answered by the one that was meant                 *)
(***************************************************************************)
RequestKinds ==
  [lane : Lanes \union {"none"}, own : Models, stage : {"idle", "reading", "asking", "done"},
   by : Providers \union {"none", "mock", "openai", "elevenlabs"}, with : Models, model : Saids, reply : ReplyKinds]
CallKinds == [stage : {"idle", "reading", "asking", "done"}, with : Models]
BootKinds ==
  /\ provider \in Providers \union {"mock"} /\ upstream \in Providers \union {"none"}
  /\ vision \in {"none", "openai", "anthropic"} /\ speech \in BOOLEAN

(* What one request may hold.                                              *)
WellServed(x) ==
  /\ x.stage = "asking" => x.with \in {x.own, Default} /\ (x.own = Default => x.with = Default)
  /\ x.lane \in Verdicts /\ x.reply = "words" => x.model = "words"
  /\ x.lane = "extract" => x.reply \notin {"quiet", "empty"}
  /\ x.lane = "vision" => x.by \in {"none", "openai", "anthropic"}
  /\ x.lane = "greet" => x.by # "mock"

LanesInv ==
  /\ BootKinds /\ choice \in Models /\ sandbox \in Models /\ default = Default
  /\ req \in [Requests -> RequestKinds] /\ call \in [AgentCalls -> CallKinds]
  /\ \A q \in Requests : WellServed(req[q])
  /\ sandbox # Default => upstream = provider
  /\ \A a \in AgentCalls : call[a].with # Default => upstream = provider

LEMMA LanesFollow ==
  LanesInv => LanesTypeOK /\ OwnModel /\ AgentModelFits /\ SilenceUnlessSaid /\ AnswersAreKept /\ AskedAreAble
<1> SUFFICES ASSUME LanesInv
             PROVE  LanesTypeOK /\ OwnModel /\ AgentModelFits /\ SilenceUnlessSaid /\ AnswersAreKept /\ AskedAreAble
  OBVIOUS
<1>1. default \in Models
  BY DEF LanesInv, Models
<1>2. LanesTypeOK
  BY <1>1, Zenon DEF LanesInv, BootKinds, LanesTypeOK, RequestKinds, CallKinds
<1> QED
  BY <1>2, Zenon DEF LanesInv, WellServed, OwnModel, AgentModelFits, SilenceUnlessSaid, AnswersAreKept, AskedAreAble

LEMMA NoRequestIs == NoRequest \in RequestKinds /\ WellServed(NoRequest) /\ NoRequest.stage = "idle"
  BY DEF NoRequest, RequestKinds, WellServed, Lanes, Models, Saids, ReplyKinds, Verdicts

LEMMA BeingThere == ASSUME NEW K, NEW e, NEW s, s = (e \in K) PROVE s \in BOOLEAN
<1>1. CASE e \in K
  BY <1>1
<1>2. CASE e \notin K
  BY <1>2
<1> QED
  BY <1>1, <1>2

LEMMA LanesStart == LanesInit => LanesInv
<1> SUFFICES ASSUME LanesInit PROVE LanesInv
  OBVIOUS
<1>1. PICK keys \in Environments, forced \in Forced, forcedUp \in Providers \union {""} :
        /\ provider = PickProvider(keys, forced) /\ upstream = ChooseUpstream(keys, forcedUp)
        /\ vision = PickVision(keys) /\ speech = ("voice" \in keys)
  BY Zenon DEF LanesInit
<1>2. provider \in Providers \union {"mock"}
  <2>1. PickProvider(keys, forced) \in {"mock", "anthropic", "deepseek"}
    BY DEF PickProvider, Forced, Providers
  <2> QED
    BY <1>1, <2>1 DEF Providers
<1>3. upstream \in Providers \union {"none"}
  BY <1>1 DEF ChooseUpstream, Providers
<1>4. vision \in {"none", "openai", "anthropic"}
  <2>1. PickVision(keys) \in {"none", "openai", "anthropic"}
    BY DEF PickVision
  <2> QED
    BY <1>1, <2>1
<1>5. speech \in BOOLEAN
  BY <1>1, BeingThere
<1>6. /\ default = Default /\ choice = Default /\ sandbox = Default
      /\ req = [q \in Requests |-> NoRequest] /\ call = [a \in AgentCalls |-> NoCall]
  BY Zenon DEF LanesInit
<1>7. NoCall \in CallKinds /\ NoCall.with = Default /\ Default \in Models
  BY DEF NoCall, CallKinds, Models
<1>8. req \in [Requests -> RequestKinds] /\ call \in [AgentCalls -> CallKinds]
      /\ (\A q \in Requests : WellServed(req[q])) /\ (\A a \in AgentCalls : call[a].with = Default)
  BY <1>6, <1>7, NoRequestIs
<1> QED
  BY <1>2, <1>3, <1>4, <1>5, <1>6, <1>7, <1>8, Zenon DEF LanesInv, BootKinds

(* One request changes, to something it may be.                            *)
LEMMA OneRequest ==
  ASSUME LanesInv, NEW q \in Requests, NEW x \in RequestKinds, WellServed(x),
         req' = [req EXCEPT ![q] = x] \/ req' = [StillOpen EXCEPT ![q] = x]
  PROVE  req' \in [Requests -> RequestKinds] /\ \A p \in Requests : WellServed(req'[p])
<1>1. req \in [Requests -> RequestKinds] /\ \A p \in Requests : WellServed(req[p])
  BY Zenon DEF LanesInv
<1>2. StillOpen \in [Requests -> RequestKinds] /\ \A p \in Requests : WellServed(StillOpen[p])
  BY <1>1, NoRequestIs DEF StillOpen
<1> QED
  BY <1>1, <1>2

(* The rest of the lanes stays as it is.                                   *)
LEMMA RequestsAlone ==
  ASSUME LanesInv, req' \in [Requests -> RequestKinds], \A p \in Requests : WellServed(req'[p]),
         UNCHANGED <<boot, default, call>>, choice' \in Models, sandbox' \in Models,
         sandbox' # Default => upstream = provider
  PROVE  LanesInv'
<1>1. UNCHANGED <<provider, upstream, vision, speech, default, call>>
  BY Zenon DEF boot
<1> QED
  BY <1>1, Zenon DEF LanesInv, BootKinds

LEMMA SentIs ==
  ASSUME LanesInv, NEW q \in Requests, NEW out \in {"refused", "unable", "quiet", "told"},
         out = "quiet" => req[q].lane # "extract"
  PROVE  Sent(q, out) \in RequestKinds /\ WellServed(Sent(q, out))
<1>1. req[q] \in RequestKinds /\ WellServed(req[q])
  BY Zenon DEF LanesInv
<1>2. PICK x : x = req[q]
  OBVIOUS
<1>3. Sent(q, out) = [x EXCEPT !.stage = "done", !.reply = out]
  BY <1>2, Zenon DEF Sent
<1>4. PICK y : y = [x EXCEPT !.stage = "done", !.reply = out]
  OBVIOUS
<1>5. x \in RequestKinds /\ out \in ReplyKinds
  BY <1>1, <1>2 DEF ReplyKinds
<1>6. y \in RequestKinds /\ y.stage = "done" /\ y.reply = out /\ y.lane = x.lane /\ y.by = x.by /\ y.model = x.model
  BY <1>4, <1>5 DEF RequestKinds
<1>7. WellServed(y)
  BY <1>1, <1>2, <1>6 DEF WellServed
<1> QED
  BY <1>3, <1>4, <1>6, <1>7

LEMMA SendsKeep ==
  ASSUME LanesInv, NEW q \in Requests, Refuses(q) \/ Unable(q) \/ MockGreets(q) \/ SetsModel(q)
  PROVE  LanesInv'
<1>1. PICK out \in {"refused", "unable", "quiet", "told"} :
        /\ req' = [req EXCEPT ![q] = Sent(q, out)] /\ (out = "quiet" => req[q].lane = "greet")
  BY Zenon DEF Refuses, Unable, MockGreets, SetsModel
<1>2. Sent(q, out) \in RequestKinds /\ WellServed(Sent(q, out))
  BY <1>1, SentIs
<1>3. req' \in [Requests -> RequestKinds] /\ \A p \in Requests : WellServed(req'[p])
  BY <1>1, <1>2, OneRequest, Zenon
<1>4. UNCHANGED <<boot, default, choice, call>> /\ sandbox' \in {sandbox, SandboxModelFor(req[q].own)}
  BY Zenon DEF Refuses, Unable, MockGreets, SetsModel
<1>5. req[q].own \in Models /\ choice \in Models /\ sandbox \in Models /\ (sandbox # Default => upstream = provider)
  BY DEF LanesInv, RequestKinds
<1>6. sandbox' \in Models /\ (sandbox' # Default => upstream = provider)
  BY <1>4, <1>5 DEF SandboxModelFor, Models
<1> QED
  BY <1>3, <1>4, <1>5, <1>6, RequestsAlone, Zenon

LEMMA ComingKeeps ==
  ASSUME LanesInv, NEW q \in Requests,
         (\E lane \in Lanes : Comes(q, lane)) \/ (\E m \in Models : ChoosesModel(q, m))
  PROVE  LanesInv'
<1>1. PICK lane \in Lanes, m \in Models :
        /\ req' = [StillOpen EXCEPT ![q] = [NoRequest EXCEPT !.lane = lane, !.own = m, !.stage = "reading"]]
        /\ choice' \in {choice, m} /\ UNCHANGED <<boot, default, sandbox, call>>
  <2>1. CASE \E lane \in Lanes : Comes(q, lane)
    <3>1. choice \in Models
      BY Zenon DEF LanesInv
    <3> QED
      BY <2>1, <3>1, Zenon DEF Comes
  <2>2. CASE \E m \in Models : ChoosesModel(q, m)
    <3>1. "model" \in Lanes
      BY DEF Lanes
    <3> QED
      BY <2>2, <3>1, Zenon DEF ChoosesModel
  <2> QED
    BY <2>1, <2>2
<1>2. PICK x : x = [NoRequest EXCEPT !.lane = lane, !.own = m, !.stage = "reading"]
  OBVIOUS
<1>3. x \in RequestKinds /\ x.stage = "reading" /\ x.by = "none" /\ x.reply = "none"
  BY <1>2, NoRequestIs DEF NoRequest, RequestKinds
<1>4. WellServed(x)
  BY <1>3 DEF WellServed
<1>5. req' \in [Requests -> RequestKinds] /\ \A p \in Requests : WellServed(req'[p])
  BY <1>1, <1>2, <1>3, <1>4, OneRequest, Zenon
<1>6. choice' \in Models /\ sandbox' \in Models /\ (sandbox' # Default => upstream = provider)
  BY <1>1 DEF LanesInv
<1> QED
  BY <1>1, <1>5, <1>6, RequestsAlone, Zenon

LEMMA AskingKeeps ==
  ASSUME LanesInv, NEW q \in Requests, AsksModel(q)
  PROVE  LanesInv'
<1>1. PICK x : x = req[q]
  OBVIOUS
<1>2. x \in RequestKinds /\ WellServed(x) /\ default = Default /\ BootKinds
  BY <1>1, Zenon DEF LanesInv
<1>3. x.lane # "model" /\ ~Lacks(x.lane) /\ ~(x.lane = "greet" /\ provider = "mock") /\ Overrides(q)
      /\ UNCHANGED <<boot, choice, sandbox, call>> /\ x.stage = "reading"
  BY <1>1, Zenon DEF AsksModel
<1>4. PICK w : w = IF x.lane \notin {"vision", "speak", "session"} /\ x.own # Default THEN x.own ELSE default
  OBVIOUS
<1>5. PICK y : y = [x EXCEPT !.stage = "asking", !.by = AskedOf(x.lane), !.with = w]
  OBVIOUS
<1>6. req' = [req EXCEPT ![q] = y] /\ default' = default
  <2>1. req' = [req EXCEPT ![q].stage = "asking", ![q].by = AskedOf(x.lane), ![q].with = w] /\ default' = default
    BY <1>1, <1>3, <1>4, Zenon DEF Overrides
  <2>2. req \in [Requests -> RequestKinds]
    BY Zenon DEF LanesInv
  <2> QED
    BY <1>1, <1>5, <2>1, <2>2 DEF RequestKinds
<1>7. w \in Models /\ w \in {x.own, Default} /\ (x.own = Default => w = Default)
  BY <1>2, <1>4 DEF RequestKinds, Models
<1>8. /\ AskedOf(x.lane) \in Providers \union {"none", "mock", "openai", "elevenlabs"}
      /\ x.lane = "vision" => AskedOf(x.lane) \in {"none", "openai", "anthropic"}
      /\ x.lane = "greet" => AskedOf(x.lane) # "mock"
  <2>1. provider \in Providers \union {"mock"} /\ vision \in {"none", "openai", "anthropic"}
    BY <1>2, Zenon DEF BootKinds
  <2> QED
    BY <1>3, <2>1 DEF AskedOf, Providers
<1>9. y \in RequestKinds /\ y.stage = "asking" /\ y.with = w /\ y.by = AskedOf(x.lane) /\ y.own = x.own /\ y.lane = x.lane
      /\ y.reply = x.reply /\ y.model = x.model
  BY <1>2, <1>5, <1>7, <1>8 DEF RequestKinds
<1>10. WellServed(y)
  BY <1>2, <1>7, <1>8, <1>9 DEF WellServed
<1>11. req' \in [Requests -> RequestKinds] /\ \A p \in Requests : WellServed(req'[p])
  BY <1>6, <1>9, <1>10, OneRequest, Zenon
<1>12. choice' \in Models /\ sandbox' \in Models /\ (sandbox' # Default => upstream = provider)
  BY <1>3 DEF LanesInv
<1> QED
  BY <1>3, <1>6, <1>11, <1>12, RequestsAlone, Zenon

LEMMA SayingKeeps ==
  ASSUME LanesInv, NEW q \in Requests, NEW word \in Saids, ModelSays(q, word)
  PROVE  LanesInv'
<1>1. PICK x : x = req[q]
  OBVIOUS
<1>2. x \in RequestKinds /\ WellServed(x)
  BY <1>1, Zenon DEF LanesInv
<1>3. PICK out : out = ReplyFor(x.lane, word)
  OBVIOUS
<1>4. /\ out \in ReplyKinds
      /\ x.lane \in Verdicts /\ out = "words" => word = "words"
      /\ x.lane = "extract" => out \notin {"quiet", "empty"}
  BY <1>3 DEF ReplyFor, ReplyKinds, Verdicts
<1>5. PICK y : y = [[x EXCEPT !.stage = "done", !.reply = out] EXCEPT !.model = word]
  OBVIOUS
<1>6. req' = [req EXCEPT ![q] = y] /\ UNCHANGED <<boot, default, choice, sandbox, call>>
  BY <1>1, <1>3, <1>5, Zenon DEF ModelSays, Sent
<1>7. y \in RequestKinds /\ y.stage = "done" /\ y.reply = out /\ y.model = word /\ y.lane = x.lane /\ y.by = x.by
  BY <1>2, <1>4, <1>5 DEF RequestKinds
<1>8. WellServed(y)
  BY <1>2, <1>4, <1>7 DEF WellServed
<1>9. req' \in [Requests -> RequestKinds] /\ \A p \in Requests : WellServed(req'[p])
  BY <1>6, <1>7, <1>8, OneRequest, Zenon
<1>10. choice' \in Models /\ sandbox' \in Models /\ (sandbox' # Default => upstream = provider)
  BY <1>6 DEF LanesInv
<1> QED
  BY <1>6, <1>9, <1>10, RequestsAlone, Zenon

LEMMA CallsKeep ==
  ASSUME LanesInv, NEW a \in AgentCalls, CallComes(a) \/ CallRefused(a) \/ Forwards(a) \/ CallEnds(a)
  PROVE  LanesInv'
<1>1. UNCHANGED <<provider, upstream, vision, speech, default, choice, sandbox, req>>
  BY Zenon DEF CallComes, CallRefused, Forwards, CallEnds, boot
<1>2. call \in [AgentCalls -> CallKinds] /\ sandbox \in Models /\ (sandbox # Default => upstream = provider)
      /\ (\A b \in AgentCalls : call[b].with # Default => upstream = provider)
  BY Zenon DEF LanesInv
<1>3. PICK c \in CallKinds : call' = [call EXCEPT ![a] = c] /\ c.with \in {call[a].with, sandbox, Default}
  <2>1. CASE CallComes(a)
    <3>1. PICK c : c = [stage |-> "reading", with |-> sandbox]
      OBVIOUS
    <3>2. c \in CallKinds /\ c.with = sandbox
      BY <1>2, <3>1 DEF CallKinds
    <3>3. call' = [call EXCEPT ![a] = c]
      BY <2>1, <3>1, Zenon DEF CallComes
    <3> QED
      BY <3>2, <3>3
  <2>2. CASE CallRefused(a) \/ Forwards(a)
    <3>1. PICK s \in {"done", "asking"} : call' = [call EXCEPT ![a].stage = s]
      BY <2>2, Zenon DEF CallRefused, Forwards
    <3>2. PICK c : c = [call[a] EXCEPT !.stage = s]
      OBVIOUS
    <3>3. c \in CallKinds /\ c.with = call[a].with
      BY <1>2, <3>2 DEF CallKinds
    <3>4. call' = [call EXCEPT ![a] = c]
      BY <1>2, <3>1, <3>2 DEF CallKinds
    <3> QED
      BY <3>3, <3>4
  <2>3. CASE CallEnds(a)
    <3>1. NoCall \in CallKinds /\ NoCall.with = Default
      BY DEF NoCall, CallKinds, Models
    <3>2. call' = [call EXCEPT ![a] = NoCall]
      BY <2>3, Zenon DEF CallEnds
    <3> QED
      BY <3>1, <3>2
  <2> QED
    BY <2>1, <2>2, <2>3
<1>4. call' \in [AgentCalls -> CallKinds] /\ (\A b \in AgentCalls : call'[b].with # Default => upstream = provider)
  BY <1>2, <1>3
<1> QED
  BY <1>1, <1>4, Zenon DEF LanesInv, BootKinds

LEMMA LanesKeep == LanesInv /\ LanesNext => LanesInv'
  BY SendsKeep, ComingKeeps, AskingKeeps, SayingKeeps, CallsKeep, Zenon DEF LanesNext

LEMMA LanesStay == LanesInv /\ UNCHANGED laneVars => LanesInv'
<1> SUFFICES ASSUME LanesInv, UNCHANGED laneVars PROVE LanesInv'
  OBVIOUS
<1>1. UNCHANGED <<provider, upstream, vision, speech, default, choice, sandbox, req, call>>
  BY Zenon DEF laneVars, boot
<1> QED
  BY <1>1, Zenon DEF LanesInv, BootKinds

(***************************************************************************)
(* The face: what is worn is private in the dark, and in the light only    *)
(* where the light came on during a reply                                  *)
(***************************************************************************)
FaceInv == FaceTypeOK /\ DarkLooksDark /\ LightLooksLit

LEMMA FaceStarts == FaceInit => FaceInv
<1> SUFFICES ASSUME FaceInit PROVE FaceInv
  OBVIOUS
<1>1. {worn, owned} \subseteq Emotions /\ mascot \in Mascots
  BY DEF FaceInit, Emotions, Mascots
<1>2. saying \in 0..MaxSayings /\ slow \in 0..2
  BY SayingsBound DEF FaceInit
<1> QED
  BY <1>1, <1>2 DEF FaceInit, FaceInv, FaceTypeOK, DarkLooksDark, LightLooksLit

(* The names that may be worn between replies, and what wearing one shows. *)
LEMMA LooksAsItIs ==
  /\ \A on \in BOOLEAN, m \in Mascots : EmotionFor(on, m) \in Emotions /\ (on => EmotionFor(on, m) # "private")
  /\ \A e \in Moods \union {"listening", "talking", "oops", "thinking"} : e \in Emotions /\ e # "private"
  /\ \A name \in Emotions, on \in BOOLEAN :
       Wears(name, on) => /\ {worn', owned'} \subseteq Emotions
                          /\ ~on => worn' = "private"
                          /\ on /\ name # "private" => worn' # "private"
  BY MoodsDiffer DEF EmotionFor, Emotions, Mascots, Wears

(* Whoever writes the face between two broadcasts writes what the light    *)
(* allows, and in the light no face of sleep.                              *)
FaceOK == {worn, owned} \subseteq Emotions /\ DarkLooksDark /\ LightLooksLit

LEMMA WritersKeep ==
  ASSUME FaceInv, UNCHANGED lightVars,
         \/ UNCHANGED <<worn, owned>>
         \/ WearsOwnLook
         \/ \E name \in Moods \union {"listening", "talking", "oops", "thinking"} : Wears(name, shining)
  PROVE  FaceOK'
<1> USE DEF FaceInv, FaceTypeOK, FaceOK, DarkLooksDark, LightLooksLit, lightVars
<1>1. CASE UNCHANGED <<worn, owned>>
  BY <1>1
<1>2. CASE WearsOwnLook
  <2>1. EmotionFor(shining, mascot) \in Emotions /\ (shining => EmotionFor(shining, mascot) # "private")
    BY LooksAsItIs, Zenon
  <2> QED
    BY <1>2, <2>1, LooksAsItIs DEF WearsOwnLook
<1>3. ASSUME NEW name \in Moods \union {"listening", "talking", "oops", "thinking"}, Wears(name, shining)
      PROVE  FaceOK'
  BY <1>3, LooksAsItIs
<1> QED
  BY <1>1, <1>2, <1>3

(* A broadcast: the light off shows the face of sleep, and the light coming *)
(* on shows one only where it came on during a reply.                      *)
LEMMA RendersKeep ==
  ASSUME FaceInv, NEW on \in BOOLEAN, NEW m \in Mascots, Renders(on, m)
  PROVE  FaceInv'
<1> USE DEF FaceInv, FaceTypeOK, DarkLooksDark, LightLooksLit
<1>1. /\ shining' = on /\ mascot' = m
      /\ UNCHANGED <<driving, answerDue, saying, slow, onLine, fade, stray, lastMood>>
  BY DEF Renders, replyVars, moodVars
<1>2. wokeTalking' = IF ~on \/ ~driving THEN FALSE ELSE wokeTalking \/ ~shining
  BY DEF Renders, Wakes
<1>3. wokeTalking' \in BOOLEAN
  BY <1>2, Zenon
<1>4. {worn', owned'} \subseteq Emotions /\ DarkLooksDark' /\ LightLooksLit'
  <2>1. EmotionFor(on, m) \in Emotions /\ (on => EmotionFor(on, m) # "private")
    BY LooksAsItIs, Zenon
  <2>2. CASE ~driving \/ ~on
    <3>1. Wears(EmotionFor(on, m), on)
      BY <2>2 DEF Renders
    <3> QED
      BY <1>1, <2>1, <3>1, LooksAsItIs
  <2>3. CASE driving /\ on /\ ~shining
    <3>1. Wears(owned, on)
      BY <2>3 DEF Renders
    <3>2. wokeTalking'
      BY <1>2, <2>3
    <3> QED
      BY <1>1, <2>3, <3>1, <3>2, LooksAsItIs
  <2>4. CASE driving /\ on /\ shining
    <3>1. UNCHANGED <<worn, owned>>
      BY <2>4 DEF Renders
    <3>2. wokeTalking => wokeTalking'
      BY <1>2, <2>4
    <3> QED
      BY <1>1, <2>4, <3>1, <3>2
  <2> QED
    BY <2>2, <2>3, <2>4
<1> QED
  BY <1>1, <1>3, <1>4

LEMMA FaceKeeps == FaceInv /\ FaceNext => FaceInv'
<1> SUFFICES ASSUME FaceInv, FaceNext PROVE FaceInv'
  OBVIOUS
<1>1. ASSUME NEW on \in BOOLEAN, NEW m \in Mascots, Renders(on, m) PROVE FaceInv'
  BY <1>1, RendersKeep
<1>2. ASSUME NEW e \in Moods, Reacts(e) \/ HasAThought(e) PROVE FaceInv'
  <2>1. FaceOK' /\ UNCHANGED <<lightVars, replyVars, onLine, stray>>
    BY <1>2, WritersKeep DEF Reacts, HasAThought, moodVars
  <2>2. fade' \in {fade, "own"} /\ lastMood' \in {lastMood, e}
    BY <1>2 DEF Reacts, HasAThought, Picks, moodVars
  <2> QED
    BY <2>1, <2>2 DEF FaceOK, FaceInv, FaceTypeOK, lightVars, replyVars
<1>3. ASSUME NEW e \in Moods, SpeakSettles(e) PROVE FaceInv'
  <2>1. FaceOK' /\ UNCHANGED <<lightVars, answerDue, slow, onLine, stray>>
    BY <1>3, WritersKeep DEF SpeakSettles
  <2>2. fade' = "settles" /\ lastMood' = e /\ driving' = FALSE /\ saying > 0 /\ saying' = saying - 1
    BY <1>3 DEF SpeakSettles, Picks
  <2>3. saying' \in 0..MaxSayings
    BY <2>2, SayingsBound DEF FaceInv, FaceTypeOK
  <2> QED
    BY <2>1, <2>2, <2>3 DEF FaceOK, FaceInv, FaceTypeOK, lightVars
<1>4. CASE Fades \/ CursorLeaves \/ StrayEnds
  <2>1. FaceOK' /\ UNCHANGED <<lightVars, replyVars, onLine, lastMood>>
    BY <1>4, WritersKeep DEF Fades, CursorLeaves, StrayEnds, moodVars
  <2>2. fade' \in {fade, "none"} /\ stray' \in {stray, FALSE}
    BY <1>4 DEF Fades, CursorLeaves, StrayEnds, moodVars
  <2> QED
    BY <2>1, <2>2 DEF FaceOK, FaceInv, FaceTypeOK, lightVars, replyVars
<1>5. CASE QuestionSent \/ AnswerEnds \/ AnswerFails
  <2>1. FaceOK' /\ UNCHANGED <<lightVars, saying, onLine, fade, lastMood>>
    BY <1>5, WritersKeep DEF QuestionSent, AnswerEnds, AnswerFails, moodVars
  <2>2. answerDue' \in {FALSE, TRUE} /\ driving' \in {FALSE, TRUE} /\ slow' \in {0, 2} /\ stray' \in {stray, TRUE}
    <3>1. CASE QuestionSent
      BY <3>1 DEF QuestionSent, moodVars
    <3>2. CASE AnswerEnds
      BY <3>2 DEF AnswerEnds, moodVars
    <3>3. CASE AnswerFails
      BY <3>3 DEF AnswerFails
    <3> QED
      BY <1>5, <3>1, <3>2, <3>3
  <2>3. answerDue' \in BOOLEAN /\ driving' \in BOOLEAN
    BY <2>2, Zenon
  <2>5. slow' \in 0..2
    BY <2>2
  <2>4. stray' \in BOOLEAN
    BY <2>2 DEF FaceInv, FaceTypeOK
  <2> QED
    BY <2>1, <2>3, <2>4, <2>5 DEF FaceOK, FaceInv, FaceTypeOK, lightVars
<1>6. CASE ThinksVisibly
  <2>1. FaceOK' /\ UNCHANGED <<lightVars, driving, answerDue, saying, onLine, moodVars>>
    BY <1>6, WritersKeep DEF ThinksVisibly
  <2>2. slow' \in 0..2
    BY <1>6 DEF ThinksVisibly, FaceInv, FaceTypeOK
  <2> QED
    BY <2>1, <2>2 DEF FaceOK, FaceInv, FaceTypeOK, lightVars, moodVars
<1>7. CASE SpeakTakesFace
  <2>1. FaceOK' /\ UNCHANGED <<lightVars, answerDue, onLine, moodVars>>
    BY <1>7, WritersKeep DEF SpeakTakesFace
  <2>2. driving' = TRUE /\ slow' \in {slow, 0} /\ saying < MaxSayings /\ saying' = saying + 1
    BY <1>7 DEF SpeakTakesFace
  <2>3. saying' \in 0..MaxSayings /\ slow' \in 0..2
    BY <2>2, SayingsBound DEF FaceInv, FaceTypeOK
  <2> QED
    BY <2>1, <2>2, <2>3 DEF FaceOK, FaceInv, FaceTypeOK, lightVars, moodVars
<1>8. ASSUME NEW name \in Emotions, RecordingShows(name) \/ LineFace(name) PROVE FaceInv'
  <2>1. UNCHANGED <<lightVars, replyVars, moodVars>> /\ onLine' \in {onLine, TRUE}
    BY <1>8 DEF RecordingShows, LineFace
  <2>2. WearsOwnLook \/ \E n \in Moods \union {"listening", "talking", "oops", "thinking"} : Wears(n, shining)
    <3>1. Wears(name, shining) /\ name \in {"listening", "talking", "thinking", EmotionFor(shining, mascot)}
      BY <1>8 DEF RecordingShows, LineFace
    <3>2. CASE name = EmotionFor(shining, mascot)
      BY <3>1, <3>2, Zenon DEF WearsOwnLook
    <3>3. CASE name # EmotionFor(shining, mascot)
      BY <3>1, <3>3, Zenon
    <3> QED
      BY <3>2, <3>3, Zenon
  <2>3. FaceOK'
    BY <2>1, <2>2, WritersKeep
  <2> QED
    BY <2>1, <2>3 DEF FaceOK, FaceInv, FaceTypeOK, lightVars, replyVars, moodVars
<1>9. CASE LineCloses
  <2>1. FaceOK' /\ UNCHANGED <<lightVars, replyVars, moodVars>> /\ onLine' = FALSE
    BY <1>9, WritersKeep DEF LineCloses
  <2> QED
    BY <2>1 DEF FaceOK, FaceInv, FaceTypeOK, lightVars, replyVars, moodVars
<1> QED
  BY <1>1, <1>2, <1>3, <1>4, <1>5, <1>6, <1>7, <1>8, <1>9, Zenon DEF FaceNext

LEMMA FaceStays == FaceInv /\ UNCHANGED faceVars => FaceInv'
  BY DEF FaceInv, FaceTypeOK, DarkLooksDark, LightLooksLit, faceVars

(***************************************************************************)
(* From a sentence to an automation                                        *)
(***************************************************************************)
(* The hour of a reading, and what the words of a sentence can mean by it. *)
HourRead(r) == IF r.when = "repeat" THEN r.hour ELSE r.at % 24
ReadAsMeant(r, s) ==
  r.when # "none" /\ s.sort \in {"repeat", "once"} /\ s.clock # [Unsaid EXCEPT !.by = "word"] =>
    HourRead(r) \in MeantHours(s.clock)
WholeReading(r) ==
  r.when # "none" =>
    /\ r.task
    /\ r.when = "repeat" <=> r.hour # -1
    /\ r.when = "once" <=> r.at # -1
    /\ r.when = "event" <=> r.what # ""

IntentInv ==
  /\ IntentTypeOK
  /\ WholeReading(guess) /\ WholeReading(offer)
  /\ ReadAsMeant(guess, sentence)
  /\ offeredBy = "words" => ReadAsMeant(offer, sentence)
  /\ offeredBy # "nobody" => offer.when # "none"
  /\ MadeIsAhead

(* A clock is not said, said in digits, or said as a word.                 *)
LEMMA ClockSaid ==
  ASSUME NEW c \in Hours12
  PROVE  /\ c.by \in {"none", "digits", "word"} /\ c.hour \in Nat /\ c.half \in {"none", "am", "pm"}
         /\ c.by = "none" => c.hour = 0 /\ c.half = "none"
         /\ c.by = "word" => c.hour <= 12 /\ c.half = "none"
         /\ c.by = "word" /\ c.hour = 0 => c = [Unsaid EXCEPT !.by = "word"]
BY IntentConstants, SMT DEF Hours12, Unsaid

LEMMA SentenceSays ==
  ASSUME NEW s \in Sentences
  PROVE  /\ s.sort \in {"repeat", "once", "in", "event", "plain"} /\ s.clock \in Hours12
         /\ s.sort = "repeat" => s.part \in Parts
         /\ s.sort = "once" => s.part \in Days
<1>1. Unsaid \in Hours12
  BY SMT DEF Hours12
<1> QED BY <1>1, Zenon DEF Sentences

(* What each kind of clock can mean.                                       *)
LEMMA MeantIs ==
  ASSUME NEW c \in Hours12
  PROVE  /\ c.by = "none" => MeantHours(c) = 0..23
         /\ c.by = "word" => MeantHours(c) = IF c.hour \in {0, 12} THEN {c.hour} ELSE {c.hour, c.hour + 12}
         /\ c.by = "digits" /\ c.half = "none" => MeantHours(c) = {c.hour, c.hour + 12} \intersect 0..23
<1>1. c.by = "word" => c.by # "none" /\ c.half = "none"
  BY ClockSaid, Zenon
<1>2. ASSUME c.by = "none" PROVE MeantHours(c) = 0..23
  <2>1. c.by # "word" /\ c.by # "digits" /\ c \in Hours12 /\ c.half = "none"
    BY <1>2, ClockSaid
  <2> QED BY <1>2, <2>1, Zenon DEF MeantHours
<1>3. c.by = "word" => MeantHours(c) = IF c.hour \in {0, 12} THEN {c.hour} ELSE {c.hour, c.hour + 12}
  BY <1>1, Zenon DEF MeantHours
<1>4. ASSUME c.by = "digits", c.half = "none"
      PROVE  MeantHours(c) = {c.hour, c.hour + 12} \intersect 0..23
  <2>1. c.by # "none" /\ c.by # "word" /\ ~(c.half # "none") /\ (c.by = "digits" /\ c.half = "none")
    BY <1>4
  <2> QED BY <2>1, Zenon DEF MeantHours
<1> QED BY <1>2, <1>3, <1>4, Zenon

(* "am" and "pm" move a small hour, and nothing else does.                 *)
LEMMA HalfIs ==
  ASSUME NEW c \in Hours12
  PROVE  /\ OnHalf(c) \in Nat
         /\ c.half = "none" => OnHalf(c) = c.hour
         /\ c.by = "digits" /\ c.half # "none" => OnHalf(c) \in MeantHours(c)
<1>1. c.by \in {"none", "digits", "word"} /\ c.hour \in Nat /\ c.half \in {"none", "am", "pm"}
  BY ClockSaid, Zenon
<1>2. OnHalf(c) \in Nat /\ (c.half = "none" => OnHalf(c) = c.hour)
  BY <1>1, SMT DEF OnHalf
<1>3. ASSUME c.by = "digits", c.half # "none"
      PROVE  OnHalf(c) \in MeantHours(c)
  <2>1. MeantHours(c) = {IF c.hour > 12 THEN c.hour ELSE (c.hour % 12) + (IF c.half = "pm" THEN 12 ELSE 0)}
    BY <1>3, SMT DEF MeantHours
  <2>2. c.hour <= 12 => c.hour % 12 = IF c.hour = 12 THEN 0 ELSE c.hour
    BY <1>1, SMT
  <2>3. OnHalf(c) = IF c.hour > 12 THEN c.hour ELSE (c.hour % 12) + (IF c.half = "pm" THEN 12 ELSE 0)
    <3>1. CASE c.hour > 12
      BY <3>1, <1>1, SMT DEF OnHalf
    <3>2. CASE c.hour = 12
      BY <3>2, <1>1, <1>3, <2>2, SMT DEF OnHalf
    <3>3. CASE c.hour < 12
      <4>1. c.hour % 12 = c.hour
        BY <3>3, <1>1, <2>2, SMT
      <4> QED BY <3>3, <4>1, <1>1, <1>3, SMT DEF OnHalf
    <3> QED BY <3>1, <3>2, <3>3, <1>1, SMT
  <2> QED BY <2>1, <2>3, Zenon
<1> QED BY <1>2, <1>3, Zenon

LEMMA RepeatIsMeant ==
  ASSUME NEW c \in Hours12, NEW half \in Parts
  PROVE  /\ RepeatHour(c, half) \in Int
         /\ RepeatHour(c, half) \in 0..23 /\ c # [Unsaid EXCEPT !.by = "word"] =>
              RepeatHour(c, half) \in MeantHours(c)
<1>1. /\ c.by \in {"none", "digits", "word"} /\ c.hour \in Nat /\ c.half \in {"none", "am", "pm"}
      /\ c.by = "word" => c.hour <= 12 /\ c.half = "none"
      /\ c.by = "word" /\ c.hour = 0 => c = [Unsaid EXCEPT !.by = "word"]
  BY ClockSaid, Zenon
<1>2. /\ OnHalf(c) \in Nat
      /\ c.half = "none" => OnHalf(c) = c.hour
      /\ c.by = "digits" /\ c.half # "none" => OnHalf(c) \in MeantHours(c)
  BY HalfIs, Zenon
<1>3. PartHour[half] \in -1..21
  BY SMT DEF PartHour, Parts
<1>4. RepeatHour(c, half) \in Int
  BY <1>2, <1>3, SMT DEF RepeatHour
<1>5. ASSUME RepeatHour(c, half) \in 0..23, c # [Unsaid EXCEPT !.by = "word"]
      PROVE  RepeatHour(c, half) \in MeantHours(c)
  <2>1. CASE c.by = "none"
    BY <2>1, <1>5, MeantIs, Zenon
  <2>2. CASE c.by = "word"
    <3>1. c.hour \in 1..12 /\ OnHalf(c) = c.hour
      BY <1>1, <1>2, <1>5, <2>2, SMT
    <3>2. \/ RepeatHour(c, half) = c.hour
          \/ c.hour < 12 /\ RepeatHour(c, half) = c.hour + 12
      <4>1. c.by # "none"
        BY <2>2
      <4> QED BY <3>1, <4>1, Zenon DEF RepeatHour
    <3>3. MeantHours(c) = IF c.hour \in {0, 12} THEN {c.hour} ELSE {c.hour, c.hour + 12}
      BY <2>2, MeantIs, Zenon
    <3>4. c.hour < 12 => c.hour \notin {0, 12}
      BY <3>1, SMT
    <3> QED BY <3>2, <3>3, <3>4, Zenon
  <2>3. CASE c.by = "digits" /\ c.half = "none"
    <3>1. RepeatHour(c, half) = c.hour \/ RepeatHour(c, half) = c.hour + 12
      BY <2>3, <1>1, <1>2, <1>3, SMT DEF RepeatHour
    <3> QED BY <3>1, <2>3, <1>5, MeantIs, Zenon
  <2>4. CASE c.by = "digits" /\ c.half # "none"
    <3>1. RepeatHour(c, half) = OnHalf(c)
      BY <2>4, SMT DEF RepeatHour
    <3> QED BY <3>1, <2>4, <1>2, Zenon
  <2> QED BY <2>1, <2>2, <2>3, <2>4, <1>1, Zenon
<1> QED BY <1>4, <1>5, Zenon

LEMMA OnceIsMeant ==
  ASSUME NEW c \in Hours12, NEW day \in Days
  PROVE  /\ OnceHour(c, day) \in Int
         /\ OnceHour(c, day) \in 0..23 => OnceHour(c, day) \in MeantHours(c)
<1>1. /\ c.by \in {"none", "digits", "word"} /\ c.hour \in Nat /\ c.half \in {"none", "am", "pm"}
      /\ c.by = "word" => c.hour <= 12 /\ c.half = "none"
  BY ClockSaid, Zenon
<1>2. /\ OnHalf(c) \in Nat
      /\ c.half = "none" => OnHalf(c) = c.hour
      /\ c.by = "digits" /\ c.half # "none" => OnHalf(c) \in MeantHours(c)
  BY HalfIs, Zenon
<1>3. DayHour[day] \in -1..20
  BY SMT DEF DayHour, Days
<1>4. CASE c.by = "none"
  <2>1. OnceHour(c, day) = DayHour[day]
    BY <1>4, Zenon DEF OnceHour
  <2>2. MeantHours(c) = 0..23
    BY <1>4, MeantIs, Zenon
  <2> QED BY <2>1, <2>2, <1>3, SMT
<1>5. CASE c.by = "word"
  <2>1. OnceHour(c, day) = c.hour
    <3>1. c.by # "none" BY <1>5
    <3> QED BY <1>5, <3>1, Zenon DEF OnceHour
  <2>2. c.hour \in MeantHours(c)
    BY <1>5, MeantIs, Zenon
  <2> QED BY <2>1, <2>2, <1>1, SMT
<1>6. CASE c.by = "digits" /\ c.half = "none"
  <2>1. OnceHour(c, day) = c.hour \/ OnceHour(c, day) = c.hour + 12
    BY <1>6, <1>2, SMT DEF OnceHour
  <2>2. MeantHours(c) = {c.hour, c.hour + 12} \intersect 0..23
    BY <1>6, MeantIs, Zenon
  <2>3. \A x \in Nat : x \in Int /\ x + 12 \in Int
    BY SMT
  <2> QED BY <2>1, <2>2, <2>3, <1>1, Zenon
<1>7. CASE c.by = "digits" /\ c.half # "none"
  <2>1. OnceHour(c, day) = OnHalf(c)
    BY <1>7, <1>2, SMT DEF OnceHour
  <2> QED BY <2>1, <1>7, <1>2, SMT
<1> QED BY <1>4, <1>5, <1>6, <1>7, <1>1, Zenon

(* A moment said is today's or tomorrow's of the hour it was read as.      *)
LEMMA OnceIsSoon ==
  ASSUME NEW c \in Hours12, NEW day \in Days, clockNow \in Times
  PROVE  /\ OnceAt(c, day) \in -1..47
         /\ OnceAt(c, day) # -1 => OnceHour(c, day) \in 0..23 /\ OnceAt(c, day) % 24 = OnceHour(c, day)
<1> DEFINE h == OnceHour(c, day)
<1>1. h \in Int
  BY OnceIsMeant, Zenon
<1>2. clockNow \in 0..23
  BY IntentConstants
<1> HIDE DEF h
<1>3. OnceAt(c, day) = -1 \/ (h \in 0..23 /\ (OnceAt(c, day) = h \/ OnceAt(c, day) = h + 24))
  BY <1>1, <1>2, SMT DEF OnceAt, h
<1>4. h \in 0..23 => h % 24 = h /\ (h + 24) % 24 = h
  BY SMT
<1> QED BY <1>1, <1>3, <1>4, SMT DEF h

(* A reading of nothing, and what it becomes.                              *)
LEMMA NothingRead ==
  /\ NoReading \in Readings
  /\ NoReading.when = "none" /\ NoReading.hour = -1 /\ NoReading.at = -1 /\ NoReading.what = ""
  /\ WholeReading(NoReading) /\ \A s : ReadAsMeant(NoReading, s)
<1>1. -1 \in (-1..23) \union {Often} /\ -1 \in -1..47
  BY SMT
<1>2. NoReading \in Readings
  BY <1>1, Zenon DEF NoReading, Readings
<1>3. NoReading.when = "none" /\ NoReading.hour = -1 /\ NoReading.at = -1 /\ NoReading.what = ""
  BY Zenon DEF NoReading
<1> QED BY <1>2, <1>3, Zenon DEF WholeReading, ReadAsMeant

(* What the words alone are read as.                                       *)
LEMMA HeuristicIs ==
  ASSUME NEW s \in Sentences, clockNow \in Times
  PROVE  Heuristic(s) \in Readings /\ WholeReading(Heuristic(s)) /\ ReadAsMeant(Heuristic(s), s)
<1> DEFINE h == Heuristic(s)
           yes == [NoReading EXCEPT !.task = TRUE]
           hour == RepeatHour(s.clock, s.part)
           at == OnceAt(s.clock, s.part)
<1>1. /\ s.sort \in {"repeat", "once", "in", "event", "plain"} /\ s.clock \in Hours12
      /\ s.sort = "repeat" => s.part \in Parts
      /\ s.sort = "once" => s.part \in Days
  BY SentenceSays, Zenon
<1>2. clockNow \in 0..23
  BY IntentConstants
<1>3. yes \in Readings /\ yes.hour = -1 /\ yes.at = -1 /\ yes.what = "" /\ yes.task
  <2>1. yes.task = TRUE /\ yes.hour = NoReading.hour /\ yes.at = NoReading.at /\ yes.what = NoReading.what
    BY NothingRead, Zenon DEF Readings
  <2> QED BY <2>1, NothingRead, Zenon DEF Readings
<1>4. CASE s.sort = "repeat" /\ s.task /\ hour \in 0..23
  <2>1. h = [yes EXCEPT !.when = "repeat", !.hour = hour]
    BY <1>4, Zenon DEF Heuristic
  <2>2. s.clock # [Unsaid EXCEPT !.by = "word"] => hour \in MeantHours(s.clock)
    BY <1>1, <1>4, RepeatIsMeant, Zenon
  <2>3. hour \in (-1..23) \union {Often} /\ hour # -1
    BY <1>4, SMT
  <2> HIDE DEF hour, h, yes
  <2>4. h \in Readings
    BY <2>1, <2>3, <1>3, Zenon DEF Readings
  <2>5. h.when = "repeat" /\ h.hour = hour /\ h.at = -1 /\ h.what = "" /\ h.task
    BY <2>1, <1>3, Zenon DEF Readings
  <2>6. WholeReading(h)
    BY <2>3, <2>5, Zenon DEF WholeReading
  <2>7. ReadAsMeant(h, s)
    BY <2>2, <2>5, Zenon DEF ReadAsMeant, HourRead
  <2> QED BY <2>4, <2>6, <2>7, Zenon DEF h
<1>5. CASE s.sort = "once" /\ s.task /\ at # -1
  <2>1. h = [yes EXCEPT !.when = "once", !.at = at]
    <3>1. s.sort # "repeat" /\ s.sort # "in"
      BY <1>5
    <3> QED BY <3>1, <1>5, Zenon DEF Heuristic
  <2>2. at \in -1..47 /\ at % 24 \in MeantHours(s.clock)
    BY <1>1, <1>5, OnceIsSoon, OnceIsMeant, Zenon
  <2> HIDE DEF at, h, yes
  <2>4. h \in Readings
    BY <2>1, <2>2, <1>3, Zenon DEF Readings
  <2>5. h.when = "once" /\ h.hour = -1 /\ h.at = at /\ h.what = "" /\ h.task
    BY <2>1, <1>3, Zenon DEF Readings
  <2>6. WholeReading(h)
    BY <1>5, <2>5, Zenon DEF WholeReading
  <2>7. ReadAsMeant(h, s)
    BY <2>2, <2>5, Zenon DEF ReadAsMeant, HourRead
  <2> QED BY <2>4, <2>6, <2>7, Zenon DEF h
<1>6. CASE s.sort = "in" /\ s.task
  <2>1. clockNow + 1 \in -1..47 /\ clockNow + 1 # -1
    BY <1>2, SMT
  <2>2. h = [yes EXCEPT !.when = "once", !.at = clockNow + 1]
    <3>1. s.sort # "repeat"
      BY <1>6
    <3> QED BY <3>1, <2>1, <1>6, Zenon DEF Heuristic
  <2> HIDE DEF h, yes
  <2>4. h \in Readings
    BY <2>1, <2>2, <1>3, Zenon DEF Readings
  <2>5. h.when = "once" /\ h.hour = -1 /\ h.at = clockNow + 1 /\ h.what = "" /\ h.task
    BY <2>2, <1>3, Zenon DEF Readings
  <2>6. WholeReading(h)
    BY <2>1, <2>5, Zenon DEF WholeReading
  <2>7. ReadAsMeant(h, s)
    BY <1>6, Zenon DEF ReadAsMeant
  <2> QED BY <2>4, <2>6, <2>7, Zenon DEF h
<1>7. CASE s.sort = "event" /\ s.task
  <2>2. h = [yes EXCEPT !.when = "event", !.what = "seen"]
    <3>1. s.sort \notin {"repeat", "once", "in"}
      BY <1>7
    <3> QED BY <3>1, <1>7, Zenon DEF Heuristic
  <2> HIDE DEF h, yes
  <2>4. h \in Readings
    BY <2>2, <1>3, Zenon DEF Readings
  <2>5. h.when = "event" /\ h.hour = -1 /\ h.at = -1 /\ h.what = "seen" /\ h.task
    BY <2>2, <1>3, Zenon DEF Readings
  <2>6. WholeReading(h)
    BY <2>5, Zenon DEF WholeReading
  <2>7. ReadAsMeant(h, s)
    BY <1>7, Zenon DEF ReadAsMeant
  <2> QED BY <2>4, <2>6, <2>7, Zenon DEF h
<1>8. CASE ~(\/ s.sort = "repeat" /\ s.task /\ hour \in 0..23
             \/ s.sort = "once" /\ s.task /\ at # -1
             \/ s.sort = "in" /\ s.task
             \/ s.sort = "event" /\ s.task)
  <2>1. h = NoReading
    BY <1>8, Zenon DEF Heuristic
  <2> QED BY <2>1, NothingRead, Zenon
<1> QED BY <1>4, <1>5, <1>6, <1>7, <1>8, Zenon

(* A model's answer that can be read is one whole thing.                   *)
LEMMA ReadableIs ==
  ASSUME NEW a \in Answers, a.when \notin {"unreadable", "no"}, guess \in Readings, clockNow \in Times,
         Readable(ModelReading(a))
  PROVE  ModelReading(a) \in Readings /\ WholeReading(ModelReading(a)) /\ ModelReading(a).when # "none"
<1> DEFINE r == ModelReading(a)
<1>1. /\ a.when \in {"repeat", "odd", "once", "event"} /\ a.hour \in {-1, 9, Often} /\ a.at \in {-1, 0, 30}
      /\ a.what \in {"", "named"}
  BY Zenon DEF Answers
<1>b. a.task \in BOOLEAN
  BY Zenon, <1>1 DEF Answers
<1>2. /\ guess.when \in {"none", "repeat", "once", "event"} /\ guess.hour \in (-1..23) \union {Often}
      /\ guess.at \in -1..47 /\ guess.what \in {"", "named", "seen"}
  BY Zenon DEF Readings
<1>c. guess.task \in BOOLEAN
  BY Zenon DEF Readings
<1>3. clockNow \in 0..23 /\ Often > 23
  BY IntentConstants
<1>4. /\ r.when = IF a.when # "odd" THEN a.when ELSE IF a.hour # -1 THEN "repeat" ELSE guess.when
      /\ r.hour = IF r.when # "repeat" THEN -1 ELSE IF a.hour # -1 THEN a.hour ELSE guess.hour
      /\ r.at = IF r.when # "once" THEN -1 ELSE IF a.at # -1 THEN a.at ELSE guess.at
      /\ r.what = IF r.when # "event" THEN "" ELSE IF a.what # "" THEN a.what ELSE guess.what
  BY Zenon DEF ModelReading
<1>e. r = [when |-> r.when, hour |-> r.hour, at |-> r.at, what |-> r.what, task |-> r.task]
  BY Zenon DEF ModelReading
<1>d. r.task \in BOOLEAN
  <2>1. r.task = (a.task \/ guess.task)
    BY Zenon DEF ModelReading
  <2> QED BY <2>1, <1>b, <1>c, Zenon
<1>5. /\ r.task
      /\ (r.when = "repeat" /\ r.hour # -1) \/ (r.when = "once" /\ r.at > clockNow) \/ (r.when = "event" /\ r.what # "")
  BY Zenon DEF Readable
<1> HIDE DEF r
<1>6. /\ r.when \in {"none", "repeat", "once", "event"} /\ r.hour \in (-1..23) \union {Often}
      /\ r.at \in -1..47 /\ r.what \in {"", "named", "seen"}
  <2>1. r.hour \in (-1..23) \union {Often} /\ r.at \in -1..47
    <3>1. -1 \in (-1..23) \union {Often} /\ 9 \in (-1..23) \union {Often} /\ -1 \in -1..47 /\ 0 \in -1..47 /\ 30 \in -1..47
      BY SMT
    <3> QED BY <3>1, <1>1, <1>2, <1>4, Zenon
  <2> QED BY <2>1, <1>1, <1>2, <1>4, Zenon
<1>7. r \in Readings
  <2>1. [when |-> r.when, hour |-> r.hour, at |-> r.at, what |-> r.what, task |-> r.task] \in Readings
    BY <1>6, <1>d, Zenon DEF Readings
  <2> QED BY <2>1, <1>e, Zenon
<1>8. /\ r.when = "repeat" <=> r.hour # -1
      /\ r.when = "once" <=> r.at # -1
      /\ r.when = "event" <=> r.what # ""
      /\ r.when # "none"
  <2>1. r.at > clockNow => r.at # -1
    <3>1. \A x \in -1..47, y \in 0..23 : x > y => x # -1
      BY SMT
    <3> QED BY <3>1, <1>3, <1>6, Zenon
  <2>2. "repeat" # "once" /\ "repeat" # "event" /\ "once" # "event"
    OBVIOUS
  <2> QED BY <2>1, <2>2, <1>4, <1>5, Zenon
<1>9. WholeReading(r)
  BY <1>5, <1>8, Zenon DEF WholeReading
<1> QED BY <1>7, <1>8, <1>9, Zenon DEF r

LEMMA IntentFollows ==
  ASSUME IntentInv
  PROVE  IntentTypeOK /\ OfferIsWhole /\ OfferIsMeant /\ MadeIsAhead
<1>1. OfferIsWhole
  BY Zenon DEF IntentInv, OfferIsWhole, WholeReading
<1>2. OfferedHour = HourRead(offer)
  BY Zenon DEF OfferedHour, HourRead
<1>3. OfferIsMeant
  BY <1>2, Zenon DEF IntentInv, OfferIsMeant, ReadAsMeant
<1> QED BY <1>1, <1>3, Zenon DEF IntentInv

LEMMA IntentStarts == IntentInit => IntentInv
<1> SUFFICES ASSUME IntentInit PROVE IntentInv
  OBVIOUS
<1>1. (CHOOSE t \in Times : TRUE) \in Times
  BY Zenon DEF IntentInit
<1>2. kept.when # "once"
  <2>1. kept = NoReading
    BY Zenon DEF IntentInit
  <2> QED BY <2>1, NothingRead
<1> QED BY <1>1, <1>2, NothingRead, Zenon DEF IntentInit, IntentInv, IntentTypeOK, MadeIsAhead

LEMMA IntentStays == IntentInv /\ UNCHANGED intentVars => IntentInv'
BY Zenon DEF IntentInv, IntentTypeOK, MadeIsAhead, intentVars

(* Something is put to the person, or nothing is.                          *)
LEMMA ProposesKeeps ==
  ASSUME IntentInv, NEW r \in Readings, NEW by \in {"words", "model"}, WholeReading(r),
         by = "words" => ReadAsMeant(r, sentence),
         Proposes(r, by), guess' = NoReading, UNCHANGED <<clockNow, kept, keptAt>>
  PROVE  IntentInv'
<1>1. UNCHANGED <<clockNow, kept, keptAt>> /\ MadeIsAhead'
  BY Zenon DEF IntentInv, MadeIsAhead
<1>2. /\ WholeReading(guess') /\ ReadAsMeant(guess', sentence') /\ guess' \in Readings
  BY NothingRead, Zenon
<1>3. CASE r.when # "none"
  <2>1. offer' = r /\ offeredBy' = by /\ sentence' = sentence
    BY <1>3, Zenon DEF Proposes
  <2> QED BY <1>1, <1>2, <1>3, <2>1, Zenon DEF IntentInv, IntentTypeOK
<1>4. CASE r.when = "none"
  <2>1. offer' = NoReading /\ offeredBy' = "nobody" /\ sentence' = Silence
    BY <1>4, Zenon DEF Proposes
  <2>2. offeredBy' # "words"
    BY <2>1
  <2> QED BY <1>1, <1>2, <2>1, <2>2, NothingRead, Zenon DEF IntentInv, IntentTypeOK
<1> QED BY <1>3, <1>4, Zenon

LEMMA IntentKeeps == IntentInv /\ IntentNext => IntentInv'
<1> SUFFICES ASSUME IntentInv, IntentNext PROVE IntentInv'
  OBVIOUS
<1>1. CASE TimeGoesOn
  BY <1>1, Zenon DEF IntentInv, IntentTypeOK, TimeGoesOn, MadeIsAhead
<1>2. ASSUME NEW s \in Sentences, SentenceSaid(s) PROVE IntentInv'
  <2>1. Heuristic(s) \in Readings /\ WholeReading(Heuristic(s)) /\ ReadAsMeant(Heuristic(s), s)
    BY HeuristicIs, Zenon DEF IntentInv, IntentTypeOK
  <2>2. (CHOOSE t \in Times : TRUE) \in Times
    BY Zenon DEF IntentInv, IntentTypeOK
  <2>3. /\ sentence' = s /\ guess' = Heuristic(s) /\ offeredBy = "nobody" /\ kept' = NoReading
        /\ keptAt' = CHOOSE t \in Times : TRUE
        /\ UNCHANGED <<clockNow, offer, offeredBy>>
    BY <1>2, Zenon DEF SentenceSaid
  <2>4. kept'.when # "once"
    BY <2>3, NothingRead
  <2>5. offeredBy' # "words"
    BY <2>3
  <2> QED BY <2>1, <2>2, <2>3, <2>4, <2>5, NothingRead, Zenon DEF IntentInv, IntentTypeOK, MadeIsAhead
<1>3. ASSUME NEW a \in Answers, IntentRead(a) PROVE IntentInv'
  <2>1. guess' = NoReading /\ UNCHANGED <<clockNow, kept, keptAt>>
    BY <1>3, Zenon DEF IntentRead
  <2>2. CASE a.when = "unreadable"
    <3>1. Proposes(guess, "words")
      BY <1>3, <2>2, SMT DEF IntentRead
    <3> QED BY <3>1, <2>1, ProposesKeeps, Zenon DEF IntentInv, IntentTypeOK
  <2>3. CASE a.when = "no"
    <3>1. Proposes(NoReading, "model")
      BY <1>3, <2>3, SMT DEF IntentRead
    <3>2. "model" # "words"
      OBVIOUS
    <3> QED BY <3>1, <3>2, <2>1, ProposesKeeps, NothingRead, Zenon
  <2>4. CASE a.when \notin {"unreadable", "no"}
    <3> DEFINE r == IF Readable(ModelReading(a)) THEN ModelReading(a) ELSE NoReading
    <3>1. Proposes(r, "model")
      BY <1>3, <2>4, SMT DEF IntentRead
    <3>2. "model" # "words"
      OBVIOUS
    <3>3. r \in Readings /\ WholeReading(r)
      BY <2>4, ReadableIs, NothingRead, Zenon DEF IntentInv, IntentTypeOK
    <3> HIDE DEF r
    <3> QED BY <3>1, <3>2, <3>3, <2>1, ProposesKeeps, Zenon
  <2> QED BY <2>2, <2>3, <2>4, Zenon
<1>4. CASE OfferKept
  <2>1. Validates(offer) /\ kept' = offer /\ keptAt' = clockNow
        /\ offer' = NoReading /\ offeredBy' = "nobody" /\ sentence' = Silence /\ UNCHANGED <<clockNow, guess>>
    BY <1>4, Zenon DEF OfferKept, OfferDone
  <2>2. MadeIsAhead'
    BY <2>1, Zenon DEF MadeIsAhead, Validates
  <2>3. Silence.sort = "none" /\ offeredBy' # "words"
    BY <2>1, SMT DEF Silence
  <2>4. ReadAsMeant(guess', sentence')
    BY <2>1, <2>3, SMT DEF ReadAsMeant
  <2> QED BY <2>1, <2>2, <2>3, <2>4, NothingRead, Zenon DEF IntentInv, IntentTypeOK
<1>5. CASE OfferRefused \/ OfferDeclined
  <2>1. /\ offer' = NoReading /\ offeredBy' = "nobody" /\ sentence' = Silence
        /\ UNCHANGED <<clockNow, guess, kept, keptAt>>
    BY <1>5, Zenon DEF OfferRefused, OfferDeclined, OfferDone
  <2>2. MadeIsAhead'
    BY <2>1, Zenon DEF MadeIsAhead, IntentInv
  <2>3. Silence.sort = "none" /\ offeredBy' # "words"
    BY <2>1, SMT DEF Silence
  <2>4. ReadAsMeant(guess', sentence')
    BY <2>1, <2>3, SMT DEF ReadAsMeant
  <2> QED BY <2>1, <2>2, <2>3, <2>4, NothingRead, Zenon DEF IntentInv, IntentTypeOK
<1> QED BY <1>1, <1>2, <1>3, <1>4, <1>5, Zenon DEF IntentNext

(***************************************************************************)
(* The whole                                                               *)
(***************************************************************************)
TalkInv ==
  /\ part \in TalkParts
  /\ RecInv /\ ConvInv /\ VoiceInv /\ CardsInv /\ WondInv
  /\ PresInv /\ InterInv /\ LanesInv /\ FaceInv /\ IntentInv

LEMMA TalkStarts == TalkInit => TalkInv
<1>1. TalkInit => RecInv /\ ConvInv /\ VoiceInv /\ CardsInv /\ WondInv
  BY RecStarts, ConvStarts, VoiceStarts, CardsStart, WondStarts, Zenon DEF TalkInit
<1>2. TalkInit => PresInv /\ InterInv /\ LanesInv /\ FaceInv /\ IntentInv
  BY PresStarts, InterStarts, LanesStart, FaceStarts, IntentStarts, Zenon DEF TalkInit
<1>3. TalkInit => part \in TalkParts
  BY Zenon DEF TalkInit
<1> QED
  BY <1>1, <1>2, <1>3, Zenon DEF TalkInv

(* A step of the whole is a step of each part, or leaves it as it is.      *)
LEMMA TalkStep ==
  ASSUME [TalkNext]_talkAll
  PROVE  /\ part' = part
         /\ [RecNext]_recVars /\ [ConvNext]_talkVars /\ [VoiceNext]_voiceVars /\ [CardsNext]_cardVars /\ [WondNext]_wondVars
         /\ [PresNext]_presVars /\ [InterviewNext]_interVars /\ [LanesNext]_laneVars /\ [FaceNext]_faceVars /\ [IntentNext]_intentVars
<1>1. CASE OfRecording
  BY <1>1, Zenon DEF OfRecording
<1>2. CASE OfConversation
  BY <1>2, Zenon DEF OfConversation
<1>3. CASE OfVoice
  BY <1>3, Zenon DEF OfVoice
<1>4. CASE OfCards
  BY <1>4, Zenon DEF OfCards
<1>5. CASE OfWondering
  BY <1>5, Zenon DEF OfWondering
<1>6. CASE OfPresence
  BY <1>6, Zenon DEF OfPresence
<1>7. CASE OfInterview
  BY <1>7, Zenon DEF OfInterview
<1>8. CASE OfLanes
  BY <1>8, Zenon DEF OfLanes
<1>9. CASE OfFace
  BY <1>9, Zenon DEF OfFace
<1>10. CASE OfIntent
  BY <1>10, Zenon DEF OfIntent
<1>11. CASE UNCHANGED talkAll
  BY <1>11, Zenon DEF talkAll
<1> QED
  BY <1>1, <1>2, <1>3, <1>4, <1>5, <1>6, <1>7, <1>8, <1>9, <1>10, <1>11, Zenon DEF TalkNext

LEMMA TalkStays == TalkInv /\ [TalkNext]_talkAll => TalkInv'
<1> SUFFICES ASSUME TalkInv, [TalkNext]_talkAll PROVE TalkInv'
  OBVIOUS
<1>1. RecInv' /\ ConvInv' /\ VoiceInv'
  BY TalkStep, RecKeeps, RecStays, ConvKeeps, ConvStays, VoiceKeeps, VoiceStays, Zenon DEF TalkInv
<1>2. CardsInv' /\ WondInv' /\ PresInv'
  BY TalkStep, CardsKeep, CardsStay, WondKeeps, WondStays, PresKeeps, PresStays, Zenon DEF TalkInv
<1>3. InterInv' /\ LanesInv'
  BY TalkStep, InterKeeps, InterStays, LanesKeep, LanesStay, Zenon DEF TalkInv
<1>4. FaceInv' /\ IntentInv'
  BY TalkStep, FaceKeeps, FaceStays, IntentKeeps, IntentStays, Zenon DEF TalkInv
<1>5. part' \in TalkParts
  BY TalkStep, Zenon DEF TalkInv
<1> QED
  BY <1>1, <1>2, <1>3, <1>4, <1>5, Zenon DEF TalkInv

(* Every variable of every part of talking holds a value of its kind: no   *)
(* session, recorder or request has a number that was never given, and no  *)
(* stage a state the code does not have (app.js, wake-word.js,             *)
(* voice-session.js, curiosity.js, server.js, automations.js).             *)
THEOREM TalkTyped == TalkSpec => []TalkTypeOK
<1>1. TalkInv => RecTypeOK /\ ConvTypeOK /\ VoiceTypeOK /\ CardsTypeOK /\ WondTypeOK
  BY RecFollows, VoiceFollows, CardsFollow, WondFollows, Zenon DEF TalkInv, ConvInv
<1>2. TalkInv => PresTypeOK /\ InterviewTypeOK /\ LanesTypeOK /\ FaceTypeOK /\ IntentTypeOK
  BY InterFollows, LanesFollow, IntentFollows, Zenon DEF TalkInv, PresInv, FaceInv
<1>3. TalkInv => TalkTypeOK
  BY <1>1, <1>2, Zenon DEF TalkTypeOK
<1> QED
  BY <1>3, TalkStarts, TalkStays, PTL DEF TalkSpec

(* The ring is lit only while a recording is wanted, what the orb's click  *)
(* began is there for it to end, the wake word's recorder runs only while  *)
(* it is to be heard, and two engines are never loaded at once, whichever  *)
(* calls were on their way (app.js, wake-word.js, main/index.js).          *)
THEOREM MicrophoneStaysWanted == TalkSpec => []MicrophoneIsWanted
<1>1. TalkInv => RingIsWanted /\ OrbHoldsSomething
  BY Zenon DEF TalkInv, RecInv
<1>2. TalkInv => ListeningIsWanted /\ OneEngine
  BY VoiceFollows, Zenon DEF TalkInv
<1>3. TalkInv => MicrophoneIsWanted
  BY <1>1, <1>2, Zenon DEF MicrophoneIsWanted
<1> QED
  BY <1>3, TalkStarts, TalkStays, PTL DEF TalkSpec

(* What is held, locked, worn or may be cut off in a conversation is of a  *)
(* turn that is still under way (app.js sendMessage, speak, drain).        *)
THEOREM TurnsStayKept == TalkSpec => []TurnsAreKept
<1>1. TalkInv => HeldHasATurn /\ LockHasATurn /\ FaceIsSomebodys /\ CutIsDelivered
  BY Zenon DEF TalkInv, ConvInv
<1>2. TalkInv => TurnsAreKept
  BY <1>1, Zenon DEF TurnsAreKept
<1> QED
  BY <1>2, TalkStarts, TalkStays, PTL DEF TalkSpec

(* What is said and shown is so: what a card says was decided, a question  *)
(* is asked once and answered by what was said to it, one return has one   *)
(* greeting, an answer is of the model that was meant, a face in the dark  *)
(* looks asleep and one in the light only where it woke during a reply,    *)
(* and an offered automation is what the sentence meant (app.js,           *)
(* curiosity.js, soul.js, server.js, automations.js).                      *)
THEOREM WordsStayTrue == TalkSpec => []WordsAreTrue
<1>1. TalkInv => ToldMeansShown /\ AskedOnce /\ AnswersWereAsked /\ FactsDiffer /\ OneHello
  BY CardsFollow, WondFollows, Zenon DEF TalkInv, PresInv
<1>2. TalkInv => AnswersFit /\ AskedOnlyOnce /\ VolunteersAsked
  BY InterFollows, Zenon DEF TalkInv
<1>3. TalkInv => OwnModel /\ AgentModelFits /\ SilenceUnlessSaid /\ AnswersAreKept /\ AskedAreAble
  BY LanesFollow, Zenon DEF TalkInv
<1>4. TalkInv => DarkLooksDark /\ LightLooksLit /\ OfferIsWhole /\ OfferIsMeant /\ MadeIsAhead
  BY IntentFollows, Zenon DEF TalkInv, FaceInv
<1>5. TalkInv => WordsAreTrue
  BY <1>1, <1>2, <1>3, <1>4, Zenon DEF WordsAreTrue
<1> QED
  BY <1>5, TalkStarts, TalkStays, PTL DEF TalkSpec
=============================================================================
