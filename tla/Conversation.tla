----------------------------- MODULE Conversation -----------------------------
(***************************************************************************)
(* The chat window's side of a conversation (renderer/app.js): what the    *)
(* person says, the answer that is awaited, the voice that says it, and    *)
(* what fren wants to say on its own.                                      *)
(*                                                                         *)
(* One thread, and an `await' at every turn of it: nothing but the flags   *)
(* awaitingReply, speaking, queued, pendingProposal and cutReplyShort      *)
(* keeps two of these from running into each other.                        *)
(***************************************************************************)
EXTENDS Naturals, Sequences

CONSTANTS Words,       \* what the person says, each once
          Scheduled,   \* those that read like a schedule (looksScheduled)
          News,        \* what fren volunteers, each once
          NoOne

ASSUME ConversationActors ==
  /\ NoOne \notin Words \union News /\ Words \intersect News = {} /\ Scheduled \subseteq Words
  /\ (Words \X {"proposal", "reply"}) \intersect (News \union {NoOne}) = {}

VARIABLES
  phase,       \* how far each of the person's messages has come
  awaiting,    \* awaitingReply
  speaking,    \* speaking: the face is the reply's
  queued,      \* what was said while fren was busy
  proposal,    \* pendingProposal: the message whose automation is proposed
  voice,       \* each speak() under way
  cut,         \* cutReplyShort: whose delivery it would cut
  later,       \* what waits to be volunteered
  drains,      \* a timer that will call drainLater
  quiet,       \* quietVoice: a hello, or the wake word's explanation
  recording    \* the microphone is open for the person (wantRecording, stopping)

talkVars == <<phase, awaiting, speaking, queued, proposal, voice, cut, later, drains, quiet,
              recording>>

Asking(m) == <<m, "proposal">>      \* proposeAutomation's speak()
Reply(m)  == <<m, "reply">>         \* every other speak() about m
Speakers == {Asking(m) : m \in Words} \union {Reply(m) : m \in Words} \union News
Turn == {"asking", "running", "closing", "answering"}   \* sendMessage between its try and finally
Phases == {"unsaid", "next", "held", "dropped", "deciding", "proposed", "telling", "done"} \union Turn

ConvTypeOK ==
  /\ phase \in [Words -> Phases]
  /\ {awaiting, speaking, drains, recording} \subseteq BOOLEAN
  /\ queued \in Words \union {NoOne} /\ proposal \in Words \union {NoOne}
  /\ voice \in [Speakers -> {"none", "fetching", "typing", "aloud", "over"}]
  /\ cut \in Speakers \union {NoOne}
  /\ later \in Seq(News)
  /\ quiet \in {"none", "fetching", "aloud"}

ConvInit ==
  /\ phase = [m \in Words |-> "unsaid"]
  /\ awaiting = FALSE /\ speaking = FALSE
  /\ queued = NoOne /\ proposal = NoOne
  /\ voice = [s \in Speakers |-> "none"] /\ cut = NoOne
  /\ later = <<>> /\ drains = FALSE /\ quiet = "none"
  /\ recording = FALSE

BusyForSpeech == speaking \/ awaiting \/ recording
Now(m, p) == phase' = [phase EXCEPT ![m] = p]

(***************************************************************************)
(* The voice.                                                              *)
(***************************************************************************)

\* speak(): hush the quiet voice, take the face, ask main for the audio.
Speaks(s) ==
  /\ voice' = [voice EXCEPT ![s] = "fetching"]
  /\ speaking' = TRUE
  /\ quiet' = IF quiet = "aloud" THEN "none" ELSE quiet

\* The audio is there, or is not, or nobody would hear it: the words are typed
\* and may be cut.  With reduced motion they are shown at once and cannot be.
Delivers(s) ==
  /\ voice[s] = "fetching"
  /\ \E how \in {"typing", "aloud"} : voice' = [voice EXCEPT ![s] = how]
  /\ \E reduced \in BOOLEAN : cut' = IF reduced THEN cut ELSE s
  /\ UNCHANGED <<phase, awaiting, speaking, queued, proposal, later, drains, quiet, recording>>

\* The end of sendMessage: its finally.  What was said meanwhile comes next.
SettlesIgnoringQueue(m) ==
  /\ awaiting' = FALSE /\ speaking' = FALSE /\ drains' = TRUE
  /\ Now(m, "done")
  /\ UNCHANGED queued
Settles(m) ==
  /\ awaiting' = FALSE /\ speaking' = FALSE /\ drains' = TRUE
  /\ phase' = [w \in Words |-> IF w = m THEN "done"
                               ELSE IF w = queued THEN "next" ELSE phase[w]]
  /\ queued' = NoOne

\* finish() of a reply whose run ended while it was being said, and nobody waits.
FinishesUnclosed(s) ==
  /\ voice[s] \in {"typing", "aloud"}
  /\ voice' = [voice EXCEPT ![s] = "over"]
  /\ cut' = NoOne
  /\ IF \E m \in Words : s = Reply(m) /\ phase[m] = "answering"
     THEN \E m \in Words : s = Reply(m) /\ Settles(m)
     ELSE /\ speaking' = FALSE /\ drains' = TRUE
          /\ phase' = [w \in Words |-> IF s = Reply(w) /\ phase[w] = "telling" THEN "done" ELSE phase[w]]
          /\ UNCHANGED <<awaiting, queued>>
  /\ UNCHANGED <<proposal, later, quiet, recording>>

\* finish(): the words are out and the voice has ended (by its own `ended', by
\* the guard behind it, or cut).
Finishes(s) ==
  /\ voice[s] \in {"typing", "aloud"}
  /\ voice' = [voice EXCEPT ![s] = "over"]
  /\ cut' = NoOne
  /\ IF \E m \in Words : s = Reply(m) /\ phase[m] \in {"answering", "closing"}
     THEN \E m \in Words : s = Reply(m) /\ Settles(m)
     ELSE /\ speaking' = FALSE /\ drains' = TRUE
          /\ phase' = [w \in Words |-> IF s = Reply(w) /\ phase[w] = "telling" THEN "done" ELSE phase[w]]
          /\ UNCHANGED <<awaiting, queued>>
  /\ UNCHANGED <<proposal, later, quiet, recording>>

(***************************************************************************)
(* What the person says.                                                   *)
(***************************************************************************)

\* sendMessage from its lock on.
Asks(m, base) ==
  /\ phase' = [base EXCEPT ![m] = "asking"]
  /\ awaiting' = TRUE /\ speaking' = TRUE
  /\ UNCHANGED queued

\* sendMessage after the proposal, with the other messages' phases as `base' has them.
Takes(m, base) ==
  IF awaiting
  THEN /\ queued' = m
       /\ phase' = [w \in Words |-> IF w = m THEN "held"
                                    ELSE IF w = queued THEN "dropped" ELSE base[w]]
       /\ UNCHANGED <<awaiting, speaking>>
  ELSE \/ m \notin Scheduled /\ Asks(m, base)
       \/ \* the words suggest a schedule: somebody is asked whether they are one
          /\ m \in Scheduled
          /\ phase' = [base EXCEPT ![m] = "deciding"]
          /\ UNCHANGED <<awaiting, speaking, queued>>

\* sendMessage(m).  While an automation is proposed, a short yes or no answers
\* the proposal, and anything else lets it go.
Says(m) ==
  /\ phase[m] \in {"unsaid", "next"}
  /\ \/ proposal = NoOne /\ Takes(m, phase) /\ UNCHANGED proposal
     \/ /\ proposal # NoOne /\ proposal' = NoOne
        /\ \/ \E then \in {"telling", "done"} :       \* kept and made, or dropped
                /\ phase' = [phase EXCEPT ![proposal] = then, ![m] = "done"]
                /\ UNCHANGED <<awaiting, speaking, queued>>
           \/ Asks(proposal, [phase EXCEPT ![m] = "done"])   \* "just answer me"
           \/ Takes(m, [phase EXCEPT ![proposal] = "done"])
  /\ UNCHANGED <<voice, cut, later, drains, quiet, recording>>

\* A chip under the proposal.
Chooses(m) ==
  /\ proposal = m /\ proposal' = NoOne
  /\ \/ Now(m, "telling") /\ UNCHANGED <<awaiting, speaking, queued>>
     \/ Asks(m, phase)
  /\ UNCHANGED <<voice, cut, later, drains, quiet, recording>>

\* automationIntent and maybeRoutine have answered: it is proposed, it was a
\* routine and is made, or it is a question after all.  Nothing looks again
\* whether a reply is awaited by now.
Decides(m) ==
  /\ phase[m] = "deciding"
  /\ \/ /\ Now(m, "proposed") /\ proposal' = m /\ Speaks(Asking(m))
        /\ UNCHANGED <<awaiting, queued>>
     \/ /\ Now(m, "telling") /\ Speaks(Reply(m))
        /\ UNCHANGED <<awaiting, queued, proposal>>
     \/ Asks(m, phase) /\ UNCHANGED <<proposal, voice, quiet>>
  /\ UNCHANGED <<cut, later, drains, recording>>

\* createAgentAutomation has answered, and fren says so.
Made(m) ==
  /\ phase[m] = "telling" /\ voice[Reply(m)] = "none"
  /\ Speaks(Reply(m))
  /\ UNCHANGED <<phase, awaiting, queued, proposal, cut, later, drains, recording>>

(***************************************************************************)
(* The answer.                                                             *)
(***************************************************************************)

\* chat() or ownBusiness() answers; or Core refuses the run and the fast lane answers.
Replies(m) ==
  /\ phase[m] = "asking"
  /\ Now(m, "answering") /\ Speaks(Reply(m))
  /\ UNCHANGED <<awaiting, queued, proposal, cut, later, drains, recording>>

\* A call fails: sendMessage's catch, and its finally; also an answer with nothing to say.
ReplyFails(m) ==
  /\ phase[m] = "asking"
  /\ Settles(m)
  /\ UNCHANGED <<proposal, voice, cut, later, quiet, recording>>

\* Core accepted the run: its words and its end come as events.
RunAccepted(m) ==
  /\ phase[m] = "asking" /\ Now(m, "running")
  /\ UNCHANGED <<awaiting, speaking, queued, proposal, voice, cut, later, drains, quiet, recording>>

RunSpeaks(m) ==
  /\ phase[m] = "running" /\ voice[Reply(m)] \in {"none", "over"}
  /\ Speaks(Reply(m))
  /\ UNCHANGED <<phase, awaiting, queued, proposal, cut, later, drains, recording>>

\* The run ends, or its ten minutes have passed.  What is being said is waited
\* for; a run that ended well without a word is answered by the fast lane.
RunEnds(m) ==
  /\ phase[m] = "running"
  /\ IF voice[Reply(m)] \in {"fetching", "typing", "aloud"}
     THEN /\ Now(m, "closing") /\ UNCHANGED <<awaiting, speaking, queued, voice, drains, quiet>>
     ELSE \/ Settles(m) /\ UNCHANGED <<voice, quiet>>
          \/ /\ voice[Reply(m)] = "none" /\ Now(m, "closing") /\ Speaks(Reply(m))
             /\ UNCHANGED <<awaiting, queued, drains>>
  /\ UNCHANGED <<proposal, cut, later, recording>>

\* Ninety seconds of a reply that came by chat: the turn stops waiting for the
\* voice, and the voice goes on.
StopsWaiting(m) ==
  /\ phase[m] = "answering"
  /\ Settles(m)
  /\ UNCHANGED <<proposal, voice, cut, later, quiet, recording>>

(***************************************************************************)
(* What fren volunteers.                                                   *)
(***************************************************************************)

\* sayWhenFree: a routine, an automation reporting in, an automation that stopped.
Volunteers(n) ==
  /\ voice[n] = "none" /\ \A i \in DOMAIN later : later[i] # n
  /\ IF BusyForSpeech \/ quiet # "none"
     THEN later' = Append(later, n) /\ UNCHANGED <<voice, speaking, quiet>>
     ELSE Speaks(n) /\ UNCHANGED later
  /\ UNCHANGED <<phase, awaiting, queued, proposal, cut, drains, recording>>

\* drainLater.
Drain ==
  /\ drains
  /\ IF later = <<>> \/ BusyForSpeech \/ quiet # "none"
     THEN drains' = FALSE /\ UNCHANGED <<later, voice, speaking, quiet>>
     ELSE later' = Tail(later) /\ Speaks(Head(later)) /\ drains' = TRUE
  /\ UNCHANGED <<phase, awaiting, queued, proposal, cut, recording>>

\* onCurious: asked now or never.
Wonders(n) ==
  /\ voice[n] = "none" /\ \A i \in DOMAIN later : later[i] # n
  /\ ~speaking /\ ~awaiting /\ quiet = "none"
  /\ Speaks(n)
  /\ UNCHANGED <<phase, awaiting, queued, proposal, cut, later, drains, recording>>

\* sayQuietly: a hello or the explanation, into silence only.
SpeaksQuietly ==
  /\ quiet = "none" /\ ~BusyForSpeech /\ quiet' = "fetching"
  /\ UNCHANGED <<phase, awaiting, speaking, queued, proposal, voice, cut, later, drains, recording>>
QuietGoesOn ==
  /\ quiet = "fetching" /\ ~BusyForSpeech /\ quiet' = "aloud"
  /\ UNCHANGED <<phase, awaiting, speaking, queued, proposal, voice, cut, later, drains, recording>>
QuietEnds ==
  /\ quiet # "none" /\ quiet' = "none" /\ drains' = TRUE
  /\ UNCHANGED <<phase, awaiting, speaking, queued, proposal, voice, cut, later,
                 recording>>

(***************************************************************************)
(* The microphone, as the conversation sees it.                            *)
(***************************************************************************)

\* startTalking: a reply that can be cut is cut, one that is thought about is not.
Records ==
  /\ ~recording /\ (cut # NoOne \/ ~awaiting)
  /\ recording' = TRUE
  /\ voice' = [s \in Speakers |-> IF s = cut THEN "typing" ELSE voice[s]]
  /\ quiet' = IF quiet = "aloud" THEN "none" ELSE quiet
  /\ UNCHANGED <<phase, awaiting, speaking, queued, proposal, cut, later, drains>>

\* The recording ends: sent, too short or failed; or given up on, after which
\* nothing looks at what waits.
StopsRecording ==
  /\ recording /\ recording' = FALSE
  /\ \E givenUp \in BOOLEAN : drains' = (drains \/ ~givenUp)
  /\ UNCHANGED <<phase, awaiting, speaking, queued, proposal, voice, cut, later, quiet>>

(***************************************************************************)

ConvNext ==
  \/ \E m \in Words : \/ Says(m) \/ Chooses(m) \/ Decides(m) \/ Made(m) \/ Replies(m)
                      \/ ReplyFails(m) \/ RunAccepted(m) \/ RunSpeaks(m) \/ RunEnds(m)
                      \/ StopsWaiting(m)
  \/ \E s \in Speakers : Delivers(s) \/ Finishes(s)
  \/ \E n \in News : Volunteers(n) \/ Wonders(n)
  \/ Drain \/ SpeaksQuietly \/ QuietGoesOn \/ QuietEnds
  \/ Records \/ StopsRecording

\* Main and the gateway answer every call, one way or the other; audio ends or
\* its guard fires; a run's ten minutes pass.
ConvFairness ==
  /\ \A m \in Words : WF_talkVars(Replies(m) \/ ReplyFails(m) \/ RunAccepted(m)) /\ WF_talkVars(RunEnds(m))
  /\ \A s \in Speakers : WF_talkVars(Delivers(s)) /\ WF_talkVars(Finishes(s))
  /\ WF_talkVars(Drain) /\ WF_talkVars(QuietEnds)

ConvSpec == ConvInit /\ [][ConvNext]_talkVars
ConvFairSpec == ConvSpec /\ ConvFairness

(***************************************************************************)
(* Properties                                                              *)
(***************************************************************************)

\* Something said while fren was busy is always somebody's to pick up: there is
\* a turn under way whose end will take it (two turns can be, and the first to
\* end takes it).
HeldHasATurn == queued # NoOne => \E m \in Words : phase[m] \in Turn

\* The lock is never left behind by a turn that ended: awaitingReply, which
\* refuses the microphone, is up only while a turn is under way.
LockHasATurn == awaiting => \E m \in Words : phase[m] \in Turn

\* The face is never left taken: while `speaking' holds back all fren would
\* volunteer, a turn is under way or something is really being said.
FaceIsSomebodys ==
  speaking => \/ \E m \in Words : phase[m] \in Turn
              \/ \E s \in Speakers : voice[s] \in {"fetching", "typing", "aloud"}

\* What interrupts a reply interrupts one that is being delivered; otherwise
\* startTalking would go past the lock with nothing to cut.
CutIsDelivered == cut # NoOne => voice[cut] \in {"typing", "aloud"}

\* "a bug anywhere in the speaking path must not be able to disable voice input
\* permanently": the lock opens.
LockOpens == awaiting ~> ~awaiting

\* "Something said while fren was still busy.  Answered next, never dropped."
NeverDropped == \A m \in Words : phase[m] # "dropped"

\* "said when fren is free, not dropped"
LaterIsSaid == later # <<>> ~> later = <<>>

\* "never over a recording": fren's voice does not come on while the microphone is open.
NeverIntoTheMicrophone ==
  [][recording => \A s \in Speakers : voice'[s] = "aloud" => voice[s] = "aloud"]_talkVars
=============================================================================
