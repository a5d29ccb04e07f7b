------------------------------- MODULE MCTalk -------------------------------
(***************************************************************************)
(* Talking with fren: the recording, the conversation, the voice line, the *)
(* permission cards, what fren asks about and what it says by itself, the  *)
(* first interview, the sentences that ask for an automation, the face it  *)
(* wears, and the gateway's lanes that think for all of them. The parts    *)
(* keep no variable in common, so a behaviour of the whole is checked as   *)
(* behaviours of its parts: each run is of one part, and leaves the others *)
(* where they start.                                                       *)
(***************************************************************************)
EXTENDS Recording, Conversation, VoiceLine, Cards, Wondering, Presence, Interview, Lanes,
        Face, Intent

CONSTANT MaxBegun    \* bound: what is said, by either side, in a conversation

VARIABLE part

TalkParts == {"recording", "conversation", "voice", "cards", "wondering", "presence", "interview", "lanes",
              "face", "intent"}
talkAll == <<part, recVars, talkVars, voiceVars, cardVars, wondVars, presVars, interVars, laneVars, faceVars,
             intentVars>>

Begun == {m \in Words : phase[m] # "unsaid"}
           \cup {n \in News : voice[n] # "none" \/ \E i \in DOMAIN later : later[i] = n}

TalkInit ==
  /\ part \in TalkParts
  /\ RecInit /\ ConvInit /\ VoiceInit /\ CardsInit /\ WondInit /\ PresInit /\ InterviewInit /\ LanesInit
  /\ FaceInit /\ IntentInit
  /\ part # "voice" => locked
  /\ part # "wondering" => invited
  /\ part # "intent" => clockNow = CHOOSE t \in Times : t - 1 \notin Times
  /\ part # "lanes" => upstream = "none" /\ provider = "mock"
  /\ part # "presence" => watching /\ mark = "none"

OfRecording ==
  /\ part = "recording" /\ RecNext
  /\ UNCHANGED <<part, talkVars, voiceVars, cardVars, wondVars, presVars, interVars, laneVars, faceVars, intentVars>>
OfConversation ==
  /\ part = "conversation" /\ ConvNext /\ Cardinality(Begun') <= MaxBegun
  /\ UNCHANGED <<part, recVars, voiceVars, cardVars, wondVars, presVars, interVars, laneVars, faceVars, intentVars>>
OfVoice ==
  /\ part = "voice" /\ VoiceNext
  /\ UNCHANGED <<part, recVars, talkVars, cardVars, wondVars, presVars, interVars, laneVars, faceVars, intentVars>>
OfCards ==
  /\ part = "cards" /\ CardsNext
  /\ UNCHANGED <<part, recVars, talkVars, voiceVars, wondVars, presVars, interVars, laneVars, faceVars, intentVars>>
OfWondering ==
  /\ part = "wondering" /\ WondNext
  /\ UNCHANGED <<part, recVars, talkVars, voiceVars, cardVars, presVars, interVars, laneVars, faceVars, intentVars>>
OfPresence ==
  /\ part = "presence" /\ PresNext
  /\ UNCHANGED <<part, recVars, talkVars, voiceVars, cardVars, wondVars, interVars, laneVars, faceVars, intentVars>>
OfInterview ==
  /\ part = "interview" /\ InterviewNext
  /\ UNCHANGED <<part, recVars, talkVars, voiceVars, cardVars, wondVars, presVars, laneVars, faceVars, intentVars>>
OfLanes ==
  /\ part = "lanes" /\ LanesNext
  /\ UNCHANGED <<part, recVars, talkVars, voiceVars, cardVars, wondVars, presVars, interVars, faceVars, intentVars>>
OfFace ==
  /\ part = "face" /\ FaceNext
  /\ UNCHANGED <<part, recVars, talkVars, voiceVars, cardVars, wondVars, presVars, interVars, laneVars, intentVars>>
OfIntent ==
  /\ part = "intent" /\ IntentNext
  /\ UNCHANGED <<part, recVars, talkVars, voiceVars, cardVars, wondVars, presVars, interVars, laneVars, faceVars>>

TalkNext == OfRecording \/ OfConversation \/ OfVoice \/ OfCards \/ OfWondering \/ OfPresence
              \/ OfInterview \/ OfLanes \/ OfFace \/ OfIntent

(* The fairness of a part, in the runs that are of it (ConvFairness and    *)
(* VoiceFairness say why).                                                 *)
InTalk(A) == part = "conversation" /\ A
InVoice(A) == part = "voice" /\ A
TalkFairness ==
  /\ \A m \in Words : /\ WF_talkVars(InTalk(Replies(m) \/ ReplyFails(m) \/ RunAccepted(m)))
                      /\ WF_talkVars(InTalk(RunEnds(m)))
  /\ \A s \in Speakers : WF_talkVars(InTalk(Delivers(s))) /\ WF_talkVars(InTalk(Finishes(s)))
  /\ WF_talkVars(InTalk(Drain)) /\ WF_talkVars(InTalk(QuietEnds))
  /\ WF_voiceVars(InVoice(End)) /\ WF_voiceVars(InVoice(Ended)) /\ WF_voiceVars(InVoice(Told))

TalkSpec == TalkInit /\ [][TalkNext]_talkAll /\ TalkFairness

-----------------------------------------------------------------------------
(* Every variable of every part holds a value of its kind.                 *)
TalkTypeOK ==
  RecTypeOK /\ ConvTypeOK /\ VoiceTypeOK /\ CardsTypeOK /\ WondTypeOK /\ PresTypeOK
  /\ InterviewTypeOK /\ LanesTypeOK /\ FaceTypeOK /\ IntentTypeOK

(* What listens is wanted: the ring of light is on only while a recording  *)
(* is (app.js meter), and a recorder runs only while the wake word is to   *)
(* be heard (wake-word.js), whatever opens, fails, is clicked or comes     *)
(* back in between; and the orb's click ends what it began.                *)
MicrophoneIsWanted == RingIsWanted /\ OrbHoldsSomething /\ ListeningIsWanted /\ OneEngine

(* The conversation lets go of what it holds: a lock, a face, a speaker    *)
(* that may be cut off are each of a turn still under way (app.js speak,   *)
(* sendMessage, drain).                                                    *)
TurnsAreKept == HeldHasATurn /\ LockHasATurn /\ FaceIsSomebodys /\ CutIsDelivered

(* What is said and shown is so: a card that says it was allowed was       *)
(* (app.js showPermissionCard), nothing is asked twice or learnt that was  *)
(* not asked (curiosity.js, soul.js, app.js handleSetupAnswer), one return *)
(* has one greeting (main composeGreeting), an answer is the model's that  *)
(* was chosen for it and silence is what the model said (server.js         *)
(* pickProvider, sandbox-proxy.js), a face that looks asleep does not      *)
(* watch, but where it woke during a reply, until main's next word outside *)
(* of one (app.js setFace, render), and an automation that is offered is   *)
(* what was said (automations.js intent).                                  *)
WordsAreTrue == ToldMeansShown /\ AskedOnce /\ AnswersWereAsked /\ FactsDiffer /\ OneHello
                /\ AnswersFit /\ AskedOnlyOnce /\ VolunteersAsked
                /\ OwnModel /\ AgentModelFits /\ SilenceUnlessSaid /\ AnswersAreKept /\ AskedAreAble
                /\ DarkLooksDark /\ LightLooksLit
                /\ OfferIsWhole /\ OfferIsMeant /\ MadeIsAhead

(* Nothing stays taken: the lock of a turn is opened again (app.js         *)
(* sendMessage, drain) and the wake word is heard again after a voice      *)
(* session took the microphone (main/index.js comeBack, app.js hold).      *)
TalkRecovers == LockOpens /\ WakeComesBack
=============================================================================
