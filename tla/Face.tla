-------------------------------- MODULE Face --------------------------------
(***************************************************************************)
(* The expression fren wears (apps/desktop/renderer/app.js: setFace and    *)
(* everything that calls it): main's broadcasts of the light, a question   *)
(* and its answer, fren's words, the recording, the voice line and the     *)
(* moods of face/reactions.js all write it, each with timers of its own,   *)
(* and an answer may end without writing it.                               *)
(***************************************************************************)
EXTENDS Naturals, FiniteSets

CONSTANTS
  Moods,         \* the expressions of the pools, and those of a thought
  MaxSayings     \* bound: things fren says at the same time

Mascots == {"watching", "thinking", "idea"}
ASSUME MoodsDiffer == Moods # {} /\ Moods \intersect (Mascots \union {"private", "listening", "talking", "oops"}) = {}
ASSUME SayingsBound == MaxSayings \in Nat

VARIABLES
  shining, mascot,   \* state.observing and state.mascot, as main last said
  worn,          \* what is on the screen
  owned,         \* what would be, if the light were on
  driving,       \* speaking: the face is the conversation's
  answerDue,     \* awaitingReply
  saying,        \* calls of speak() that have not settled
  slow,          \* timers that may still show fren thinking
  onLine,        \* voiceActive()
  fade,          \* reactionTimer: a mood of its own, or the one words settle through
  stray,         \* the timer of a failure is set
  lastMood,      \* of reactions.js
  wokeTalking    \* not in the code: the light came on during a reply, and main has said
                 \* nothing outside of one since

faceVars == <<shining, mascot, worn, owned, driving, answerDue, saying, slow, onLine, fade, stray, lastMood, wokeTalking>>

Emotions == Moods \union Mascots \union {"private", "listening", "talking", "oops"}
FaceTypeOK ==
  /\ shining \in BOOLEAN /\ mascot \in Mascots /\ {worn, owned} \subseteq Emotions
  /\ driving \in BOOLEAN /\ answerDue \in BOOLEAN /\ saying \in 0..MaxSayings /\ slow \in 0..2 /\ onLine \in BOOLEAN
  /\ fade \in {"none", "own", "settles"} /\ stray \in BOOLEAN /\ lastMood \in Moods \union {"none"}
  /\ wokeTalking \in BOOLEAN

FaceInit ==
  /\ shining = FALSE /\ mascot = "watching" /\ worn = "private" /\ owned = "private"
  /\ driving = FALSE /\ answerDue = FALSE /\ saying = 0 /\ slow = 0 /\ onLine = FALSE
  /\ fade = "none" /\ stray = FALSE /\ lastMood = "none" /\ wokeTalking = FALSE

lightVars == <<shining, mascot, wokeTalking>>
replyVars == <<driving, answerDue, saying, slow>>
moodVars == <<fade, stray, lastMood>>

\* emotionFor
EmotionFor(on, m) == IF on THEN m ELSE "private"

\* setFace, with the light as it is.
Wears(name, on) == owned' = name /\ worn' = IF on THEN name ELSE "private"
WearsOwnLook == Wears(EmotionFor(shining, mascot), shining)

\* What is remembered of the light by a broadcast.
Wakes(on) ==
  wokeTalking' = IF ~on \/ ~driving THEN FALSE ELSE wokeTalking \/ ~shining

\* Broken form of Renders: a reply keeps its face when the light goes off.
RendersBetweenReplies(on, m) ==
  /\ shining' = on /\ mascot' = m /\ Wakes(on)
  /\ CASE ~driving -> Wears(EmotionFor(on, m), on)
       [] driving /\ on /\ ~shining -> Wears(owned, on)
       [] OTHER -> UNCHANGED <<owned, worn>>
  /\ UNCHANGED <<replyVars, onLine, moodVars>>

\* render: the face is main's between replies, and whenever the light is off; the light
\* coming on during a reply puts back on what was owned.
Renders(on, m) ==
  /\ shining' = on /\ mascot' = m /\ Wakes(on)
  /\ CASE ~driving \/ ~on -> Wears(EmotionFor(on, m), on)
       [] driving /\ on /\ ~shining -> Wears(owned, on)
       [] OTHER -> UNCHANGED <<owned, worn>>
  /\ UNCHANGED <<replyVars, onLine, moodVars>>

\* pick: any of the pool, but never the one before if there is another.
Picks(e) == e \in Moods /\ (e # lastMood \/ Moods = {lastMood}) /\ lastMood' = e

\* react: asleep it stirs and shows nothing.
Reacts(e) ==
  /\ ~driving /\ ~onLine /\ shining
  /\ Picks(e) /\ Wears(e, shining) /\ fade' = "own"
  /\ UNCHANGED <<lightVars, replyVars, onLine, stray>>
\* Its timer, and the one of words, which does not look whether others have begun.
Fades ==
  /\ fade # "none" /\ fade' = "none"
  /\ IF fade = "own" /\ driving THEN UNCHANGED <<owned, worn>> ELSE WearsOwnLook
  /\ UNCHANGED <<lightVars, replyVars, onLine, stray, lastMood>>
\* The cursor leaves.
CursorLeaves ==
  /\ ~driving /\ fade = "none" /\ WearsOwnLook
  /\ UNCHANGED <<lightVars, replyVars, onLine, moodVars>>

\* onCurious, onSuggestion: the face of a thought, before its words if it has any.
HasAThought(e) ==
  /\ ~driving /\ ~answerDue /\ e \in Moods /\ Wears(e, shining)
  /\ UNCHANGED <<lightVars, replyVars, onLine, moodVars>>

\* startTalking, stopTalkingAndSend, giveUpListening: whatever else is going on, what the
\* recording is at, and fren's own look when nothing comes of it.
RecordingShows(name) ==
  /\ name \in {"listening", "thinking", EmotionFor(shining, mascot)} /\ Wears(name, shining)
  /\ UNCHANGED <<lightVars, replyVars, onLine, moodVars>>

\* sendMessage, with the timers of a slow answer: its own, and the one of a run.
QuestionSent ==
  /\ ~answerDue /\ answerDue' = TRUE /\ driving' = TRUE /\ slow' = 2 /\ Wears("listening", shining)
  /\ UNCHANGED <<lightVars, saying, onLine, moodVars>>
ThinksVisibly ==
  /\ slow > 0 /\ slow' = slow - 1 /\ Wears("thinking", shining)
  /\ UNCHANGED <<lightVars, driving, answerDue, saying, onLine, moodVars>>
\* Its finally: the answer was said, or it was a bubble only (a run that failed or took too
\* long, a line that is open), or none, or it goes on being said. No face is put on.
AnswerEnds ==
  /\ answerDue /\ answerDue' = FALSE /\ driving' = FALSE /\ slow' = 0
  /\ UNCHANGED <<lightVars, worn, owned, saying, onLine, moodVars>>
\* Its catch, and then its finally.
AnswerFails ==
  /\ answerDue /\ answerDue' = FALSE /\ driving' = FALSE /\ slow' = 0 /\ Wears("oops", shining) /\ stray' = TRUE
  /\ UNCHANGED <<lightVars, saying, onLine, fade, lastMood>>
StrayEnds ==
  /\ stray /\ stray' = FALSE /\ WearsOwnLook
  /\ UNCHANGED <<lightVars, replyVars, onLine, fade, lastMood>>

\* speak: on a line the words are only a bubble. The words of an answer stop its timers.
SpeakTakesFace ==
  /\ ~onLine /\ saying < MaxSayings /\ saying' = saying + 1
  /\ driving' = TRUE /\ slow' \in {slow, 0} /\ Wears("talking", shining)
  /\ UNCHANGED <<lightVars, answerDue, onLine, moodVars>>
\* finish
SpeakSettles(e) ==
  /\ saying > 0 /\ saying' = saying - 1 /\ driving' = FALSE
  /\ Picks(e) /\ Wears(e, shining) /\ fade' = "settles"
  /\ UNCHANGED <<lightVars, answerDue, slow, onLine, stray>>

\* The voice session: it listens, it talks, it ends.
LineFace(name) ==
  /\ onLine' = TRUE /\ name \in {"listening", "talking"} /\ (onLine \/ name = "listening")
  /\ Wears(name, shining) /\ UNCHANGED <<lightVars, replyVars, moodVars>>
LineCloses ==
  /\ onLine /\ onLine' = FALSE /\ WearsOwnLook
  /\ UNCHANGED <<lightVars, replyVars, moodVars>>

FaceNext ==
  \/ \E on \in BOOLEAN, m \in Mascots : Renders(on, m)
  \/ \E e \in Moods : Reacts(e) \/ HasAThought(e) \/ SpeakSettles(e)
  \/ Fades \/ CursorLeaves \/ QuestionSent \/ ThinksVisibly \/ AnswerEnds \/ AnswerFails \/ StrayEnds
  \/ SpeakTakesFace
  \/ \E name \in Emotions : RecordingShows(name) \/ LineFace(name)
  \/ LineCloses

FaceSpec == FaceInit /\ [][FaceNext]_faceVars

-----------------------------------------------------------------------------
(* "If main says we are not observing, the character looks it": whatever   *)
(* timer, reply, line or gesture writes the face (setFace, render).        *)
DarkLooksDark == ~shining => worn = "private"

(* It looks asleep while it watches only if the light came on during a     *)
(* reply, and at the longest until main next says something outside of     *)
(* one: an answer that ends with no face of its own leaves it as it is     *)
(* (render, sendMessage).                                                  *)
LightLooksLit == shining /\ worn = "private" => wokeTalking

(* "Waking up during a reply would leave fren dark while the observer is   *)
(* running, which breaks the one invariant that is not negotiable": it     *)
(* does when the light went off during that same reply, whose face is no   *)
(* longer owned by then (render).                                          *)
NeverWatchesDark == shining => worn # "private"
=============================================================================
