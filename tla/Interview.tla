------------------------------- MODULE Interview -------------------------------
(***************************************************************************)
(* Meeting somebody for the first time (renderer/app.js, the setup: its    *)
(* questions, handleSetupAnswer, finishSetup, endSetup; main's profile).   *)
(* An answer waits for the model to say what was in it, and nothing keeps  *)
(* the person from saying the next thing, or skipping, in the meantime.    *)
(* Question 1 is about fren's initiative, the last one about its light.    *)
(***************************************************************************)
EXTENDS Naturals, FiniteSets

CONSTANTS
  Questions,  \* how many there are
  MaxSaid,    \* bound: what the person says
  MaxStarts   \* bound: launches

ASSUME InterviewBounds == Questions \in Nat \ {0, 1} /\ MaxSaid \in Nat /\ MaxStarts \in Nat \ {0}

Steps == 1..Questions
Sayings == 1..MaxSaid
NoAnswers == [q \in Steps |-> 0]
Reads == {"yes", "no", "unread"}     \* what the model makes of a yes-or-no answer

VARIABLES
  setup, step, answers,   \* the renderer's setup (on or not), and what it holds
  reading,    \* answers with the model: the question of the time, and which saying
  finishing,  \* finishSetup's under way: their answers, how far, and what they read
  profile,    \* the setting: none, skipped, or the answers and the choice to volunteer
  wakeOnLaunch, asLaunched, aglow,  \* settings and light
  launches,
  said,       \* sayings so far
  saidAt,     \* of each, the question that was up, or 0 when it was a correction
  savings     \* of this launch: how often a profile was saved

interVars == <<setup, step, answers, reading, finishing, profile, wakeOnLaunch, asLaunched, aglow,
               launches, said, saidAt, savings>>

Handler == [q : Steps, n : Sayings]
Finisher == [answers : [Steps -> 0..MaxSaid], at : {"initiative", "wake", "save"},
             volunteer : BOOLEAN, wake : BOOLEAN]
NoProfile == [kind |-> "none", answers |-> NoAnswers, volunteer |-> FALSE]
Skipped == [NoProfile EXCEPT !.kind = "skipped"]

InterviewTypeOK ==
  /\ {setup, wakeOnLaunch, asLaunched, aglow} \subseteq BOOLEAN /\ step \in 1..Questions + MaxSaid
  /\ answers \in [Steps -> 0..MaxSaid] /\ reading \subseteq Handler
  /\ finishing \subseteq Finisher
  /\ profile \in [kind : {"none", "skipped", "kept"}, answers : [Steps -> 0..MaxSaid], volunteer : BOOLEAN]
  /\ launches \in 0..MaxStarts /\ said \in 0..MaxSaid /\ saidAt \in [Sayings -> 0..Questions]
  /\ savings \in 0..1

InterviewInit ==
  /\ setup = FALSE /\ step = 1 /\ answers = NoAnswers /\ reading = {} /\ finishing = {}
  /\ profile = NoProfile /\ wakeOnLaunch = TRUE /\ asLaunched = TRUE /\ aglow = FALSE
  /\ launches = 0 /\ said = 0 /\ saidAt = [n \in Sayings |-> 0] /\ savings = 0

\* runSetupIfNeeded, at launch, after whatever the last life left; aglow as the setting
\* says.  Having declined once, nobody is asked again.
Launches ==
  /\ launches < MaxStarts /\ launches' = launches + 1
  /\ setup' = (profile.kind = "none") /\ step' = 1 /\ answers' = NoAnswers
  /\ reading' = {} /\ finishing' = {} /\ savings' = 0
  /\ aglow' = wakeOnLaunch /\ asLaunched' = wakeOnLaunch
  /\ UNCHANGED <<profile, wakeOnLaunch, said, saidAt>>

\* endSetup: the interview ends once, whoever ends it.
EndSetup(saved) ==
  IF setup THEN setup' = FALSE /\ profile' = saved /\ savings' = savings + 1
           ELSE UNCHANGED <<setup, profile, savings>>

\* The chip, or the word "skip".
Skip ==
  /\ setup /\ EndSetup(Skipped)
  /\ UNCHANGED <<step, answers, reading, finishing, wakeOnLaunch, asLaunched, aglow, launches, said, saidAt>>

\* Words, while a question is up: the question of now goes with them. Words after
\* the last one, while the answers are being finished, throw.
Answer ==
  /\ setup /\ said < MaxSaid /\ said' = said + 1
  /\ reading' = IF step \in Steps THEN reading \union {[q |-> step, n |-> said + 1]} ELSE reading
  /\ saidAt' = [saidAt EXCEPT ![said + 1] = IF step \in Steps THEN step ELSE 0]
  /\ UNCHANGED <<setup, step, answers, finishing, profile, wakeOnLaunch, asLaunched, aglow, launches, savings>>

\* The model has read it, or has not: an answer, unless it says otherwise.  The setup
\* may be over by then, and the handler throws.
ReadLate(h) ==
  /\ answers' = [answers EXCEPT ![IF step \in Steps THEN step ELSE h.q] = h.n] /\ step' = step + 1
  /\ finishing' = IF step' <= Questions THEN finishing ELSE
       finishing \union {[answers |-> answers', at |-> "initiative", volunteer |-> FALSE, wake |-> TRUE]}
  /\ UNCHANGED saidAt
Read(h) ==
  /\ answers' = [answers EXCEPT ![h.q] = h.n] /\ step' = step + 1
  /\ finishing' = IF step' <= Questions THEN finishing ELSE
       finishing \union {[answers |-> answers', at |-> "initiative", volunteer |-> FALSE, wake |-> TRUE]}
  /\ UNCHANGED saidAt

\* It asked something back; or it corrects an earlier answer, which is theirs to say.
AskedBack == UNCHANGED <<answers, step, finishing, saidAt>>
Corrects(h, k) ==
  /\ k # h.q /\ answers' = [answers EXCEPT ![k] = h.n] /\ saidAt' = [saidAt EXCEPT ![h.n] = 0]
  /\ UNCHANGED <<step, finishing>>

Extracted(h) ==
  /\ h \in reading /\ reading' = reading \ {h}
  /\ \/ ~setup /\ UNCHANGED <<answers, step, finishing, saidAt>>
     \/ setup /\ Read(h)
     \/ setup /\ AskedBack
     \/ setup /\ \E k \in Steps : Corrects(h, k)
  /\ UNCHANGED <<setup, profile, wakeOnLaunch, asLaunched, aglow, launches, said, savings>>

\* finishSetup: may it speak up; unclear means wait.
ReadsInitiative(f) ==
  /\ f \in finishing /\ f.at = "initiative"
  /\ \E r \in IF f.answers[1] = 0 THEN {"unread"} ELSE Reads :
       finishing' = (finishing \ {f}) \union {[f EXCEPT !.at = "wake", !.volunteer = (r = "yes")]}
  /\ UNCHANGED <<setup, step, answers, reading, profile, wakeOnLaunch, asLaunched, aglow, launches, said, saidAt, savings>>

\* May it wake at launch; an answer is trusted, and honoured at once.
ReadsWake(f) ==
  /\ f \in finishing /\ f.at = "wake"
  /\ \E r \in IF f.answers[Questions] = 0 THEN {"unread"} ELSE Reads :
       LET wake == r # "no" IN
         /\ finishing' = (finishing \ {f}) \union {[f EXCEPT !.at = "save", !.wake = wake]}
         /\ wakeOnLaunch' = wake /\ aglow' = (aglow /\ wake)
  /\ UNCHANGED <<setup, step, answers, reading, profile, asLaunched, launches, said, saidAt, savings>>

Saves(f) ==
  /\ f \in finishing /\ f.at = "save" /\ finishing' = finishing \ {f}
  /\ EndSetup([kind |-> "kept", answers |-> f.answers, volunteer |-> f.volunteer])
  /\ UNCHANGED <<step, answers, reading, wakeOnLaunch, asLaunched, aglow, launches, said, saidAt>>

InterviewNext ==
  \/ Launches \/ Skip \/ Answer
  \/ \E h \in reading : Extracted(h)
  \/ \E f \in finishing : ReadsInitiative(f) \/ ReadsWake(f) \/ Saves(f)

InterviewSpec == InterviewInit /\ [][InterviewNext]_interVars

(***************************************************************************)
(* Properties                                                              *)
(***************************************************************************)

\* What is written down of somebody is what they said to that question, or said to
\* correct it, in whatever order the readings come back (handleSetupAnswer takes the
\* question before it waits).
Fits(a) == \A q \in Steps : a[q] # 0 => saidAt[a[q]] \in {0, q}
AnswersFit == Fits(answers) /\ Fits(profile.answers)

\* "Having declined once, being asked again would be nagging", and an interview is
\* written down once: a profile is saved at most once a launch, and never over one.
AskedOnlyOnce == setup => profile.kind = "none" /\ savings = 0

\* Fren volunteers only if it was asked and the model read a yes.
VolunteersAsked == profile.volunteer => profile.answers[1] # 0

\* Every question is answered before the last (does not hold: two answers to one
\* question, and the next is never asked).
NoneIsPassedOver == profile.kind = "kept" => \A q \in Steps : profile.answers[q] # 0

\* Declining declines it all (does not hold: a finish under way still sets when fren
\* wakes, and says thanks, after the chip was pressed).
DecliningIsHeard == profile.kind = "skipped" => wakeOnLaunch
=================================================================================
