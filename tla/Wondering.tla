----------------------------- MODULE Wondering -----------------------------
(***************************************************************************)
(* Being curious about someone: the watcher that asks a question now and   *)
(* then (main/curiosity.js), the renderer that asks it or lets it go and   *)
(* takes the next words as the answer (app.js onCurious and learnFrom),    *)
(* the main process that has a model weigh the answer (fren:learn,         *)
(* rememberNote in main/index.js), and the file of facts that is kept, cut *)
(* at its limit and can be told to forget (main/soul.js).                  *)
(***************************************************************************)
EXTENDS Naturals, Sequences, SequencesExt, FiniteSets

CONSTANTS
  Matters,     \* what can be asked about, and learnt
  NoMatter,
  MaxFacts,    \* MAX_FACTS of soul.js
  MaxPerDay,   \* maxPerDay of curiosity.js
  MaxRestarts  \* bound: how often fren is started again

ASSUME WonderingAssumption ==
  /\ IsFiniteSet(Matters) /\ NoMatter \notin Matters
  /\ MaxFacts \in Nat \ {0} /\ MaxPerDay \in Nat \ {0} /\ MaxRestarts \in Nat

VARIABLES
  invited,    \* observing, settled in, invited to interrupt, nobody talking
  cooled,     \* the cooldown since the last question is over
  thinking,   \* curiosity: model calls in flight (its flag allows one)
  loaded,     \* the state the call in flight began from
  asked,      \* what has been asked, persisted
  today,      \* questions asked today, persisted
  engaged,    \* renderer: speaking, waiting for a reply, or in setup
  answering,  \* answeringQuestion
  heard,      \* history: how often each question was put to the person
  weighing,   \* questions whose answer a model is weighing
  facts,      \* the bullets of MEMORY.md, oldest first
  restarts

watcher  == <<invited, cooled, thinking, loaded, asked, today>>
chatside == <<engaged, answering, heard>>
wondVars == <<watcher, chatside, weighing, facts, restarts>>

WondInit ==
  /\ invited \in BOOLEAN /\ cooled = TRUE /\ thinking = 0 /\ loaded = {} /\ asked = {}
  /\ today = 0 /\ engaged = FALSE /\ answering = NoMatter
  /\ heard = [q \in Matters |-> 0] /\ weighing = {} /\ facts = <<>> /\ restarts = 0

GatesMove ==
  /\ invited' = ~invited
  /\ UNCHANGED <<cooled, thinking, loaded, asked, today, chatside, weighing, facts, restarts>>

TimeGoesBy ==
  /\ cooled' = TRUE /\ today' \in {today, 0} /\ thinking = 0
  /\ UNCHANGED <<invited, thinking, loaded, asked, chatside, weighing, facts, restarts>>

-----------------------------------------------------------------------------
(* The watcher. What was asked is read before the model is, and written    *)
(* back with one more when the question is put.                            *)
(* Mutation: it does not mind that it is already thinking.                 *)
IdleOrNot == thinking < 2
Idle == thinking = 0

Consider ==
  /\ Idle /\ invited /\ cooled /\ today < MaxPerDay
  /\ thinking' = thinking + 1 /\ loaded' = asked
  /\ UNCHANGED <<invited, cooled, asked, today, chatside, weighing, facts, restarts>>

NothingToAsk ==
  /\ thinking > 0 /\ thinking' = thinking - 1 /\ loaded' = {}
  /\ UNCHANGED <<invited, cooled, asked, today, chatside, weighing, facts, restarts>>

(* A question that finds somebody engaged is dropped, not queued; one that *)
(* is put opens the time in which the next words answer it.                *)
(* Mutation: the question is kept for answering whether it was put or not. *)
PutRegardless(q) ==
  /\ answering' = q
  /\ IF engaged THEN UNCHANGED <<heard, engaged>>
     ELSE /\ heard' = [heard EXCEPT ![q] = IF @ < 2 THEN @ + 1 ELSE @]
          /\ engaged' = TRUE
Put(q) ==
  IF engaged THEN UNCHANGED chatside
  ELSE /\ answering' = q /\ engaged' = TRUE
       /\ heard' = [heard EXCEPT ![q] = IF @ < 2 THEN @ + 1 ELSE @]

Ask(q) ==
  /\ thinking > 0 /\ q \notin loaded
  /\ thinking' = thinking - 1
  /\ asked' = loaded \cup {q}
  /\ cooled' = FALSE /\ today' = IF today < MaxPerDay THEN today + 1 ELSE today
  /\ loaded' = IF thinking = 1 THEN {} ELSE loaded
  /\ Put(q)
  /\ UNCHANGED <<invited, weighing, facts, restarts>>

-----------------------------------------------------------------------------
(* The person.                                                             *)

Speech ==
  /\ engaged' = ~engaged
  /\ UNCHANGED <<watcher, answering, heard, weighing, facts, restarts>>

(* sendMessage, when the words were not a deed of fren's own: learnFrom    *)
(* sends the question with the answer, without waiting.                    *)
PersonReplies ==
  /\ answering # NoMatter
  /\ weighing' = weighing \cup {answering} /\ answering' = NoMatter
  /\ UNCHANGED <<watcher, engaged, heard, facts, restarts>>

AnswerWindowEnds ==
  /\ answering # NoMatter /\ answering' = NoMatter
  /\ UNCHANGED <<watcher, engaged, heard, weighing, facts, restarts>>

-----------------------------------------------------------------------------
(* The facts.                                                              *)

(* rememberFact: the same thing said twice is not two facts; the oldest    *)
(* falls off the end.                                                      *)
(* Mutation: whatever is said is added.                                    *)
Appended(q) == LET more == Append(facts, q)
               IN IF Len(more) > MaxFacts THEN Tail(more) ELSE more
Remembered(q) ==
  IF q \in ToSet(facts) THEN facts
  ELSE LET more == Append(facts, q)
       IN IF Len(more) > MaxFacts THEN Tail(more) ELSE more

(* fren:learn: kept if the model says it lasts, else nothing.              *)
Weighed(q) ==
  /\ q \in weighing /\ weighing' = weighing \ {q}
  /\ facts' \in {facts, Remembered(q)}
  /\ UNCHANGED <<watcher, chatside, restarts>>

(* rememberNote: "remember that ..." typed or said on the voice line.      *)
Noted(q) ==
  /\ facts' = Remembered(q)
  /\ UNCHANGED <<watcher, chatside, weighing, restarts>>

(* forgetFact removes exactly one line: several that match are a refusal.  *)
Forgets(q) ==
  /\ \E i \in DOMAIN facts : /\ \A j \in DOMAIN facts : facts[j] = q <=> j = i
                             /\ facts' = RemoveAt(facts, i)
  /\ UNCHANGED <<watcher, chatside, weighing, restarts>>

Restart ==
  /\ restarts < MaxRestarts /\ restarts' = restarts + 1
  /\ thinking' = 0 /\ loaded' = {} /\ answering' = NoMatter /\ engaged' = FALSE /\ weighing' = {}
  /\ UNCHANGED <<invited, cooled, asked, today, heard, facts>>

WondNext ==
  \/ GatesMove \/ TimeGoesBy \/ Consider \/ NothingToAsk
  \/ Speech \/ PersonReplies \/ AnswerWindowEnds \/ Restart
  \/ \E q \in Matters : Ask(q) \/ Weighed(q) \/ Noted(q) \/ Forgets(q)

WondSpec == WondInit /\ [][WondNext]_wondVars

-----------------------------------------------------------------------------
WondTypeOK ==
  /\ invited \in BOOLEAN /\ cooled \in BOOLEAN /\ thinking \in 0..2 /\ loaded \subseteq Matters
  /\ asked \subseteq Matters /\ today \in 0..MaxPerDay /\ engaged \in BOOLEAN
  /\ answering \in Matters \cup {NoMatter} /\ heard \in [Matters -> 0..2]
  /\ weighing \subseteq Matters /\ ToSet(facts) \subseteq Matters /\ Len(facts) <= MaxFacts
  /\ restarts \in 0..MaxRestarts

(* "About something it has asked about before — including across restarts" *)
(* it will not ask (docs/privacy.md): nobody is asked the same thing twice.*)
(* What was asked is read before the model call and written after it.      *)
AskedOnce == \A q \in Matters : /\ heard[q] <= 1
                                /\ heard[q] > 0 => q \in asked

(* No words are weighed as an answer to a question the person never heard  *)
(* (main/index.js fren:learn): a question main sent and the renderer       *)
(* dropped collects no answer.                                             *)
AnswersWereAsked == \A q \in weighing \cup ({answering} \ {NoMatter}) : heard[q] > 0

(* The same thing is never two facts, whichever of the three ways to       *)
(* remember it was taken (soul.js rememberFact).                           *)
FactsDiffer == Cardinality(ToSet(facts)) = Len(facts)
=============================================================================
