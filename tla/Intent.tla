------------------------------- MODULE Intent -------------------------------
(***************************************************************************)
(* "every morning at nine ...": from a sentence to an automation.  The     *)
(* words are read without a model (intelligence/index.js heuristicIntent), *)
(* a model reads them too and is checked against that                      *)
(* (fren-core/automations.js intent), what comes of it is put to the       *)
(* person (app.js tryAutomation), and what they keep is validated when it  *)
(* is made (automations.js create).                                        *)
(*                                                                         *)
(* Time is in hours since the first midnight.  It goes on while the model  *)
(* thinks and while the person does.                                       *)
(***************************************************************************)
EXTENDS Integers, FiniteSets

CONSTANTS
  Times,      \* the hours of the first day that the clock may show
  Digits,     \* hours said in digits
  Named,      \* hours said in words: noon is 12, midnight 0
  Often       \* the cron line of a model that fires more often than the runtime lets it

ASSUME IntentConstants == Times \subseteq 0..23 /\ Digits \subseteq Nat /\ Named \subseteq 0..12 /\ Often > 23

Parts == {"none", "morning", "afternoon", "evening", "night"}
Days == {"none", "today", "tomorrow", "tonight", "morning", "afternoon", "evening"}
Unsaid == [by |-> "none", hour |-> 0, half |-> "none"]
Hours12 == [by : {"digits"}, hour : Digits, half : {"none", "am", "pm"}]
             \union [by : {"word"}, hour : Named, half : {"none"}] \union {Unsaid}

\* What the patterns find in a sentence: which of them fit, and whether there is anything
\* left to do once their words are taken out.
Sentences ==
  [sort : {"repeat"}, clock : Hours12, part : Parts, task : {TRUE}]
    \union [sort : {"once"}, clock : Hours12, part : Days, task : {TRUE}]
    \union [sort : {"in", "event"}, clock : {Unsaid}, part : {"none"}, task : BOOLEAN]
    \union [sort : {"plain"}, clock : {Unsaid}, part : {"none"}, task : {TRUE}]
Silence == [sort |-> "none", clock |-> Unsaid, part |-> "none", task |-> FALSE]

\* A reading: a time of day, a moment, or something on the screen; -1 and "" for none.
Readings == [when : {"none", "repeat", "once", "event"}, hour : (-1..23) \union {Often}, at : -1..47,
             what : {"", "named", "seen"}, task : BOOLEAN]
NoReading == [when |-> "none", hour |-> -1, at |-> -1, what |-> "", task |-> FALSE]
\* What the model answers: nothing that can be read, no, or an automation, its fields not
\* necessarily those of its `when', nor that one of the three.
Answers == [when : {"unreadable", "no"}, hour : {-1}, at : {-1}, what : {""}, task : {FALSE}]
             \union [when : {"repeat", "odd"}, hour : {-1, 9, Often}, at : {-1}, what : {""}, task : BOOLEAN]
             \union [when : {"once"}, hour : {9}, at : {-1, 0, 30}, what : {""}, task : BOOLEAN]
             \union [when : {"event"}, hour : {-1}, at : {30}, what : {"", "named"}, task : BOOLEAN]

VARIABLES
  clockNow,   \* hours since the first midnight
  sentence,   \* what was said, until it was made something of
  guess,      \* heuristicIntent's reading of it
  offer,      \* what the person is asked to keep
  offeredBy,  \* whose reading that is
  kept,       \* the automation the latest sentence became
  keptAt      \* and when

intentVars == <<clockNow, sentence, guess, offer, offeredBy, kept, keptAt>>

IntentTypeOK ==
  /\ clockNow \in Times /\ sentence \in Sentences \union {Silence} /\ keptAt \in Times
  /\ {guess, offer, kept} \subseteq Readings /\ offeredBy \in {"nobody", "words", "model"}

IntentInit ==
  /\ clockNow \in Times /\ clockNow - 1 \notin Times /\ keptAt = CHOOSE t \in Times : TRUE
  /\ sentence = Silence /\ guess = NoReading /\ offer = NoReading /\ offeredBy = "nobody" /\ kept = NoReading

(***************************************************************************)
(* The words alone                                                         *)
(***************************************************************************)
OnHalf(c) == IF c.half = "pm" /\ c.hour < 12 THEN c.hour + 12 ELSE IF c.half = "am" /\ c.hour = 12 THEN 0 ELSE c.hour

\* heuristicIntent: the hour said, or that of the part of the day; "at 6 in the evening".
PartHour == [none |-> -1, morning |-> 9, afternoon |-> 14, evening |-> 18, night |-> 21]
RepeatHour(c, part) ==
  IF c.by = "none" THEN PartHour[part]
  ELSE IF PartHour[part] >= 12 /\ OnHalf(c) < 12 /\ c.half = "none" THEN OnHalf(c) + 12
  ELSE OnHalf(c)

\* heuristicOnce: a small hour in digits is the afternoon's.
DayHour == [none |-> -1, today |-> -1, tomorrow |-> 9, morning |-> 9, afternoon |-> 15, tonight |-> 20, evening |-> 20]
OnceHour(c, day) ==
  CASE c.by = "none" -> DayHour[day]
    [] c.by = "word" -> c.hour
    [] c.by = "digits" ->
         IF c.half = "none" /\ \/ OnHalf(c) < 12 /\ day \in {"tonight", "evening", "afternoon"}
                               \/ OnHalf(c) < 7 /\ day # "morning"
         THEN OnHalf(c) + 12 ELSE OnHalf(c)
OnceAt(c, day) ==
  LET h == OnceHour(c, day) IN
  CASE h < 0 \/ h > 23 -> -1
    [] h \in 0..23 /\ day = "tomorrow" -> h + 24
    [] h \in 0..23 /\ day # "tomorrow" /\ h > clockNow -> h
    [] h \in 0..23 /\ day # "tomorrow" /\ h <= clockNow -> IF day = "none" THEN h + 24 ELSE -1

\* heuristicIntent, heuristicEvent, heuristicOnce: nothing without something to do.
Heuristic(s) ==
  LET yes == [NoReading EXCEPT !.task = TRUE]
      hour == RepeatHour(s.clock, s.part)
      at == IF s.sort = "in" THEN clockNow + 1 ELSE OnceAt(s.clock, s.part)
  IN CASE s.sort = "repeat" /\ s.task /\ hour \in 0..23 -> [yes EXCEPT !.when = "repeat", !.hour = hour]
       [] s.sort \in {"once", "in"} /\ s.task /\ at # -1 -> [yes EXCEPT !.when = "once", !.at = at]
       [] s.sort = "event" /\ s.task -> [yes EXCEPT !.when = "event", !.what = "seen"]
       [] OTHER -> NoReading

(***************************************************************************)
(* Steps                                                                   *)
(***************************************************************************)
TimeGoesOn ==
  /\ clockNow + 1 \in Times /\ clockNow' = clockNow + 1
  /\ UNCHANGED <<sentence, guess, offer, offeredBy, kept, keptAt>>

\* intent: the words are read when they are said, and the model is asked.
SentenceSaid(s) ==
  /\ sentence = Silence /\ offeredBy = "nobody" /\ sentence' = s /\ guess' = Heuristic(s)
  /\ kept' = NoReading /\ keptAt' = CHOOSE t \in Times : TRUE
  /\ UNCHANGED <<clockNow, offer, offeredBy>>

\* Broken form of ModelReading: what the words said is put into it whatever they were about.
ModelReadingOfAll(a) ==
  [when |-> IF a.when # "odd" THEN a.when ELSE IF a.hour # -1 THEN "repeat" ELSE guess.when,
   hour |-> IF a.hour # -1 THEN a.hour ELSE guess.hour,
   at |-> IF a.at # -1 THEN a.at ELSE guess.at,
   what |-> IF a.what # "" THEN a.what ELSE guess.what,
   task |-> a.task \/ guess.task]

\* The model's answer, each field of its `when' by the words where it has none.
ModelReading(a) ==
  LET when == IF a.when # "odd" THEN a.when ELSE IF a.hour # -1 THEN "repeat" ELSE guess.when
      Field(w, said, none, read) == IF when # w THEN none ELSE IF said # none THEN said ELSE read
  IN [when |-> when, hour |-> Field("repeat", a.hour, -1, guess.hour), at |-> Field("once", a.at, -1, guess.at),
      what |-> Field("event", a.what, "", guess.what), task |-> a.task \/ guess.task]
Readable(r) ==
  /\ r.task
  /\ \/ r.when = "repeat" /\ r.hour # -1
     \/ r.when = "once" /\ r.at > clockNow
     \/ r.when = "event" /\ r.what # ""

Proposes(r, by) ==
  IF r.when # "none" THEN offer' = r /\ offeredBy' = by /\ UNCHANGED sentence
  ELSE offer' = NoReading /\ offeredBy' = "nobody" /\ sentence' = Silence

\* intent, when the model has answered or failed; tryAutomation puts it to the person.
IntentRead(a) ==
  /\ sentence # Silence /\ offeredBy = "nobody" /\ guess' = NoReading
  /\ CASE a.when = "unreadable" -> Proposes(guess, "words")
       [] a.when = "no" -> Proposes(NoReading, "model")
       [] OTHER -> Proposes(IF Readable(ModelReading(a)) THEN ModelReading(a) ELSE NoReading, "model")
  /\ UNCHANGED <<clockNow, kept, keptAt>>

\* create, validate: what is over by now or fires too often is refused.
Validates(r) == r.task /\ (r.when = "once" => r.at >= clockNow) /\ (r.when = "repeat" => r.hour # Often)
OfferDone == offer' = NoReading /\ offeredBy' = "nobody" /\ sentence' = Silence /\ UNCHANGED <<clockNow, guess>>
OfferKept ==
  /\ offeredBy # "nobody" /\ Validates(offer) /\ kept' = offer /\ keptAt' = clockNow /\ OfferDone
OfferRefused == offeredBy # "nobody" /\ ~Validates(offer) /\ OfferDone /\ UNCHANGED <<kept, keptAt>>
OfferDeclined == offeredBy # "nobody" /\ OfferDone /\ UNCHANGED <<kept, keptAt>>

IntentNext ==
  \/ TimeGoesOn \/ \E s \in Sentences : SentenceSaid(s)
  \/ \E a \in Answers : IntentRead(a)
  \/ OfferKept \/ OfferRefused \/ OfferDeclined

IntentSpec == IntentInit /\ [][IntentNext]_intentVars

-----------------------------------------------------------------------------
(* What is offered is one whole thing, whichever of its fields the model   *)
(* left to the words: something to do, and the time, the moment or the     *)
(* sight it is for, and none of the others (intent).                       *)
OfferIsWhole ==
  offeredBy # "nobody" =>
    /\ offer.task
    /\ offer.when = "repeat" <=> offer.hour # -1
    /\ offer.when = "once" <=> offer.at # -1
    /\ offer.when = "event" <=> offer.what # ""

\* What a clock said in those words can mean.
MeantHours(c) ==
  CASE c.by = "none" -> 0..23
    [] c.by = "word" -> IF c.hour \in {0, 12} THEN {c.hour} ELSE {c.hour, c.hour + 12}
    [] c.half # "none" -> {IF c.hour > 12 THEN c.hour ELSE (c.hour % 12) + (IF c.half = "pm" THEN 12 ELSE 0)}
    [] c.by = "digits" /\ c.half = "none" -> {c.hour, c.hour + 12} \intersect 0..23
OfferedHour == IF offer.when = "repeat" THEN offer.hour ELSE offer.at % 24

(* Without a model the words leave little room: the hour offered is one    *)
(* they can mean, but for midnight, which a part of the day makes noon     *)
(* (heuristicIntent, heuristicOnce).                                       *)
OfferIsMeant ==
  offeredBy = "words" /\ sentence.sort \in {"repeat", "once"} /\ sentence.clock # [Unsaid EXCEPT !.by = "word"] =>
    OfferedHour \in MeantHours(sentence.clock)

(* What is made is ahead of the moment it is made at, however long the     *)
(* model and the person took (validate).                                   *)
MadeIsAhead == kept.when = "once" => kept.at >= keptAt

(* "Nobody schedules 3 in the night": but said as a word it is, and every  *)
(* night at midnight is noon (heuristicOnce, heuristicIntent).             *)
SmallHoursAreMeant ==
  offeredBy = "words" /\ sentence.sort \in {"repeat", "once"} /\ sentence.clock.by = "word" =>
    IF sentence.clock.hour \in {0, 12} THEN OfferedHour = sentence.clock.hour
    ELSE sentence.clock.hour < 7 /\ sentence.part # "morning" => OfferedHour >= 12
=============================================================================
