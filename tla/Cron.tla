-------------------------------- MODULE Cron --------------------------------
(***************************************************************************)
(* The five fields of a schedule and the next time they match              *)
(* (packages/shared/cron.js), over a short stretch of local time in which  *)
(* the clock is put back once and forward once.  An instant is a number;   *)
(* the wall clock it shows is a number of minutes from the beginning.      *)
(***************************************************************************)
EXTENDS Naturals, FiniteSets, FiniteSetsExt

CONSTANTS
  Minutes, Hours,  \* minutes in an hour, hours in a day
  MonthDays, Week, \* days in a month, days in a week
  StretchDays,     \* bound: the days of the stretch, the four years of the code
  Again, Lost      \* the hours, from the beginning, that are lived twice and not at all

ASSUME CronConstants ==
  /\ {Minutes, Hours, MonthDays, Week, StretchDays} \subseteq Nat \ {0}
  /\ Again \in Nat /\ Lost \in Nat /\ Again + 1 < Lost /\ Lost + 1 < Hours * StretchDays

DayLength == Minutes * Hours
Limit == DayLength * StretchDays - 1
PutBack == Again * Minutes      \* the wall clock at the beginning of the hour lived twice
PutForward == Lost * Minutes    \* ... and of the hour that is not lived

VARIABLES
  fields,     \* the parsed expression: no field has a value before there is one
  askedAt,      \* the instant nextCron is asked from
  walker,     \* d
  found       \* whether the loop has returned, d or null

cronVars == <<fields, askedAt, walker, found>>

(***************************************************************************)
(* The clock (the language's Date, as the code uses it)                    *)
(***************************************************************************)
Wall(t) ==
  LET w == IF t < PutBack + Minutes THEN t ELSE t - Minutes
  IN IF w < PutForward THEN w ELSE w + Minutes
\* A wall clock seen twice is the first of the two, one never seen is moved forward.
Instant(w) ==
  LET v == IF w < PutForward + Minutes THEN w ELSE w - Minutes
  IN IF v < PutBack + Minutes THEN v ELSE v + Minutes

DayOf(w) == w \div DayLength
Month(w) == 1 + DayOf(w) \div MonthDays
Date(w) == 1 + (DayOf(w) % MonthDays)
Weekday(w) == DayOf(w) % Week
Hour(w) == (w % DayLength) \div Minutes
Minute(w) == w % Minutes

(***************************************************************************)
(* Parsing                                                                 *)
(***************************************************************************)
FieldNames == {"minute", "hour", "day", "month", "weekday"}
Lowest(f) == IF f \in {"day", "month"} THEN 1 ELSE 0
Highest(f) == CASE f = "minute" -> Minutes - 1 [] f = "hour" -> Hours - 1 [] f = "day" -> MonthDays
                [] f = "month" -> 12 [] f = "weekday" -> Week

\* One item: `*`, a number or a range; a step of 0 stands for none written.
From(i, f) == IF i.kind = "star" THEN Lowest(f) ELSE i.lo
To(i, f) == CASE i.kind = "star" -> Highest(f) [] i.kind = "range" -> i.hi
              [] i.kind = "number" -> IF i.step = 0 THEN i.lo ELSE Highest(f)
Fits(i, f) == Lowest(f) <= From(i, f) /\ From(i, f) <= To(i, f) /\ To(i, f) <= Highest(f)
Values(i, f) ==
  {v \in From(i, f)..To(i, f) : i.step = 0 \/ (v - From(i, f)) % i.step = 0}

\* parseField: the last day of the week is also its first.
ParseField(text, f) ==
  LET all == UNION {Values(i, f) : i \in text} IN
  [any |-> \E i \in text : i.kind = "star" /\ i.step = 0,
   set |-> IF f = "weekday" /\ Week \in all THEN (all \ {Week}) \union {0} ELSE all]

\* parseCron
Valid(texts) == \A f \in FieldNames : \A i \in texts[f] : Fits(i, f)
ParseCron(texts) == [f \in FieldNames |-> ParseField(texts[f], f)]

\* Bound: the texts of each field that are tried.
Star == [kind |-> "star", lo |-> 0, hi |-> 0, step |-> 0]
At(n) == [kind |-> "number", lo |-> n, hi |-> 0, step |-> 0]
Texts ==
  [minute : {{Star}, {At(0)}, {[Star EXCEPT !.step = 2], At(Minutes - 1)}},
   hour : {{Star}, {[At(1) EXCEPT !.step = 1]}},
   day : {{Star}, {At(1)}, {At(MonthDays)}},
   month : {{Star}, {At(2)}, {[kind |-> "range", lo |-> 2, hi |-> 1, step |-> 0]}},
   weekday : {{Star}, {[kind |-> "range", lo |-> 1, hi |-> Week, step |-> 0]}, {At(Week)}}]

\* dayMatches: either, when both are restricted.
DayMatches(p, w) ==
  LET dom == Date(w) \in p["day"].set
      dow == Weekday(w) \in p["weekday"].set
  IN CASE p["day"].any /\ p["weekday"].any -> TRUE
       [] p["day"].any /\ ~p["weekday"].any -> dow
       [] ~p["day"].any /\ p["weekday"].any -> dom
       [] OTHER -> dom \/ dow

\* firesPerDay
FiresPerDay(p) == Cardinality(p["minute"].set) * Cardinality(p["hour"].set)

(***************************************************************************)
(* nextCron                                                                *)
(***************************************************************************)
NoFields == [f \in FieldNames |-> [any |-> FALSE, set |-> {}]]

CronTypeOK ==
  /\ DOMAIN fields = FieldNames
  /\ \A f \in FieldNames : fields[f].any \in BOOLEAN /\ fields[f].set \subseteq Lowest(f)..Highest(f)
  /\ askedAt \in 0..Limit /\ walker \in Nat /\ found \in {"idle", "walking", "found", "none"}

CronInit == fields = NoFields /\ askedAt = 0 /\ walker = 0 /\ found = "idle"

\* parseCron, the seconds dropped, and a minute on.
Asks(texts, t) ==
  /\ found = "idle" /\ Valid(texts)
  /\ fields' = ParseCron(texts) /\ askedAt' = t /\ found' = "walking"
  /\ walker' = Instant(Wall(Instant(Wall(t))) + 1)

\* INVALID_CRON
AsksNonsense(texts) ==
  /\ found = "idle" /\ ~Valid(texts) /\ found' = "none" /\ UNCHANGED <<fields, askedAt, walker>>

\* Broken form of Skip: a day goes by when the hour does not match.
SkipDays(p, w) ==
  IF Month(w) \notin p["month"].set THEN (DayOf(w) + MonthDays - (DayOf(w) % MonthDays)) * DayLength
  ELSE IF ~DayMatches(p, w) \/ Hour(w) \notin p["hour"].set THEN (DayOf(w) + 1) * DayLength
  ELSE w + 1

\* The beginning of the next month, day, hour or minute: the largest that is no match.
Skip(p, w) ==
  CASE Month(w) \notin p["month"].set -> (DayOf(w) + MonthDays - (DayOf(w) % MonthDays)) * DayLength
    [] Month(w) \in p["month"].set /\ ~DayMatches(p, w) -> (DayOf(w) + 1) * DayLength
    [] Month(w) \in p["month"].set /\ DayMatches(p, w) /\ Hour(w) \notin p["hour"].set ->
         (w \div Minutes + 1) * Minutes
    [] OTHER -> w + 1

Matches(p, w) ==
  /\ Month(w) \in p["month"].set /\ DayMatches(p, w)
  /\ Hour(w) \in p["hour"].set /\ Minute(w) \in p["minute"].set

\* One turn of the loop.
Walk ==
  /\ found = "walking"
  /\ CASE walker > Limit -> found' = "none" /\ UNCHANGED walker
       [] walker <= Limit /\ Matches(fields, Wall(walker)) -> found' = "found" /\ UNCHANGED walker
       [] OTHER -> walker' = Instant(Skip(fields, Wall(walker))) /\ UNCHANGED found
  /\ UNCHANGED <<fields, askedAt>>

\* Asked again from what it found.
AsksOn ==
  /\ found = "found" /\ found' = "walking" /\ askedAt' = walker
  /\ walker' = Instant(Wall(Instant(Wall(walker))) + 1) /\ UNCHANGED fields

CronNext ==
  \/ \E x \in Texts : AsksNonsense(x) \/ \E t \in 0..Limit : Asks(x, t)
  \/ Walk \/ AsksOn

CronSpec == CronInit /\ [][CronNext]_cronVars

-----------------------------------------------------------------------------
\* The times of an expression: each wall clock once, the first time it is seen.
SecondTime(t) == PutBack + Minutes <= t /\ t < PutBack + 2 * Minutes
Times(p) == {t \in 0..Limit : Matches(p, Wall(t)) /\ ~SecondTime(t)}

(* What nextCron returns, skipping months, days and hours as it does, is   *)
(* the next time of the expression after the one it was asked from, and    *)
(* nothing only when there is none: whatever the clock does in between,    *)
(* unless it is asked from within the hour that is lived again.            *)
NextIsNext ==
  found \in {"found", "none"} /\ ~SecondTime(askedAt) =>
    LET later == {t \in Times(fields) : t > askedAt}
    IN IF found = "found" THEN later # {} /\ walker = Min(later) ELSE later = {}

(* From wherever it is asked, it finds a time of the expression.           *)
FoundIsATime == found = "found" => walker \in Times(fields)

(* No day has more of its times than the limit on an automation counts     *)
(* with (firesPerDay, automations.js).                                     *)
LimitIsTrue ==
  found = "found" => \A d \in 0..(StretchDays - 1) :
    Cardinality({t \in Times(fields) : DayOf(Wall(t)) = d}) <= FiresPerDay(fields)

(* "strictly after": false of an instant in the hour that is lived again,  *)
(* whose minutes are taken for those of the first time.                    *)
StrictlyAfter == found = "found" => walker > askedAt
=============================================================================
