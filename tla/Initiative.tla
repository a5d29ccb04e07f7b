----------------------------- MODULE Initiative ----------------------------
(***************************************************************************)
(* When fren speaks first. Two watchers in the main process ask a model    *)
(* whether something is worth saying: moments (main/proactive.js), paced   *)
(* by how earlier suggestions were received, and patterns                  *)
(* (main/patterns.js). What they find travels over one channel to the      *)
(* renderer (app.js onSuggestion), which says it, or holds it and beckons  *)
(* until the person comes to hear it or it has gone stale, and reports     *)
(* which of the two it was.                                                *)
(*                                                                         *)
(* The watchers' gates are asked before a model call of up to a minute, so *)
(* what they let through arrives in another situation.                     *)
(***************************************************************************)
EXTENDS Naturals, FiniteSets

CONSTANTS
  Topics,       \* what a model may find worth saying
  None,         \* no topic
  MaxPerDay,    \* maxPerDay of the pace, which here does not move
  MaxDays       \* bound: how many days pass

ASSUME InitiativeAssumption ==
  /\ IsFiniteSet(Topics) /\ None \notin Topics
  /\ MaxPerDay \in Nat \ {0} /\ MaxDays \in Nat

VARIABLES
  lit,        \* state.observing
  quiet,      \* nobody talked to fren for four minutes (canSpeak)
  asking,     \* the watchers with a model call in flight
  before,     \* fates as the settings held them when moments last asked
  topics,     \* proactive.topics: what moments has raised, persisted
  seen,       \* patterns' seen, persisted as suggestions
  rested,     \* moments' cooldowns are over
  today,      \* how often moments spoke today
  days,
  fates,      \* proactive.outcomes: how many fates are persisted
  busy,       \* renderer: speaking, waiting for a reply or on a voice line
  volunteer,  \* profile.volunteer: may it speak up by itself
  pending,    \* pendingSuggestion
  stale,      \* the pending suggestion is older than its half hour
  beckon,     \* beckonTimer is running
  card,       \* hintNote: "plain", "held" or "passing"
  opening,    \* a delivery waits for the panel to open
  held,       \* history: how many suggestions were ever held
  reported        \* history: how many fates the renderer reported

main     == <<lit, quiet, asking, before, topics, seen, rested, today, days, fates>>
renderer == <<busy, volunteer, pending, stale, beckon, card, opening, held, reported>>
initVars == <<main, renderer>>

InitiativeInit ==
  /\ lit \in BOOLEAN /\ quiet = TRUE /\ asking = {} /\ before = 0
  /\ topics = {} /\ seen = {} /\ rested = TRUE /\ today = 0 /\ days = 0 /\ fates = 0
  /\ busy = FALSE /\ volunteer \in BOOLEAN /\ pending = None /\ stale = FALSE
  /\ beckon = FALSE /\ card = "plain" /\ opening = FALSE /\ held = 0 /\ reported = 0

-----------------------------------------------------------------------------
(* The surroundings: the light, the conversation, the clock.               *)

LightChanges ==
  /\ lit' = ~lit
  /\ UNCHANGED <<quiet, asking, before, topics, seen, rested, today, days, fates, renderer>>

TalkChanges ==
  /\ busy' = ~busy
  /\ quiet' \in BOOLEAN
  /\ UNCHANGED <<lit, asking, before, topics, seen, rested, today, days, fates,
                 volunteer, pending, stale, beckon, card, opening, held, reported>>

(* "Stop interrupting me", or the opposite, from the chat.                 *)
SetVolunteer ==
  /\ volunteer' = ~volunteer
  /\ UNCHANGED <<main, busy, pending, stale, beckon, card, opening, held, reported>>

CooldownEnds ==
  /\ ~rested /\ rested' = TRUE
  /\ UNCHANGED <<lit, quiet, asking, before, topics, seen, today, days, fates, renderer>>

(* A suggestion carries the day its moment began on; by the model's time   *)
(* limit it is answered before the day is out.                             *)
NextDay ==
  /\ days < MaxDays /\ "moments" \notin asking
  /\ days' = days + 1 /\ today' = 0
  /\ UNCHANGED <<lit, quiet, asking, before, topics, seen, rested, fates, renderer>>

-----------------------------------------------------------------------------
(* The renderer takes a suggestion (onSuggestion): into a conversation it  *)
(* is kept without a sign; to somebody who allowed it, it is said; else it *)
(* is held, the orb beckons and the card says so.                          *)
Hold(m)  == pending' = m /\ stale' = FALSE

OnSuggestion(m) ==
  \/ /\ busy
     /\ Hold(m) /\ held' = held + 1
     /\ UNCHANGED <<busy, beckon, card>>
  \/ /\ ~busy /\ volunteer
     /\ pending' = None /\ stale' = FALSE /\ busy' = TRUE
     /\ UNCHANGED <<beckon, card, held>>
  \/ /\ ~busy /\ ~volunteer
     /\ Hold(m) /\ held' = held + 1
     /\ beckon' = TRUE /\ card' = "held"
     /\ UNCHANGED busy

(* Moments: consider, from its gate to the answer.                         *)
Gate == lit /\ quiet /\ rested /\ today < MaxPerDay

Consider ==
  /\ "moments" \notin asking /\ Gate
  /\ asking' = asking \cup {"moments"} /\ before' = fates
  /\ UNCHANGED <<lit, quiet, topics, seen, rested, today, days, fates, renderer>>

(* After the answer the settings are read again, and written as a whole.   *)
(* Mutation of the next operator.                                          *)
OutcomesBefore == before

Outcomes == fates

WorthSaying(t) ==
  /\ "moments" \in asking /\ t \notin topics
  /\ asking' = asking \ {"moments"}
  /\ topics' = topics \cup {t} /\ rested' = FALSE /\ today' = today + 1
  /\ fates' = Outcomes
  /\ OnSuggestion(t)
  /\ UNCHANGED <<lit, quiet, before, seen, days, volunteer, opening, reported>>

(* Patterns: its own quiet time is shorter than the days here.             *)
Look ==
  /\ "patterns" \notin asking /\ lit
  /\ asking' = asking \cup {"patterns"}
  /\ UNCHANGED <<lit, quiet, before, topics, seen, rested, today, days, fates, renderer>>

Noticed(t) ==
  /\ "patterns" \in asking /\ t \notin seen
  /\ asking' = asking \ {"patterns"} /\ seen' = seen \cup {t}
  /\ OnSuggestion(t)
  /\ UNCHANGED <<lit, quiet, before, topics, rested, today, days, fates,
                 volunteer, opening, reported>>

(* Nothing worth it, a repeat, or a failed call.                           *)
LetItPass(w) ==
  /\ w \in asking /\ asking' = asking \ {w}
  /\ UNCHANGED <<lit, quiet, before, topics, seen, rested, today, days, fates, renderer>>

-----------------------------------------------------------------------------
(* What the renderer holds.                                                *)

GoesStale ==
  /\ pending # None /\ ~stale /\ stale' = TRUE
  /\ UNCHANGED <<main, busy, volunteer, pending, beckon, card, opening, held, reported>>

(* suggestionOutcome: one more fate, appended to what the settings hold.   *)
Fate == fates' = fates + 1 /\ reported' = reported + 1

(* The beckoning interval: hop, or let a stale thought go and stop.        *)
BeckonStops ==
  /\ beckon /\ (pending = None \/ stale)
  /\ IF pending # None
     THEN Fate /\ pending' = None /\ stale' = FALSE /\ card' = "plain"
     ELSE UNCHANGED <<fates, reported, pending, stale, card>>
  /\ beckon' = FALSE
  /\ UNCHANGED <<lit, quiet, asking, before, topics, seen, rested, today, days,
                 busy, volunteer, opening, held>>

(* deliverPendingSuggestion, from a click or a right-click: the thought is *)
(* taken before the panel's opening is awaited, and said after it.         *)
(* Mutation of the next operator.                                          *)
TakenLater == UNCHANGED <<pending, stale>>

Taken == pending' = None /\ stale' = FALSE

Deliver ==
  /\ pending # None /\ ~busy
  /\ Taken /\ beckon' = FALSE /\ card' = "plain" /\ Fate
  /\ opening' = TRUE
  /\ UNCHANGED <<lit, quiet, asking, before, topics, seen, rested, today, days,
                 busy, volunteer, held>>

Delivered ==
  /\ opening
  /\ opening' = FALSE /\ busy' = TRUE
  /\ UNCHANGED <<lit, quiet, asking, before, topics, seen, rested, today, days, fates,
                 volunteer, pending, stale, beckon, card, held, reported>>

(* A greeting covers the card for a minute, and hands it back.             *)
PassingNote ==
  /\ card' = "passing" /\ card # "passing"
  /\ UNCHANGED <<main, busy, volunteer, pending, stale, beckon, opening, held, reported>>

PassingNoteGoes ==
  /\ card = "passing"
  /\ card' = IF pending # None THEN "held" ELSE "plain"
  /\ UNCHANGED <<main, busy, volunteer, pending, stale, beckon, opening, held, reported>>

InitiativeNext ==
  \/ LightChanges \/ TalkChanges \/ SetVolunteer \/ CooldownEnds \/ NextDay
  \/ Consider \/ Look \/ \E w \in asking : LetItPass(w)
  \/ \E t \in Topics : WorthSaying(t) \/ Noticed(t)
  \/ GoesStale \/ BeckonStops \/ Deliver \/ Delivered \/ PassingNote \/ PassingNoteGoes

InitiativeSpec == InitiativeInit /\ [][InitiativeNext]_initVars

-----------------------------------------------------------------------------
MaxTold == 2 * Cardinality(Topics)

InitiativeTypeOK ==
  /\ lit \in BOOLEAN /\ quiet \in BOOLEAN /\ asking \subseteq {"moments", "patterns"}
  /\ topics \subseteq Topics /\ seen \subseteq Topics /\ rested \in BOOLEAN
  /\ today \in 0..MaxPerDay /\ days \in 0..MaxDays
  /\ fates \in 0..MaxTold /\ before \in 0..MaxTold
  /\ busy \in BOOLEAN /\ volunteer \in BOOLEAN /\ pending \in Topics \cup {None}
  /\ stale \in BOOLEAN /\ beckon \in BOOLEAN /\ opening \in BOOLEAN
  /\ card \in {"plain", "held", "passing"} /\ held \in 0..MaxTold /\ reported \in 0..MaxTold

(* The pace is governed by what really happened: every fate the renderer   *)
(* reported is in the settings, although the watcher writes the same       *)
(* setting after a model call during which fates may arrive                *)
(* (proactive.js consider and noteOutcome), and no held suggestion is      *)
(* reported twice, although delivering one waits for the panel.            *)
FatesAreKept == fates = reported /\ reported + (IF pending # None THEN 1 ELSE 0) <= held

(* "While fren is holding a thought, the orb bounces ... until the thought *)
(* is delivered or goes stale" (app.js).                                   *)
BeckonsWhileHolding == pending # None => beckon

(* The card that offers a noticed thing leads to one.                      *)
CardIsTrue == card = "held" => pending # None

=============================================================================
