------------------------------ MODULE Presence ------------------------------
(***************************************************************************)
(* The small signs of life of the main process: the thought bubbles that   *)
(* follow what the person does (main/narrator.js), and the hello on their  *)
(* return (main/arrival.js and the greeting of main/index.js). Leaving and *)
(* returning are told by the power monitor, often twice over, and by the   *)
(* window samples of the observer, which arrive a moment after they were   *)
(* taken; a thought and a hello each take a model call.                    *)
(***************************************************************************)
EXTENDS Naturals, FiniteSets

CONSTANTS
  Places,     \* what the person may be doing: an app, a page, a selection
  Nowhere     \* nothing narrated yet

ASSUME PresenceAssumption == Nowhere \notin Places

VARIABLES
  watching,   \* state.observing
  latest,     \* narrator: the last signal
  narrated,   \* narrator: lastKey, the place last thought about
  settleArmed,   \* narrator: settleTimer is armed
  floor,      \* narrator: less than minIntervalMs since the last thought
  musing,     \* narrator: the place a model call is about, or Nowhere
  shown,      \* history: the last thought shown came with the light "on" or "off"
  mark,       \* awayAt: "none", "short" (under ten minutes) or "long"
  glimpse,    \* a window sample under way: "none", "login" or "app"
  greeting,   \* composeGreeting calls in flight
  greeted,    \* lastGreetAt is under five minutes ago
  hellos      \* history: greetings decided for the absence the mark began

narrator == <<latest, narrated, settleArmed, floor, musing, shown>>
arrival  == <<mark, glimpse, greeting, greeted, hellos>>
presVars == <<watching, narrator, arrival>>

PresInit ==
  /\ watching \in BOOLEAN
  /\ latest = Nowhere /\ narrated = Nowhere /\ settleArmed = FALSE /\ floor = FALSE
  /\ musing = Nowhere /\ shown = "on"
  /\ mark \in {"none", "long"}                   \* a persisted awayAt is read at launch
  /\ glimpse = "none" /\ greeting = 0 /\ greeted = FALSE /\ hellos = 0

WatchingChanges ==
  /\ watching' = ~watching
  /\ UNCHANGED <<narrator, arrival>>

-----------------------------------------------------------------------------
(* The narrator.                                                           *)

(* note: the signal is kept, and armed when it is news and the light is on. *)
Note(p) ==
  /\ latest' = p
  /\ settleArmed' = (settleArmed \/ (watching /\ p # narrated))
  /\ UNCHANGED <<watching, narrated, floor, musing, shown, arrival>>

(* fire: every early return gives the timer up, but "too soon" arms again. *)
Fire ==
  /\ settleArmed
  /\ LET willing == musing = Nowhere /\ watching /\ latest \notin {Nowhere, narrated}
     IN \/ /\ willing /\ floor
           /\ UNCHANGED <<settleArmed, musing>>
        \/ /\ willing /\ ~floor
           /\ musing' = latest /\ settleArmed' = FALSE
        \/ /\ ~willing
           /\ settleArmed' = FALSE /\ UNCHANGED musing
  /\ UNCHANGED <<watching, latest, narrated, floor, shown, arrival>>

(* The model answered: the place counts as narrated, with or without text. *)
Thought ==
  /\ musing # Nowhere
  /\ narrated' = musing /\ musing' = Nowhere /\ floor' = TRUE
  /\ shown' \in {shown, IF watching THEN "on" ELSE "off"}
  /\ UNCHANGED <<watching, latest, settleArmed, arrival>>

NoThought ==
  /\ musing # Nowhere /\ musing' = Nowhere
  /\ UNCHANGED <<watching, latest, narrated, settleArmed, floor, shown, arrival>>

FloorPasses ==
  /\ floor /\ floor' = FALSE
  /\ UNCHANGED <<watching, latest, narrated, settleArmed, musing, shown, arrival>>

-----------------------------------------------------------------------------
(* Leaving and returning.                                                  *)

(* away: "the first sign of leaving is the one that counts".               *)
Leaving ==
  IF mark = "none" THEN mark' = "short" /\ hellos' = 0
                   ELSE UNCHANGED <<mark, hellos>>

(* back: the mark is taken at once, then the greeting is composed.         *)
Deserved == mark = "long" /\ ~greeted

(* Mutation: the mark stays until the greeting is composed.                *)
TakesMarkLater == mark' = mark
TakesMark == mark' = "none"

Returning ==
  /\ TakesMark
  /\ IF Deserved THEN greeting' = greeting + 1 /\ hellos' = hellos + 1
                 ELSE UNCHANGED <<greeting, hellos>>

(* The machine sleeps or the screen locks.                                 *)
LeaveSignal ==
  /\ Leaving
  /\ UNCHANGED <<watching, narrator, glimpse, greeting, greeted>>

(* It wakes or is unlocked: on a Mac both, one after the other.            *)
BackSignal ==
  /\ greeting < 2
  /\ Returning
  /\ UNCHANGED <<watching, narrator, glimpse, greeted>>

(* The observer's samples, taken now and reported later; one that comes    *)
(* back after the light went off is dropped.                               *)
Glimpse ==
  /\ watching /\ glimpse = "none" /\ glimpse' \in {"login", "app"}
  /\ UNCHANGED <<watching, narrator, mark, greeting, greeted, hellos>>

GlimpseReported ==
  /\ glimpse # "none" /\ glimpse' = "none"
  /\ \/ /\ watching /\ glimpse = "login"
        /\ Leaving /\ UNCHANGED greeting
     \/ /\ watching /\ glimpse = "app" /\ mark # "none" /\ greeting < 2
        /\ Returning
     \/ /\ ~watching \/ (glimpse = "app" /\ mark = "none")
        /\ UNCHANGED <<mark, greeting, hellos>>
  /\ UNCHANGED <<watching, narrator, greeted>>

MinutesPass ==
  /\ mark = "short" /\ mark' = "long"
  /\ greeted' = FALSE
  /\ UNCHANGED <<watching, narrator, glimpse, greeting, hellos>>

(* The hello came, or nothing did.                                         *)
Composed ==
  /\ greeting > 0 /\ greeting' = greeting - 1
  /\ greeted' \in {greeted, TRUE}
  /\ UNCHANGED <<watching, narrator, mark, glimpse, hellos>>

GreetingFades ==
  /\ greeted /\ greeted' = FALSE
  /\ UNCHANGED <<watching, narrator, mark, glimpse, greeting, hellos>>

PresNext ==
  \/ WatchingChanges \/ \E p \in Places : Note(p)
  \/ Fire \/ Thought \/ NoThought \/ FloorPasses
  \/ LeaveSignal \/ BackSignal \/ Glimpse \/ GlimpseReported
  \/ MinutesPass \/ Composed \/ GreetingFades

PresSpec == PresInit /\ [][PresNext]_presVars

-----------------------------------------------------------------------------
PresTypeOK ==
  /\ watching \in BOOLEAN /\ settleArmed \in BOOLEAN /\ floor \in BOOLEAN
  /\ latest \in Places \cup {Nowhere} /\ narrated \in Places \cup {Nowhere}
  /\ musing \in Places \cup {Nowhere} /\ shown \in {"on", "off"}
  /\ mark \in {"none", "short", "long"} /\ glimpse \in {"none", "login", "app"}
  /\ greeting \in 0..2 /\ greeted \in BOOLEAN /\ hellos \in 0..2

(* "Once greeted, a second signal for the same return (macOS wakes, then   *)
(* unlocks) stays quiet": one absence is greeted at most once, although    *)
(* lastGreetAt is set only when the greeting is there (arrival.js).        *)
OneHello == hellos <= 1

(* "Light off: no thoughts, ever" (narrator.js fire).                      *)
ThoughtsByLight == shown = "on"
=============================================================================
