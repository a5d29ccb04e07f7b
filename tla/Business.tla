------------------------------ MODULE Business ------------------------------
(***************************************************************************)
(* fren's own business: what it was told about itself. The chat window     *)
(* recognises the sentence (renderer/own-business.js), the main process    *)
(* does it with the functions its handlers run (main/own-business.js), and *)
(* what could destroy something is a chip on a card, armed by one press    *)
(* and done by another (app.js chipRow and pressChip). A turn spoken on    *)
(* the live line is obeyed only when it takes something away.              *)
(***************************************************************************)
EXTENDS Naturals, FiniteSets

CONSTANTS
  Domains,      \* sites, and the patterns that exclude them
  Covers,       \* Covers[p]: the sites the pattern p excludes (isExcluded)
  NeverRead,    \* patterns of DEFAULT_EXCLUSIONS
  Runners,      \* routines and automations
  MaxTurns      \* bound: sentences about fren's own business

ASSUME BusinessAssumption ==
  /\ Covers \in [Domains -> SUBSET Domains] /\ NeverRead \subseteq Domains
  /\ \A p \in Domains : p \in Covers[p]
  /\ MaxTurns \in Nat

Switches == {"watch", "awareness", "readPages", "readSelections", "volunteer"}
Deed == [verb : Switches, on : BOOLEAN] \cup [verb : {"exclude", "include"}, site : Domains]
          \cup {[verb |-> "running"]}
Chips == [on : 1 .. MaxTurns, call : {"include"}, site : Domains, armed : {FALSE}]
          \cup [on : 1 .. MaxTurns, call : {"enable", "pause"}, id : Runners, armed : {FALSE}]
          \cup [on : 1 .. MaxTurns, call : {"delete"}, id : Runners, armed : BOOLEAN]

VARIABLES
  mayDo,     \* main: the switches that are on
  mine,      \* main: the owner's exclusions
  runsAs,    \* main and Core: each runner is on, off or gone
  told,      \* the deed on its way, and how it was given
  copySays,  \* renderer: its copy of the profile's volunteer
  says,      \* renderer: the reply being said
  cards,     \* renderer: the chips on screen
  young,     \* those put there within the last 400 ms
  finger,    \* the chips pressed within one double click
  goneBy,    \* history: runners destroyed, and in how many presses apart
  turns
busyVars == <<mayDo, mine, runsAs, told, copySays, says, cards, young, finger, goneBy, turns>>

Quiet == [how |-> "none"]

(* What fren may see, read and say: the switches, and the sites not kept   *)
(* from it.                                                                *)
Readable(ps) == Domains \ UNION {Covers[p] : p \in ps \cup NeverRead}
Reach == mayDo \cup Readable(mine)

BusInit ==
  /\ mayDo = Switches /\ mine = {} /\ runsAs = [r \in Runners |-> "on"] /\ told = Quiet
  /\ copySays = TRUE /\ says = "" /\ cards = {} /\ young = {} /\ finger = {}
  /\ goneBy = [r \in Runners |-> 2] /\ turns = 0

-----------------------------------------------------------------------------
(* Recognising it. A typed sentence is any deed; of a spoken turn only what *)
(* reduces is obeyed (reducesOnly).                                        *)
(* Mutation: any sentence about reading is taken for one that reduces.     *)
ReducesByVerb(d) == d.verb \in {"exclude", "readPages"} \/ (d.verb \in Switches /\ ~d.on)
ReducesOnly(d) == d.verb = "exclude" \/ (d.verb \in Switches /\ ~d.on)

Said(how, d) ==
  /\ told = Quiet /\ says = "" /\ turns < MaxTurns /\ (how = "spoken" => ReducesOnly(d))
  /\ told' = [how |-> how, deed |-> d] /\ turns' = turns + 1
  /\ UNCHANGED <<mayDo, mine, runsAs, copySays, says, cards, young, finger, goneBy>>

(* A card of what is running: each runner that is, with the chip that      *)
(* would change it, the value it is to have written on the chip.           *)
RunnerChips(as, n) ==
  LET there == {r \in Runners : as[r] # "gone"} IN
  {[on |-> n, call |-> IF as[r] = "on" THEN "pause" ELSE "enable", id |-> r, armed |-> FALSE] : r \in there}
    \cup {[on |-> n, call |-> "delete", id |-> r, armed |-> FALSE] : r \in there}
Drawn(new) == cards' = cards \cup new /\ young' = young \cup new

(* Doing it, in main: each verb. Excluding what is excluded changes        *)
(* nothing, and nothing in the default list can be included; including     *)
(* drops every pattern that covers the site.                               *)
Switched(d) ==
  /\ mayDo' = IF d.on THEN mayDo \cup {d.verb} ELSE mayDo \ {d.verb}
  /\ UNCHANGED <<mine, cards, young>>
Excluded(d) ==
  /\ mine' = IF d.site \in Readable(mine) THEN mine \cup {d.site} ELSE mine
  /\ IF d.site \in Readable(mine)
     THEN Drawn({[on |-> turns, call |-> "include", site |-> d.site, armed |-> FALSE]})
     ELSE UNCHANGED <<cards, young>>
  /\ UNCHANGED mayDo
Included(d) ==
  /\ mine' = IF d.site \in Readable({}) THEN {p \in mine : d.site \notin Covers[p]} ELSE mine
  /\ UNCHANGED <<mayDo, cards, young>>

Done ==
  /\ told # Quiet
  /\ \/ told.deed.verb \in Switches /\ Switched(told.deed)
     \/ told.deed.verb = "exclude" /\ Excluded(told.deed)
     \/ told.deed.verb = "include" /\ Included(told.deed)
     \/ told.deed.verb = "running" /\ Drawn(RunnerChips(runsAs, turns)) /\ UNCHANGED <<mayDo, mine>>
  /\ says' = IF told.deed.verb = "volunteer" THEN "refresh" ELSE "reply"
  /\ told' = Quiet
  /\ UNCHANGED <<runsAs, copySays, finger, goneBy, turns>>

(* What decides whether fren speaks is the window's own copy, so it is     *)
(* read again before the reply is said (showOwnReply, obeySpoken).         *)
(* Mutation: the reply is said first.                                      *)
RefreshedLater == says = "refresh" /\ says' = "reply" /\ UNCHANGED copySays
Refreshed == says = "refresh" /\ says' = "reply" /\ copySays' = ("volunteer" \in mayDo)
Refresh ==
  /\ Refreshed
  /\ UNCHANGED <<mayDo, mine, runsAs, told, cards, young, finger, goneBy, turns>>

SayIt ==
  /\ says = "reply" /\ says' = ""
  /\ UNCHANGED <<mayDo, mine, runsAs, told, copySays, cards, young, finger, goneBy, turns>>

-----------------------------------------------------------------------------
(* The chips. A row 400 ms old or less takes no click; deleting replaces   *)
(* its row by one that asks again, which is new.                           *)
(* Mutation: the row that asks again may be clicked at once.               *)
ArmedAtOnce(c) == cards' = (cards \ {c}) \cup {[c EXCEPT !.armed = TRUE]} /\ young' = young \ {c}
Armed(c) ==
  /\ cards' = (cards \ {c}) \cup {[c EXCEPT !.armed = TRUE]}
  /\ young' = (young \ {c}) \cup {[c EXCEPT !.armed = TRUE]}

(* Pressing one does it with the arguments it was drawn with, and a card   *)
(* of runners is drawn again from what is.                                 *)
(* Mutation: it turns round whatever it finds.                       *)
TurnsRound(c) == runsAs' = [runsAs EXCEPT ![c.id] = IF @ = "on" THEN "off" ELSE IF @ = "off" THEN "on" ELSE @]
SetTo(c) ==
  runsAs' = [runsAs EXCEPT ![c.id] = IF @ = "gone" THEN @ ELSE IF c.call = "enable" THEN "on" ELSE "off"]

Redrawn(c) ==
  LET others == {k \in cards : k.on # c.on}
      now == RunnerChips(runsAs', c.on)
  IN cards' = others \cup now /\ young' = (young \cap others) \cup now

Press(c) ==
  /\ c \in cards \ young /\ told = Quiet
  /\ finger' = finger \cup {c}
  /\ \/ c.call = "delete" /\ ~c.armed /\ Armed(c) /\ UNCHANGED <<mine, runsAs, goneBy>>
     \/ /\ c.call = "delete" /\ c.armed
        /\ runsAs' = [runsAs EXCEPT ![c.id] = "gone"]
        /\ goneBy' = [goneBy EXCEPT ![c.id] =
             IF runsAs[c.id] # "gone" /\ [c EXCEPT !.armed = FALSE] \in finger THEN 1 ELSE @]
        /\ Redrawn(c) /\ UNCHANGED mine
     \/ c.call \in {"enable", "pause"} /\ SetTo(c) /\ Redrawn(c) /\ UNCHANGED <<mine, goneBy>>
     \/ /\ c.call = "include"
        /\ mine' = {p \in mine : c.site \notin Covers[p]}
        /\ cards' = cards \ {c} /\ young' = young \ {c} /\ UNCHANGED <<runsAs, goneBy>>
  /\ UNCHANGED <<mayDo, told, copySays, says, turns>>

(* "Keep it" puts the first row back, as new.                              *)
KeepIt(c) ==
  /\ c \in cards \ young /\ c.armed
  /\ LET back == [c EXCEPT !.armed = FALSE]
     IN cards' = (cards \ {c}) \cup {back} /\ young' = young \cup {back}
  /\ UNCHANGED <<mayDo, mine, runsAs, told, copySays, says, finger, goneBy, turns>>

(* Half a second goes by.                                                  *)
Moment ==
  /\ young \cup finger # {} /\ young' = {} /\ finger' = {}
  /\ UNCHANGED <<mayDo, mine, runsAs, told, copySays, says, cards, goneBy, turns>>

BusNext ==
  \/ \E d \in Deed, how \in {"typed", "spoken"} : Said(how, d)
  \/ Done \/ Refresh \/ SayIt \/ Moment
  \/ \E c \in cards : Press(c) \/ KeepIt(c)

BusSpec == BusInit /\ [][BusNext]_busyVars

-----------------------------------------------------------------------------
(* Every variable holds a value of its kind.                               *)
BusTypeOK ==
  /\ mayDo \subseteq Switches /\ mine \subseteq Domains
  /\ runsAs \in [Runners -> {"on", "off", "gone"}]
  /\ told \in {Quiet} \cup [how : {"typed", "spoken"}, deed : Deed]
  /\ copySays \in BOOLEAN /\ says \in {"", "refresh", "reply"}
  /\ cards \subseteq Chips /\ young \subseteq cards /\ finger \subseteq Chips
  /\ goneBy \in [Runners -> {1, 2}] /\ turns \in 0 .. MaxTurns

(* A turn spoken on the live line never widens what fren may see, read or  *)
(* say, whatever it was heard as and whatever had been excluded before     *)
(* (app.js obeySpoken, reducesOnly).                                       *)
SpokenNeverWidens == [][told # Quiet /\ told.how = "spoken" => Reach' \subseteq Reach]_busyVars

(* By the time the reply is said, the window that decides whether fren     *)
(* speaks agrees with what was told (app.js showOwnReply).                 *)
TrueWhenSaid == says = "reply" => copySays = ("volunteer" \in mayDo)

(* Nothing fren runs is destroyed by one double click: a press arms, and a *)
(* press at least a moment later does it (app.js chipRow).                 *)
DestroyedOnPurpose == \A r \in Runners : goneBy[r] = 2

(* A chip does what is written on it, on however old a card: no runner is  *)
(* started by a press on "Pause" and none stopped by one on "Resume".      *)
DoesWhatItSays ==
  [][\A r \in Runners : runsAs[r] # runsAs'[r] =>
       \E c \in finger' : c.call # "include" /\ c.id = r /\ runsAs'[r] = CASE c.call = "enable" -> "on"
                                                  [] c.call = "pause" -> "off"
                                                  [] c.call = "delete" -> "gone"]_busyVars
=============================================================================
