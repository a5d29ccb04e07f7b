---------------------------------- MODULE Stage ----------------------------------
(***************************************************************************)
(* The window around the orb: where main puts it (main/index.js, place.js) *)
(* and how the renderer lays it out and unfolds the panel (app.js).  Main  *)
(* never hears what the renderer draws; the renderer learns a corner from  *)
(* an answer or from a push, both of them on one channel.                  *)
(*                                                                         *)
(* Width and height are decided apart, by the same arithmetic, so there is *)
(* one axis here: TRUE is the far side (panelSide "right", or "below").    *)
(***************************************************************************)
EXTENDS Integers, Sequences

CONSTANTS Widths,      \* the work areas a display may have
          Panel,       \* the panel's own width
          Pad,         \* the stage's padding
          BetterBy,    \* how much roomier the other corner must be
          MaxWire,     \* messages on their way to the renderer
          MaxScale     \* steps of the orb's size

Scales == 1 .. MaxScale

\* No display is as narrow as the character at its biggest (SCALE_MAX times
\* CHARACTER_BASE, 288 pixels).
ASSUME StageBounds ==
  /\ Panel \in Nat /\ Pad \in Nat /\ BetterBy \in Nat /\ {MaxWire, MaxScale} \subseteq Nat /\ Widths \subseteq Nat
  /\ \A w \in Widths : 2 * MaxScale + 1 < w

VARIABLES
  work,       \* the width of the work area
  settled,    \* the window was checked since the displays changed
  win,        \* the bounds of the window
  far,        \* panelHow
  scale,      \* orbScale, in main
  centre,     \* orbAnchor, doubled
  carried,    \* a drag is on
  open,       \* panelOpen, in main
  wire,       \* to the renderer, in order
  view,       \* the renderer: what it believes, and what it draws
  parked      \* where the orb was last put on purpose, and at which scale

stageVars == <<work, settled, win, far, scale, centre, carried, open, wire, view, parked>>
place == <<win, far, scale, centre, open, parked>>

(***************************************************************************)
(* place.js                                                                *)
(***************************************************************************)
Char(s) == 2 * s + 1
ShadowRoom(s) == s
Slack(s) == 2 * Pad + ShadowRoom(s)
OrbSize(s) == Char(s) + Slack(s)
PanelSize(s) == Panel + ShadowRoom(s)
Lesser(a, b) == IF a < b THEN a ELSE b
Greater(a, b) == IF a > b THEN a ELSE b

\* offsetInWindow: where the character is in a window.
Offset(w, s, f) == IF f THEN Pad ELSE w - Pad - ShadowRoom(s) - Char(s)
At == win.x + Offset(win.w, scale, far)

\* roomFor: the widest window whose panel is still on the screen.
RoomFor(at, s, f) == IF f THEN work' - at + Slack(s) ELSE at + Char(s) + Slack(s)

\* chooseSide: the corner in use is kept unless the other one is better by far.
ChooseSide(at, s) ==
  IF RoomFor(at, s, ~far) > RoomFor(at, s, far) + BetterBy THEN ~far ELSE far
Narrowed(at, s, f) == Greater(0, Lesser(PanelSize(s), RoomFor(at, s, f)))

\* clampInto, for a window that ends at the character.
Clamped(at, s) == Lesser(Greater(at, 0), work' - Char(s))

(***************************************************************************)
(* Main                                                                    *)
(***************************************************************************)

\* A panel that always finds its window as wide as it likes to be.
PlacesWide(at, s, isOpen) ==
  LET f == IF isOpen THEN ChooseSide(at, s) ELSE far
      w == IF isOpen THEN PanelSize(s) ELSE OrbSize(s)
  IN  far' = f /\ win' = [x |-> at - Offset(w, s, f), w |-> w]

\* placeAround: the window is built around a character that does not move.
PlaceAround(at, s, isOpen) ==
  LET f == IF isOpen THEN ChooseSide(at, s) ELSE far
      w == IF isOpen THEN Narrowed(at, s, f) ELSE OrbSize(s)
  IN  far' = f /\ win' = [x |-> at - Offset(w, s, f), w |-> w]

\* syncCorner, and the state push it makes.
Push == [t |-> "push", far |-> far', open |-> open']
Tells == far' # far \/ open' # open
Says(msgs) == wire' = wire \o msgs

StageInit ==
  /\ work \in Widths /\ settled = TRUE
  /\ far = FALSE /\ scale \in Scales /\ open = FALSE /\ carried = FALSE
  /\ LET at == work - Char(scale) - 1
     IN  /\ win = [x |-> at - Offset(OrbSize(scale), scale, FALSE), w |-> OrbSize(scale)]
         /\ centre = 2 * at + Char(scale)
         /\ parked = [at |-> at, scale |-> scale, work |-> work]
  /\ wire = <<>>
  /\ view = [phase |-> "rest", open |-> FALSE, far |-> FALSE, shown |-> FALSE,
             orb |-> scale, pump |-> "rest"]

\* setPanelOpen, for the renderer and for the dock menu.
SetPanelOpen(isOpen, answer) ==
  /\ UNCHANGED <<work, scale, centre, parked>>
  /\ open' = isOpen /\ PlaceAround(At, scale, isOpen)
  /\ Says(<<Push>> \o answer)

\* The orb is where it was dragged, or was put back: this is where it wants to be.
AnchorHere(at, s) ==
  centre' = 2 * at + Char(s) /\ parked' = [at |-> at, scale |-> s, work |-> work']

\* One frame of a drag, wherever the hand is by then.
DragFrame(to) ==
  /\ carried /\ Len(wire) < MaxWire
  /\ UNCHANGED <<work, settled, scale, open, carried, view>>
  /\ PlaceAround(Clamped(to, scale), scale, open)
  /\ AnchorHere(Clamped(to, scale), scale)
  /\ Says(IF Tells THEN <<Push>> ELSE <<>>)

DragStart == ~carried /\ carried' = TRUE
             /\ UNCHANGED <<work, settled, win, far, scale, centre, open, wire, view, parked>>
DragEnd == carried /\ carried' = FALSE
           /\ UNCHANGED <<work, settled, win, far, scale, centre, open, wire, view, parked>>

\* The anchor before it was remembered: wherever the orb is.
CentreNow(s) == 2 * At + Char(s)
Centre(s) == centre

\* setOrbScale: from the place the orb wants, not from the one it has.
SetOrbScale(s) ==
  /\ UNCHANGED <<work, open, centre, parked>> /\ scale' = s
  /\ LET at == Clamped((Centre(scale) - Char(s) + 1) \div 2, s)
     IN  PlaceAround(at, s, open)
  /\ Says((IF Tells THEN <<Push>> ELSE <<>>) \o <<[t |-> "scale", scale |-> s]>>)

\* "Open the chat" in the dock: the renderer finds out from the push.
DockOpen ==
  /\ Len(wire) < MaxWire /\ ~open
  /\ SetPanelOpen(TRUE, <<>>)
  /\ UNCHANGED <<settled, carried, view>>

\* A display comes, goes or changes; recenter follows when the layout settles.
DisplayChanges(w) ==
  /\ w # work /\ work' = w /\ settled' = FALSE
  /\ parked' = [parked EXCEPT !.work = 0]
  /\ UNCHANGED <<win, far, scale, centre, carried, open, wire, view>>

Recenter ==
  /\ ~settled /\ settled' = TRUE
  /\ UNCHANGED <<work, far, scale, open, carried, wire, view>>
  /\ LET at == Clamped(At, scale)
     IN  /\ win' = [win EXCEPT !.x = @ + (at - At)]
         /\ IF at # At THEN AnchorHere(at, scale) ELSE UNCHANGED <<centre, parked>>

(***************************************************************************)
(* The renderer: setPanel                                                  *)
(***************************************************************************)
Busy == view.phase # "rest"
Draws(v) == view' = v /\ UNCHANGED <<work, settled, carried, wire>> /\ UNCHANGED place

\* Opening: asks which corner it will be, while the window is still small.
OpenPanel ==
  /\ ~Busy /\ ~view.open /\ Len(wire) < MaxWire
  /\ view' = [view EXCEPT !.phase = "aim"]
  /\ UNCHANGED work
  /\ Says(<<[t |-> "aim", far |-> ChooseSide(At, scale)]>>)
  /\ UNCHANGED <<settled, carried>> /\ UNCHANGED place

OpenWindow ==
  /\ view.phase = "faced" /\ view' = [view EXCEPT !.phase = "open"]
  /\ SetPanelOpen(TRUE, <<[t |-> "opened", far |-> far']>>)
  /\ UNCHANGED <<settled, carried>>

\* The window's new size has been painted; the panel unfolds.
Unfold == view.phase = "opened" /\ Draws([view EXCEPT !.phase = "unfolds", !.shown = TRUE])
Unfolded == view.phase = "unfolds" /\ Draws([view EXCEPT !.phase = "rest"])

\* Closing: a frame without the panel first, the window after it.
ClosePanel ==
  /\ ~Busy /\ view.open
  /\ Draws([view EXCEPT !.phase = "folds", !.shown = FALSE, !.open = FALSE])
CloseWindow ==
  /\ view.phase = "folds" /\ view' = [view EXCEPT !.phase = "close"]
  /\ SetPanelOpen(FALSE, <<[t |-> "closed"]>>)
  /\ UNCHANGED <<settled, carried>>

\* pumpScale: whichever is bigger goes first.
Wheel(s) ==
  /\ view.pump = "rest" /\ s # view.orb /\ Len(wire) < MaxWire
  /\ view' = [view EXCEPT !.pump = "asks", !.orb = Lesser(s, @)]
  /\ SetOrbScale(s) /\ UNCHANGED <<settled, carried>>

\* render(): a push in the middle of a transition turns nothing.
Rendered(m) ==
  [view EXCEPT !.open = m.open,
               !.far = IF Busy THEN @ ELSE m.far,
               !.shown = IF Busy THEN @ ELSE m.open]

Hears ==
  /\ wire # <<>> /\ wire' = Tail(wire)
  /\ LET m == Head(wire)
     IN view' = CASE m.t = "push" -> Rendered(m)
                  [] m.t = "aim" -> [view EXCEPT !.phase = "faced", !.far = m.far]
                  [] m.t = "opened" -> [view EXCEPT !.phase = "opened", !.far = m.far, !.open = TRUE]
                  [] m.t = "closed" -> [view EXCEPT !.phase = "rest"]
                  [] m.t = "scale" -> [view EXCEPT !.pump = "rest", !.orb = m.scale]
  /\ UNCHANGED <<work, settled, carried>> /\ UNCHANGED place

StageNext ==
  \/ DragStart \/ DragEnd \/ \E to \in -1..work : DragFrame(to)
  \/ \E s \in Scales : Wheel(s)
  \/ \E w \in Widths : DisplayChanges(w)
  \/ DockOpen \/ Recenter
  \/ OpenPanel \/ OpenWindow \/ Unfold \/ Unfolded \/ ClosePanel \/ CloseWindow \/ Hears

StageSpec == StageInit /\ [][StageNext]_stageVars

(***************************************************************************)
(* Properties                                                              *)
(***************************************************************************)
StageTypeOK ==
  /\ work \in Widths /\ scale \in Scales /\ view.orb \in Scales
  /\ {settled, far, carried, open, view.open, view.far, view.shown} \subseteq BOOLEAN
  /\ win \in [x : Int, w : Nat] /\ centre \in Int
  /\ view.phase \in {"rest", "aim", "faced", "open", "opened", "unfolds", "folds", "close"}

\* The character is on the screen whenever the displays have settled, wherever it
\* was dragged, however it grew and whichever corner the panel took (place.js:4-17).
OrbOnScreen == settled => At >= 0 /\ At + Char(scale) <= work

\* "Growing against an edge is then exactly undone by shrinking again": at the scale
\* it was put down with, the orb is where it was put down (index.js:98-110).
ComesBack == parked.scale = scale /\ parked.work = work => At = parked.at

\* "The ORB does not move": opening and closing the panel leave it where it is, and
\* an open panel is inside the screen then (setPanelOpen, roomFor).
OpensAround ==
  [][ open' # open /\ settled =>
        /\ At' = At
        /\ open' => IF far' THEN At' + win'.w - Slack(scale) <= work
                             ELSE At' + Char(scale) - win'.w + Slack(scale) >= 0 ]_stageVars

\* "Main decides it from the room on screen; the renderer flips the stage to match"
\* (state.js:11): with nothing on its way and nothing unfolding, both have one corner.
StageFacesTheCorner == ~Busy /\ wire = <<>> /\ open => view.far = far
==================================================================================
