--------------------------------- MODULE Sensor ---------------------------------
(***************************************************************************)
(* fren's eye on the browser: the extension (browser-extension/) and the   *)
(* sensor it posts to (main/browser-sensor.js).  Both ends censor: the     *)
(* extension by the policy its last heartbeat brought, the sensor by the   *)
(* policy of the moment.                                                   *)
(*                                                                         *)
(* Every event is a POST of its own, so they arrive in any order, or not.  *)
(* The worker of the extension sleeps when it can and forgets its policy;  *)
(* the pages of two windows are both somebody's active tab.                *)
(***************************************************************************)
EXTENDS Naturals, FiniteSets

CONSTANTS Tabs, Sites,
          Private,      \* the sites the person may tell it not to read
          NoSite,       \* a tab that shows nothing
          MaxPosts      \* posts under way

ASSUME SensorBounds == Private \subseteq Sites /\ NoSite \notin Sites /\ MaxPosts \in Nat

VARIABLES
  shows,      \* tab -> the site in it
  front,      \* the tab the person is in
  cached,     \* the policy the extension knows
  rules,      \* the policy of the sensor: the settings, and the light
  posts,      \* events on their way
  connected,
  holds        \* what the sensor holds

sensorVars == <<shows, front, cached, rules, posts, connected, holds>>

Policies == [on : BOOLEAN, page : BOOLEAN, sel : BOOLEAN, out : SUBSET Sites]
Nothing == [tab |-> NoSite]
Held(tab, site, url, content, sel, barred) ==
  [tab |-> tab, site |-> site, url |-> url, content |-> content, sel |-> sel, barred |-> barred]
Page(tab, site, url, content) ==
  [type |-> "page", tab |-> tab, site |-> site, url |-> url, content |-> content]
Selected(tab, site) == [type |-> "selection", tab |-> tab, site |-> site]
Closed(tab) == [type |-> "closed", tab |-> tab]

SensorTypeOK ==
  /\ shows \in [Tabs -> Sites \union {NoSite}] /\ front \in Tabs
  /\ cached \in Policies /\ rules \in Policies /\ connected \in BOOLEAN
  /\ Cardinality(posts) <= MaxPosts
  /\ \/ holds = Nothing
     \/ holds \in [tab : Tabs, site : Sites, url : BOOLEAN, content : BOOLEAN, barred : BOOLEAN,
                  sel : {NoSite} \union (Tabs \X Sites)]

SensorInit ==
  /\ shows = [t \in Tabs |-> NoSite] /\ front \in Tabs
  /\ rules \in [on : {FALSE}, page : {TRUE}, sel : {TRUE}, out : {{}}]
  /\ cached = [on |-> TRUE, page |-> TRUE, sel |-> TRUE, out |-> {}]
  /\ posts = {} /\ connected = FALSE /\ holds = Nothing

(***************************************************************************)
(* The extension.                                                          *)
(***************************************************************************)

Post(m) == posts' = posts \union {m} /\ Cardinality(posts') <= MaxPosts

\* The policy an extension wakes with: everything is allowed.
Awake == [on |-> TRUE, page |-> TRUE, sel |-> TRUE, out |-> {}]

\* permitted(): an excluded site is a domain and nothing more.
Permitted(t, d, content) ==
  IF d \in cached.out THEN Page(t, d, FALSE, FALSE)
                      ELSE Page(t, d, TRUE, content /\ cached.page)

\* A page of the tab in front loads, settles or changes; or the tab has no script,
\* and its address is all there is.
Snapshot(t, d) ==
  \/ d # NoSite /\ cached.on /\ \E content \in BOOLEAN : Post(Permitted(t, d, content))
  \/ (d = NoSite \/ ~cached.on) /\ UNCHANGED posts

Navigate(d) ==
  /\ shows' = [shows EXCEPT ![front] = d] /\ Snapshot(front, d)
  /\ UNCHANGED <<front, cached, rules, connected, holds>>

Activate(t) ==
  /\ front # t /\ front' = t /\ Snapshot(t, shows[t])
  /\ UNCHANGED <<shows, cached, rules, connected, holds>>

\* Another window comes to the front: its tab is not asked what it shows.
Window(t) ==
  /\ front # t /\ front' = t
  /\ UNCHANGED <<shows, cached, rules, posts, connected, holds>>

\* A selection is not asked where it was made.
Select ==
  /\ shows[front] # NoSite /\ cached.on /\ cached.sel /\ Post(Selected(front, shows[front]))
  /\ UNCHANGED <<shows, front, cached, rules, connected, holds>>

CloseTab(t) ==
  /\ shows[t] # NoSite /\ shows' = [shows EXCEPT ![t] = NoSite] /\ Post(Closed(t))
  /\ UNCHANGED <<front, cached, rules, connected, holds>>

\* The policy rides the heartbeat.
Beat ==
  /\ cached' = rules /\ connected' = TRUE
  /\ UNCHANGED <<shows, front, rules, posts, holds>>

Sleep ==
  /\ cached # Awake /\ cached' = Awake
  /\ UNCHANGED <<shows, front, rules, posts, connected, holds>>

(***************************************************************************)
(* The sensor.                                                             *)
(***************************************************************************)

\* pageSnapshot, as if the extension's own censorship were enough.
TakesThePage(m) ==
  Held(m.tab, m.site, m.url, m.content,
       IF holds # Nothing /\ holds.tab = m.tab /\ holds.site = m.site THEN holds.sel ELSE NoSite,
       FALSE)

\* A selection does not survive its page; an address that is not held is the same as none.
SamePage(m) ==
  IF holds # Nothing /\ holds.tab = m.tab /\ holds.url = m.url /\ (m.url => holds.site = m.site)
  THEN holds.sel ELSE NoSite

\* pageSnapshot: the second enforcement.
Takes(m) ==
  IF m.site \in rules.out
  THEN Held(m.tab, m.site, FALSE, FALSE, SamePage(m), TRUE)
  ELSE Held(m.tab, m.site, m.url, m.content /\ rules.page, SamePage(m), FALSE)

Arrives(m) ==
  /\ m \in posts /\ posts' = posts \ {m}
  /\ IF ~rules.on
     THEN UNCHANGED <<connected, holds>>
     ELSE \/ /\ m.type = "page" /\ connected' = TRUE /\ holds' = Takes(m)
          \/ /\ m.type = "selection" /\ UNCHANGED connected
             /\ holds' = IF rules.sel /\ holds # Nothing /\ ~holds.barred
                        THEN [holds EXCEPT !.sel = <<m.tab, m.site>>] ELSE holds
          \/ /\ m.type = "closed" /\ UNCHANGED connected
             /\ holds' = IF holds.tab = m.tab THEN Nothing ELSE holds
  /\ UNCHANGED <<shows, front, cached, rules>>

Lost(m) ==
  /\ m \in posts /\ posts' = posts \ {m}
  /\ UNCHANGED <<shows, front, cached, rules, connected, holds>>

\* configure(): the settings' sentences are true at once, of the page that is held.
Configure(p) ==
  /\ rules' = p
  /\ holds' = IF holds = Nothing \/ ~p.on THEN Nothing
             ELSE IF holds.site \in p.out
             THEN Held(holds.tab, holds.site, FALSE, FALSE, NoSite, TRUE)
             ELSE [holds EXCEPT !.content = @ /\ p.page,
                               !.sel = IF p.sel THEN @ ELSE NoSite]
  /\ UNCHANGED <<shows, front, cached, posts, connected>>

\* No heartbeat for long enough: the browser is gone, and so is its page.
Stale ==
  /\ connected /\ connected' = FALSE /\ holds' = Nothing
  /\ UNCHANGED <<shows, front, cached, rules, posts>>

SensorNext ==
  \/ \E d \in Sites : Navigate(d)
  \/ \E t \in Tabs : Activate(t) \/ Window(t) \/ CloseTab(t)
  \/ Select \/ Beat \/ Sleep \/ Stale
  \/ \E m \in posts : Arrives(m) \/ Lost(m)
  \/ Configure([rules EXCEPT !.on = ~@])
  \/ Configure([rules EXCEPT !.page = ~@])
  \/ Configure([rules EXCEPT !.sel = ~@])
  \/ \E d \in Private : Configure([rules EXCEPT !.out = (@ \ {d}) \union ({d} \ @)])

SensorSpec == SensorInit /\ [][SensorNext]_sensorVars

(***************************************************************************)
(* Properties                                                              *)
(***************************************************************************)

\* "a paused fren HOLDS nothing"; of the page it holds, if it is of a site it was told
\* not to read, it holds the domain and no more, and what it was told not to take of any
\* page, text or selections, it does not hold, whatever was on its way when it was told
\* and whatever policy the extension still believes in. Of a selection it says only that
\* selections may be taken: it may have been made on another page than the one held.
HoldsWhatItMay ==
  holds # Nothing => /\ rules.on
                     /\ holds.site \in rules.out => ~holds.url /\ ~holds.content
                     /\ holds.content => rules.page
                     /\ holds.sel # NoSite => rules.sel

\* "fren enforces the same rules again on its side" (background.js:12): a selection made
\* on a site both ends know to be excluded changes nothing of what is held (does not hold
\* where another page is held: the one of the window the person was in before, or one
\* whose successor was lost or comes later; selection, pageSnapshot).
ExcludedIsNotTaken ==
  [][ \A m \in posts \ posts' :
        m.type = "selection" /\ m.site \in rules.out \intersect cached.out
        => holds' = holds ]_sensorVars

\* "excluded domains never leave the browser" (background.js:10): of a site both
\* ends know to be excluded, a page goes without its address, and nothing else goes
\* (does not hold: a selection goes).
ExcludedStaysHome ==
  [][ \A m \in posts' \ posts :
        m.type # "closed" /\ m.site \in rules.out \intersect cached.out
        => m.type = "page" /\ ~m.url ]_sensorVars
=============================================================================
