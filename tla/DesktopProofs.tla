---------------------------- MODULE DesktopProofs ----------------------------
(***************************************************************************)
(* What is proved of the desktop, for every value of the constants: what   *)
(* the person ruled holds, what fren does of its own accord it does once,  *)
(* the orb can be reached, and no click or word does more than it says.    *)
(* The parts keep no variable in common, so each has an invariant of its   *)
(* own, and a step of the desktop is a step of one part or of none.        *)
(***************************************************************************)
EXTENDS MCDesktop, FiniteSetTheorems, WellFoundedInduction, TLAPS

(* A set of numbers that is not empty has a least.                         *)
LEMMA LeastOf ==
  ASSUME NEW S, S \subseteq Nat, S # {}
  PROVE  \E x \in S : \A y \in S : x <= y
<1>1. \E x \in S : \A y \in S : ~ (<<y, x>> \in OpToRel(<, Nat))
  BY NatLessThanWellFounded, WFMin
<1>2. PICK x \in S : \A y \in S : ~ (<<y, x>> \in OpToRel(<, Nat))
  BY <1>1
<1>3. ASSUME NEW y \in S, y < x PROVE FALSE
  <2>1. <<y, x>> \in OpToRel(<, Nat)
    BY <1>3, Zenon DEF OpToRel
  <2> QED
    BY <1>2, <2>1
<1>4. x \in Nat /\ \A y \in S : y \in Nat
  OBVIOUS
<1>5. \A y \in S : x <= y
  BY <1>3, <1>4
<1> QED
  BY <1>5

(***************************************************************************)
(* Observing                                                               *)
(***************************************************************************)
Kept == [there : BOOLEAN, dark : BOOLEAN, done : BOOLEAN, old : BOOLEAN]

(* What one row says and how many memories it went into agree; a row that  *)
(* a summary under way is about was not summarised yet.                    *)
RowAgrees(row, c) ==
  row.there => /\ row.done => c >= 1
               /\ launches = 0 => c = (IF row.done THEN 1 ELSE 0)
ObsvInv ==
  /\ light \in BOOLEAN /\ sample \in {"idle", "asked", "read"} /\ sawDark \in BOOLEAN
  /\ rows \in [Rows -> Kept] /\ batch \subseteq Rows /\ covers \in [Rows -> 0..2]
  /\ launches \in 0..MaxLaunches
  /\ \A i \in Rows : RowAgrees(rows[i], covers[i])
  /\ \A i \in batch : rows[i].there => ~rows[i].done

LEMMA ObsvFollows == ObsvInv => ObsvTypeOK /\ SummedOnce
<1> SUFFICES ASSUME ObsvInv PROVE ObsvTypeOK /\ SummedOnce
  OBVIOUS
<1>1. ObsvTypeOK
  BY DEF ObsvInv, ObsvTypeOK, Kept
<1>2. SummedOnce
  BY DEF ObsvInv, SummedOnce, RowAgrees
<1> QED
  BY <1>1, <1>2

LEMMA EmptyIs == EmptyRow \in Kept /\ ~EmptyRow.there /\ ~EmptyRow.old
<1>1. EmptyRow \in Kept
  BY Zenon DEF EmptyRow, Kept
<1> QED
  BY <1>1 DEF EmptyRow

LEMMA PrunedIs ==
  ASSUME ObsvInv
  PROVE  /\ Pruned \in [Rows -> Kept]
         /\ \A i \in Rows : Pruned[i].there => Pruned[i] = rows[i]
  BY EmptyIs DEF ObsvInv, Pruned

LEMMA ObsvStarts == ObsvInit => ObsvInv
<1> SUFFICES ASSUME ObsvInit PROVE ObsvInv
  OBVIOUS
<1>1. light \in BOOLEAN /\ sawDark \in BOOLEAN
  BY Zenon DEF ObsvInit
<1>2. rows \in [Rows -> Kept] /\ covers \in [Rows -> 0..2] /\ \A i \in Rows : ~rows[i].there
  BY EmptyIs DEF ObsvInit
<1> QED
  BY <1>1, <1>2, ObservingAssumption DEF ObsvInit, ObsvInv, RowAgrees

LEMMA RecordedKeeps == ASSUME ObsvInv, Recorded PROVE ObsvInv'
<1>1. sample' = "idle" /\ sawDark' \in BOOLEAN /\ UNCHANGED <<light, batch, launches>>
  <2>1. sawDark' \in BOOLEAN
    BY Zenon DEF Recorded
  <2> QED
    BY <2>1 DEF Recorded
<1>2. CASE UNCHANGED <<rows, covers>>
  BY <1>1, <1>2 DEF ObsvInv, RowAgrees
<1>3. CASE /\ MayRecord /\ Free # {}
           /\ rows' = [rows EXCEPT ![FirstOf(Free)] =
                [there |-> TRUE, dark |-> sawDark, done |-> FALSE, old |-> FALSE]]
           /\ covers' = [covers EXCEPT ![FirstOf(Free)] = 0]
  <2>1. Free \subseteq Nat /\ Free # {}
    BY <1>3, ObservingAssumption DEF Free
  <2>2. \E i \in Free : \A j \in Free : i <= j
    BY <2>1, LeastOf
  <2>3. FirstOf(Free) \in Free
    BY <2>2 DEF FirstOf
  <2>4. PICK f : f = FirstOf(Free) /\ f \in Rows /\ f \notin batch
    BY <2>3 DEF Free
  <2>5. PICK n : n = [there |-> TRUE, dark |-> sawDark, done |-> FALSE, old |-> FALSE]
    OBVIOUS
  <2>6. n \in Kept
    <3>1. sawDark \in BOOLEAN
      BY Zenon DEF ObsvInv
    <3> QED
      BY <2>5, <3>1, Zenon DEF Kept
  <2>7. ~n.done
    BY <2>5
  <2>8. rows' = [rows EXCEPT ![f] = n] /\ covers' = [covers EXCEPT ![f] = 0]
    BY <1>3, <2>4, <2>5, Zenon
  <2>9. rows' \in [Rows -> Kept] /\ covers' \in [Rows -> 0..2]
    BY <2>4, <2>6, <2>8 DEF ObsvInv
  <2>10. \A i \in Rows : RowAgrees(rows'[i], covers'[i])
    BY <2>4, <2>7, <2>8 DEF ObsvInv, RowAgrees
  <2>11. \A i \in batch : rows'[i].there => ~rows'[i].done
    BY <2>4, <2>8 DEF ObsvInv
  <2> QED
    BY <1>1, <2>9, <2>10, <2>11 DEF ObsvInv, RowAgrees
<1> QED
  BY <1>2, <1>3, Zenon DEF Recorded

(* The summary is there: its rows are in one memory more, and are marked.  *)
LEMMA SummarisedKeeps == ASSUME ObsvInv, Summarised PROVE ObsvInv'
<1>1. covers' = Covered /\ rows' = Marked /\ batch' = {} /\ UNCHANGED <<light, sample, sawDark, launches>>
  BY DEF Summarised, senses
<1>2. covers' \in [Rows -> 0..2]
  BY <1>1 DEF Covered, ObsvInv
<1>3. \A i \in Rows : rows[i] \in Kept /\ [rows[i] EXCEPT !.done = TRUE] \in Kept
  BY DEF ObsvInv, Kept
<1>4. rows' \in [Rows -> Kept]
  BY <1>1, <1>3 DEF Marked
<1>5. ASSUME NEW i \in Rows PROVE RowAgrees(rows'[i], covers'[i])
  <2>1. CASE i \in batch /\ rows[i].there
    <3>1. rows'[i].done
      BY <1>1, <1>3, <2>1 DEF Marked, Kept
    <3>2. covers[i] \in 0..2 /\ covers'[i] = IF covers[i] < 2 THEN covers[i] + 1 ELSE covers[i]
      BY <1>1, <2>1 DEF Covered, ObsvInv
    <3>3. covers'[i] >= 1
      BY <3>2
    <3>4. launches = 0 => covers[i] = 0
      BY <2>1 DEF ObsvInv, RowAgrees
    <3>5. launches = 0 => covers'[i] = 1
      BY <3>2, <3>4
    <3> QED
      BY <3>1, <3>3, <3>5 DEF RowAgrees
  <2>2. CASE i \notin batch
    <3>1. rows'[i] = rows[i] /\ covers'[i] = covers[i]
      BY <1>1, <2>2 DEF Marked, Covered
    <3> QED
      BY <3>1 DEF ObsvInv
  <2>3. CASE ~rows[i].there
    <3>1. rows'[i] = rows[i]
      BY <1>1, <2>3 DEF Marked
    <3> QED
      BY <2>3, <3>1 DEF RowAgrees
  <2> QED
    BY <2>1, <2>2, <2>3
<1> QED
  BY <1>1, <1>2, <1>4, <1>5 DEF ObsvInv, RowAgrees

LEMMA RelaunchKeeps == ASSUME ObsvInv, Relaunch PROVE ObsvInv'
<1>1. rows' = Pruned /\ batch' = {} /\ sample' = "idle" /\ covers' \in {covers, Covered}
  BY DEF Relaunch, Retention
<1>2. light' \in BOOLEAN /\ sawDark' \in BOOLEAN
  BY Zenon DEF Relaunch
<1>3. launches' \in 0..MaxLaunches /\ launches' # 0
  BY ObservingAssumption DEF Relaunch, ObsvInv
<1>4. covers' \in [Rows -> 0..2] /\ \A i \in Rows : covers'[i] >= covers[i]
  BY <1>1 DEF Covered, ObsvInv
<1>5. \A i \in Rows : rows'[i].there => rows'[i] = rows[i]
  BY <1>1, PrunedIs
<1>6. ASSUME NEW i \in Rows PROVE rows'[i].there => (rows'[i].done => covers'[i] >= 1)
  <2>1. covers[i] \in 0..2 /\ covers'[i] \in 0..2 /\ covers'[i] >= covers[i]
    BY <1>4 DEF ObsvInv
  <2>2. rows'[i].there /\ rows'[i].done => covers[i] >= 1
    BY <1>5 DEF ObsvInv, RowAgrees
  <2> QED
    BY <2>1, <2>2
<1> QED
  BY <1>1, <1>2, <1>3, <1>4, <1>6, PrunedIs DEF ObsvInv, RowAgrees

LEMMA ObsvKeeps == ObsvInv /\ ObsvNext => ObsvInv'
<1> SUFFICES ASSUME ObsvInv, ObsvNext PROVE ObsvInv'
  OBVIOUS
<1>1. CASE Switch \/ Tick \/ FrontWindowRead
  <2>1. light' \in BOOLEAN /\ sawDark' \in BOOLEAN
    BY <1>1, Zenon DEF Switch, Tick, FrontWindowRead, ObsvInv
  <2> QED
    BY <1>1, <2>1 DEF Switch, Tick, FrontWindowRead, table, ObsvInv, RowAgrees
<1>2. CASE Recorded
  BY <1>2, RecordedKeeps
<1>3. CASE \E i \in Rows : Ages(i)
  <2>1. PICK i \in Rows : Ages(i)
    BY <1>3
  <2>2. rows[i] \in Kept
    BY DEF ObsvInv
  <2>3. PICK o : o = [rows[i] EXCEPT !.old = TRUE]
    OBVIOUS
  <2>4. o \in Kept /\ o.there = rows[i].there /\ o.done = rows[i].done
    BY <2>2, <2>3 DEF Kept
  <2>5. rows' = [rows EXCEPT ![i] = o]
    BY <2>1, <2>3, Zenon DEF Ages
  <2>6. rows' \in [Rows -> Kept]
    BY <2>4, <2>5 DEF ObsvInv
  <2>7. \A j \in Rows : rows'[j].there = rows[j].there /\ rows'[j].done = rows[j].done
    BY <2>4, <2>5 DEF ObsvInv
  <2> QED
    BY <2>1, <2>6, <2>7 DEF Ages, senses, ObsvInv, RowAgrees
<1>4. CASE Interval
  <2>1. rows' = Pruned /\ batch' = (IF MaySummarize THEN Unsummed ELSE batch) /\ UNCHANGED <<light, sample, sawDark, covers, launches>>
    BY <1>4 DEF Interval, Retention, senses
  <2>2. \A i \in Rows : rows'[i].there => rows'[i] = rows[i]
    BY <2>1, PrunedIs
  <2>3. batch' \subseteq Rows /\ \A i \in batch' : rows'[i].there => ~rows'[i].done
    BY <2>1, <2>2 DEF Unsummed, ObsvInv
  <2> QED
    BY <2>1, <2>2, <2>3, PrunedIs DEF ObsvInv, RowAgrees
<1>5. CASE Summarised
  BY <1>5, SummarisedKeeps
<1>6. CASE SummaryFails
  BY <1>6 DEF SummaryFails, senses, ObsvInv, RowAgrees
<1>7. CASE Relaunch
  BY <1>7, RelaunchKeeps
<1> QED
  BY <1>1, <1>2, <1>3, <1>4, <1>5, <1>6, <1>7, Zenon DEF ObsvNext

LEMMA ObsvStays == ObsvInv /\ UNCHANGED obsvVars => ObsvInv'
  BY DEF obsvVars, senses, table, ObsvInv, RowAgrees

(***************************************************************************)
(* The sensor                                                              *)
(***************************************************************************)
PagePosts == [type : {"page"}, tab : Tabs, site : Sites, url : BOOLEAN, content : BOOLEAN]
SelectionPosts == [type : {"selection"}, tab : Tabs, site : Sites]
ClosedPosts == [type : {"closed"}, tab : Tabs]
Posts == PagePosts \union SelectionPosts \union ClosedPosts
HeldPages == [tab : Tabs, site : Sites, url : BOOLEAN, content : BOOLEAN, barred : BOOLEAN,
              sel : {NoSite} \union (Tabs \X Sites)]

SensorInv ==
  /\ shows \in [Tabs -> Sites \union {NoSite}] /\ front \in Tabs
  /\ cached \in Policies /\ rules \in Policies /\ connected \in BOOLEAN
  /\ posts \subseteq Posts /\ IsFiniteSet(posts) /\ Cardinality(posts) <= MaxPosts
  /\ holds = Nothing \/ holds \in HeldPages
  /\ HoldsWhatItMay

LEMMA SensorFollows == SensorInv => SensorTypeOK
  BY DEF SensorInv, SensorTypeOK, HeldPages

LEMMA PostKinds ==
  /\ \A t \in Tabs, d \in Sites, u, c \in BOOLEAN : Page(t, d, u, c) \in Posts
  /\ \A t \in Tabs, d \in Sites : Selected(t, d) \in Posts
  /\ \A t \in Tabs : Closed(t) \in Posts
<1>1. ASSUME NEW t \in Tabs, NEW d \in Sites, NEW u \in BOOLEAN, NEW c \in BOOLEAN PROVE Page(t, d, u, c) \in Posts
  BY Zenon DEF Page, Posts, PagePosts
<1>2. ASSUME NEW t \in Tabs, NEW d \in Sites PROVE Selected(t, d) \in Posts
  BY Zenon DEF Selected, Posts, SelectionPosts
<1>3. ASSUME NEW t \in Tabs PROVE Closed(t) \in Posts
  BY Zenon DEF Closed, Posts, ClosedPosts
<1> QED
  BY <1>1, <1>2, <1>3

LEMMA PostForms ==
  ASSUME NEW m \in Posts
  PROVE  /\ m.type \in {"page", "selection", "closed"} /\ m.tab \in Tabs
         /\ m.type = "page" => m.site \in Sites /\ m.url \in BOOLEAN /\ m.content \in BOOLEAN
         /\ m.type = "selection" => m.site \in Sites
  BY DEF Posts, PagePosts, SelectionPosts, ClosedPosts

LEMMA RulesAre ==
  ASSUME NEW p \in Policies
  PROVE  /\ p.on \in BOOLEAN /\ p.page \in BOOLEAN /\ p.sel \in BOOLEAN /\ p.out \subseteq Sites
         /\ [p EXCEPT !.on = ~@] \in Policies /\ [p EXCEPT !.page = ~@] \in Policies
         /\ [p EXCEPT !.sel = ~@] \in Policies
         /\ \A d \in Private : [p EXCEPT !.out = (@ \ {d}) \union ({d} \ @)] \in Policies
<1>1. p.out \subseteq Sites /\ p.on \in BOOLEAN /\ p.page \in BOOLEAN /\ p.sel \in BOOLEAN
  BY DEF Policies
<1>2. [p EXCEPT !.on = ~@] \in Policies /\ [p EXCEPT !.page = ~@] \in Policies /\ [p EXCEPT !.sel = ~@] \in Policies
  BY DEF Policies
<1>3. ASSUME NEW d \in Private PROVE [p EXCEPT !.out = (@ \ {d}) \union ({d} \ @)] \in Policies
  <2>1. (p.out \ {d}) \union ({d} \ p.out) \in SUBSET Sites
    BY <1>1, SensorBounds
  <2> QED
    BY <2>1 DEF Policies
<1> QED
  BY <1>1, <1>2, <1>3

LEMMA PostKeeps ==
  ASSUME SensorInv, NEW m \in Posts, Post(m)
  PROVE  posts' \subseteq Posts /\ IsFiniteSet(posts') /\ Cardinality(posts') <= MaxPosts
<1>1. IsFiniteSet(posts \union {m})
  BY FS_AddElement DEF SensorInv
<1> QED
  BY <1>1 DEF Post, SensorInv

LEMMA SnapshotKeeps ==
  ASSUME SensorInv, NEW t \in Tabs, NEW d \in Sites \union {NoSite}, Snapshot(t, d)
  PROVE  posts' \subseteq Posts /\ IsFiniteSet(posts') /\ Cardinality(posts') <= MaxPosts
<1>1. ASSUME d # NoSite, NEW content \in BOOLEAN, Post(Permitted(t, d, content))
      PROVE posts' \subseteq Posts /\ IsFiniteSet(posts') /\ Cardinality(posts') <= MaxPosts
  <2>1. d \in Sites /\ cached.page \in BOOLEAN
    BY <1>1, RulesAre DEF SensorInv
  <2>2. (content /\ cached.page) \in BOOLEAN /\ TRUE \in BOOLEAN /\ FALSE \in BOOLEAN
    BY <2>1, Zenon
  <2>3. Permitted(t, d, content) \in Posts
    BY <2>1, <2>2, PostKinds, Zenon DEF Permitted
  <2> QED
    BY <1>1, <2>3, PostKeeps
<1>2. CASE UNCHANGED posts
  BY <1>2 DEF SensorInv
<1> QED
  BY <1>1, <1>2 DEF Snapshot

LEMMA SensorStarts == SensorInit => SensorInv
<1> SUFFICES ASSUME SensorInit PROVE SensorInv
  OBVIOUS
<1>1. connected \in BOOLEAN
  BY Zenon DEF SensorInit
<1>2. cached \in Policies /\ rules \in Policies
  <2>1. cached \in Policies
    <3>1. {} \in SUBSET Sites /\ TRUE \in BOOLEAN
      OBVIOUS
    <3> QED
      BY <3>1, Zenon DEF SensorInit, Policies
  <2> QED
    BY <2>1 DEF SensorInit, Policies
<1>3. IsFiniteSet(posts) /\ Cardinality(posts) <= MaxPosts
  BY FS_EmptySet, SensorBounds DEF SensorInit
<1>4. shows \in [Tabs -> Sites \union {NoSite}]
  BY DEF SensorInit
<1> QED
  BY <1>1, <1>2, <1>3, <1>4 DEF SensorInit, SensorInv, HoldsWhatItMay

(* What is held and the rules stay as they are.                            *)
LEMMA HoldsOn ==
  ASSUME SensorInv, UNCHANGED <<rules, holds>>, front' \in Tabs, shows' \in [Tabs -> Sites \union {NoSite}],
         cached' \in Policies, connected' \in BOOLEAN,
         posts' \subseteq Posts, IsFiniteSet(posts'), Cardinality(posts') <= MaxPosts
  PROVE  SensorInv'
<1>1. HoldsWhatItMay'
  BY DEF SensorInv, HoldsWhatItMay
<1>2. holds' = Nothing \/ holds' \in HeldPages
  BY DEF SensorInv
<1> QED
  BY <1>1, <1>2 DEF SensorInv, Nothing

LEMMA LessPosts ==
  ASSUME SensorInv, NEW m \in posts, posts' = posts \ {m}
  PROVE  posts' \subseteq Posts /\ IsFiniteSet(posts') /\ Cardinality(posts') <= MaxPosts
<1>1. IsFiniteSet(posts') /\ Cardinality(posts') <= Cardinality(posts)
  BY FS_Subset DEF SensorInv
<1>2. Cardinality(posts') \in Nat /\ Cardinality(posts) \in Nat
  BY <1>1, FS_CardinalityType DEF SensorInv
<1> QED
  BY <1>1, <1>2, SensorBounds DEF SensorInv

LEMMA TakesHolds ==
  ASSUME SensorInv, NEW m \in Posts, m.type = "page", rules.on, holds' = Takes(m), UNCHANGED rules
  PROVE  holds' \in HeldPages /\ HoldsWhatItMay'
<1>1. m.tab \in Tabs /\ m.site \in Sites /\ m.url \in BOOLEAN /\ m.content \in BOOLEAN /\ rules.page \in BOOLEAN
  BY PostForms, RulesAre DEF SensorInv
<1>2. SamePage(m) \in {NoSite} \union (Tabs \X Sites) /\ (SamePage(m) # NoSite => rules.sel)
  BY DEF SamePage, SensorInv, HeldPages, HoldsWhatItMay
<1>3. (m.content /\ rules.page) \in BOOLEAN /\ TRUE \in BOOLEAN /\ FALSE \in BOOLEAN
  BY <1>1, Zenon
<1>4. PICK c : c = (m.content /\ rules.page)
  OBVIOUS
<1>5. c \in BOOLEAN /\ (c => rules.page)
  BY <1>3, <1>4
<1>6. CASE m.site \in rules.out
  <2>1. holds' = Held(m.tab, m.site, FALSE, FALSE, SamePage(m), TRUE)
    BY <1>6, Zenon DEF Takes
  <2>2. /\ holds' \in HeldPages /\ holds'.site = m.site /\ holds'.url = FALSE
        /\ holds'.content = FALSE /\ holds'.sel = SamePage(m)
    <3>1. Held(m.tab, m.site, FALSE, FALSE, SamePage(m), TRUE) \in HeldPages
      BY <1>1, <1>2, <1>3, Zenon DEF Held, HeldPages
    <3> QED
      BY <2>1, <3>1 DEF Held
  <2>3. rules'.on /\ ~holds'.url /\ ~holds'.content /\ (holds'.sel # NoSite => rules'.sel)
    BY <1>2, <2>2
  <2> QED
    BY <2>2, <2>3 DEF HoldsWhatItMay
<1>7. CASE m.site \notin rules.out
  <2>1. holds' = Held(m.tab, m.site, m.url, c, SamePage(m), FALSE)
    BY <1>4, <1>7, Zenon DEF Takes
  <2>2. /\ holds' \in HeldPages /\ holds'.site = m.site /\ holds'.content = c /\ holds'.sel = SamePage(m)
    <3>1. Held(m.tab, m.site, m.url, c, SamePage(m), FALSE) \in HeldPages
      BY <1>1, <1>2, <1>3, <1>5, Zenon DEF Held, HeldPages
    <3> QED
      BY <2>1, <3>1 DEF Held
  <2>3. rules' = rules /\ rules.on /\ (holds'.content => rules.page) /\ (holds'.sel # NoSite => rules.sel)
    BY <1>2, <1>5, <2>2
  <2> QED
    BY <1>7, <2>2, <2>3 DEF HoldsWhatItMay
<1> QED
  BY <1>6, <1>7

LEMMA ArrivesKeeps ==
  ASSUME SensorInv, NEW m \in posts, Arrives(m)
  PROVE  SensorInv'
<1>1. posts' \subseteq Posts /\ IsFiniteSet(posts') /\ Cardinality(posts') <= MaxPosts
  BY LessPosts DEF Arrives
<1>2. m \in Posts /\ UNCHANGED <<shows, front, cached, rules>>
  BY DEF Arrives, SensorInv
<1>3. connected' \in BOOLEAN
  BY Zenon DEF Arrives, SensorInv
<1>4. CASE UNCHANGED holds
  BY <1>1, <1>2, <1>3, <1>4, HoldsOn DEF SensorInv
<1>5. CASE rules.on /\ m.type = "page" /\ holds' = Takes(m)
  <2>1. holds' \in HeldPages /\ HoldsWhatItMay'
    BY <1>2, <1>5, TakesHolds
  <2> QED
    BY <1>1, <1>2, <1>3, <2>1 DEF SensorInv, Policies, HeldPages
<1>6. CASE rules.on /\ m.type = "selection" /\ rules.sel /\ holds # Nothing /\ holds' = [holds EXCEPT !.sel = <<m.tab, m.site>>]
  <2>1. m.tab \in Tabs /\ m.site \in Sites
    BY <1>2, <1>6, PostForms
  <2>2. holds \in HeldPages
    BY <1>6 DEF SensorInv
  <2>3. holds' \in HeldPages /\ holds'.site = holds.site /\ holds'.url = holds.url /\ holds'.content = holds.content
    BY <1>6, <2>1, <2>2 DEF HeldPages
  <2>4. HoldsWhatItMay'
    BY <1>2, <1>6, <2>3 DEF HoldsWhatItMay, SensorInv
  <2> QED
    BY <1>1, <1>2, <1>3, <2>3, <2>4 DEF SensorInv, Policies, HeldPages
<1>7. CASE holds' = Nothing
  <2>1. HoldsWhatItMay'
    BY <1>7 DEF HoldsWhatItMay, Nothing
  <2> QED
    BY <1>1, <1>2, <1>3, <1>7, <2>1 DEF SensorInv, Policies, Nothing
<1> QED
  BY <1>4, <1>5, <1>6, <1>7, Zenon DEF Arrives

LEMMA ConfigureKeeps ==
  ASSUME SensorInv, NEW p \in Policies, Configure(p)
  PROVE  SensorInv'
<1>1. rules' = p /\ UNCHANGED <<shows, front, cached, posts, connected>>
  BY DEF Configure
<1>2. holds' = IF holds = Nothing \/ ~p.on THEN Nothing
             ELSE IF holds.site \in p.out
             THEN Held(holds.tab, holds.site, FALSE, FALSE, NoSite, TRUE)
             ELSE [holds EXCEPT !.content = @ /\ p.page,
                               !.sel = IF p.sel THEN @ ELSE NoSite]
  BY DEF Configure
<1>3. p.page \in BOOLEAN /\ p.sel \in BOOLEAN /\ p.on \in BOOLEAN
  BY RulesAre
<1>4. (holds' = Nothing \/ holds' \in HeldPages) /\ HoldsWhatItMay'
  <2>1. CASE holds = Nothing \/ ~p.on
    BY <1>2, <2>1 DEF HoldsWhatItMay, Nothing
  <2>2. CASE holds # Nothing /\ p.on /\ holds.site \in p.out
    <3>1. holds \in HeldPages /\ holds.tab \in Tabs /\ holds.site \in Sites
      BY <2>2 DEF SensorInv, HeldPages
    <3>2. holds' = Held(holds.tab, holds.site, FALSE, FALSE, NoSite, TRUE)
      BY <1>2, <2>2, Zenon
    <3>3. holds' \in HeldPages /\ holds'.url = FALSE /\ holds'.content = FALSE /\ holds'.sel = NoSite
      <4>1. NoSite \in {NoSite} \union (Tabs \X Sites) /\ TRUE \in BOOLEAN /\ FALSE \in BOOLEAN
        OBVIOUS
      <4>2. Held(holds.tab, holds.site, FALSE, FALSE, NoSite, TRUE) \in HeldPages
        BY <3>1, <4>1, Zenon DEF Held, HeldPages
      <4> QED
        BY <3>2, <4>2 DEF Held
    <3> QED
      BY <1>1, <2>2, <3>3 DEF HoldsWhatItMay
  <2>3. CASE holds # Nothing /\ p.on /\ holds.site \notin p.out
    <3>1. holds \in HeldPages /\ holds.content \in BOOLEAN
      BY <2>3 DEF SensorInv, HeldPages
    <3>2. PICK c, s : c = (holds.content /\ p.page) /\ s = (IF p.sel THEN holds.sel ELSE NoSite)
      OBVIOUS
    <3>3. c \in BOOLEAN /\ (c => p.page)
      BY <1>3, <3>1, <3>2
    <3>4. s \in {NoSite} \union (Tabs \X Sites) /\ (s # NoSite => p.sel)
      BY <3>1, <3>2 DEF HeldPages
    <3>5. holds' = [holds EXCEPT !.content = c, !.sel = s]
      BY <1>2, <2>3, <3>2, Zenon
    <3>6. holds' \in HeldPages /\ holds'.site = holds.site /\ holds'.content = c /\ holds'.sel = s
      BY <3>1, <3>3, <3>4, <3>5 DEF HeldPages
    <3> QED
      BY <1>1, <2>3, <3>3, <3>4, <3>6 DEF HoldsWhatItMay
  <2> QED
    BY <2>1, <2>2, <2>3
<1> QED
  BY <1>1, <1>4 DEF SensorInv, Nothing

LEMMA SensorKeeps == SensorInv /\ SensorNext => SensorInv'
<1> SUFFICES ASSUME SensorInv, SensorNext PROVE SensorInv'
  OBVIOUS
<1>1. /\ shows \in [Tabs -> Sites \union {NoSite}] /\ front \in Tabs
      /\ cached \in Policies /\ rules \in Policies /\ connected \in BOOLEAN
      /\ posts \subseteq Posts /\ IsFiniteSet(posts) /\ Cardinality(posts) <= MaxPosts
  BY DEF SensorInv
<1>2. CASE \E d \in Sites : Navigate(d)
  <2>1. PICK d \in Sites : Navigate(d)
    BY <1>2
  <2>2. posts' \subseteq Posts /\ IsFiniteSet(posts') /\ Cardinality(posts') <= MaxPosts
    BY <1>1, <2>1, SnapshotKeeps DEF Navigate
  <2>3. shows' \in [Tabs -> Sites \union {NoSite}]
    BY <1>1, <2>1 DEF Navigate
  <2> QED
    BY <1>1, <2>1, <2>2, <2>3, HoldsOn DEF Navigate
<1>3. CASE \E t \in Tabs : Activate(t)
  <2>1. PICK t \in Tabs : Activate(t)
    BY <1>3
  <2>2. shows[t] \in Sites \union {NoSite}
    BY <1>1
  <2>3. posts' \subseteq Posts /\ IsFiniteSet(posts') /\ Cardinality(posts') <= MaxPosts
    BY <2>1, <2>2, SnapshotKeeps DEF Activate
  <2> QED
    BY <1>1, <2>1, <2>3, HoldsOn DEF Activate
<1>4. CASE \E t \in Tabs : Window(t)
  BY <1>1, <1>4, HoldsOn DEF Window
<1>5. CASE \E t \in Tabs : CloseTab(t)
  <2>1. PICK t \in Tabs : CloseTab(t)
    BY <1>5
  <2>2. posts' \subseteq Posts /\ IsFiniteSet(posts') /\ Cardinality(posts') <= MaxPosts
    BY <2>1, PostKinds, PostKeeps DEF CloseTab
  <2>3. shows' \in [Tabs -> Sites \union {NoSite}]
    BY <1>1, <2>1 DEF CloseTab
  <2> QED
    BY <1>1, <2>1, <2>2, <2>3, HoldsOn DEF CloseTab
<1>6. CASE Select
  <2>1. shows[front] \in Sites
    BY <1>1, <1>6 DEF Select
  <2>2. posts' \subseteq Posts /\ IsFiniteSet(posts') /\ Cardinality(posts') <= MaxPosts
    BY <1>1, <1>6, <2>1, PostKinds, PostKeeps DEF Select
  <2> QED
    BY <1>1, <1>6, <2>2, HoldsOn DEF Select
<1>7. CASE Beat
  <2>1. connected' \in BOOLEAN
    BY <1>7, Zenon DEF Beat
  <2>2. cached' \in Policies
    BY <1>1, <1>7 DEF Beat
  <2> QED
    BY <1>1, <1>7, <2>1, <2>2, HoldsOn DEF Beat
<1>8. CASE Sleep
  <2>1. Awake \in Policies
    <3>1. {} \in SUBSET Sites /\ TRUE \in BOOLEAN
      OBVIOUS
    <3> QED
      BY <3>1, Zenon DEF Awake, Policies
  <2> QED
    BY <1>1, <1>8, <2>1, HoldsOn DEF Sleep
<1>9. CASE Stale
  <2>1. connected' \in BOOLEAN /\ holds' = Nothing /\ UNCHANGED <<shows, front, cached, rules, posts>>
    <3>1. connected' \in BOOLEAN
      BY <1>9, Zenon DEF Stale
    <3> QED
      BY <1>9, <3>1 DEF Stale
  <2>2. HoldsWhatItMay'
    BY <2>1 DEF HoldsWhatItMay, Nothing
  <2> QED
    BY <1>1, <2>1, <2>2 DEF SensorInv, Nothing
<1>10. CASE \E m \in posts : Arrives(m)
  BY <1>10, ArrivesKeeps
<1>11. CASE \E m \in posts : Lost(m)
  <2>1. PICK m \in posts : Lost(m)
    BY <1>11
  <2>2. posts' \subseteq Posts /\ IsFiniteSet(posts') /\ Cardinality(posts') <= MaxPosts
    BY <2>1, LessPosts DEF Lost
  <2> QED
    BY <1>1, <2>1, <2>2, HoldsOn DEF Lost
<1>12. CASE Configure([rules EXCEPT !.on = ~@]) \/ Configure([rules EXCEPT !.page = ~@]) \/ Configure([rules EXCEPT !.sel = ~@])
  BY <1>1, <1>12, RulesAre, ConfigureKeeps
<1>13. CASE \E d \in Private : Configure([rules EXCEPT !.out = (@ \ {d}) \union ({d} \ @)])
  BY <1>1, <1>13, RulesAre, ConfigureKeeps
<1> QED
  BY <1>2, <1>3, <1>4, <1>5, <1>6, <1>7, <1>8, <1>9, <1>10, <1>11, <1>12, <1>13, Zenon DEF SensorNext

LEMMA SensorStays == SensorInv /\ UNCHANGED sensorVars => SensorInv'
<1> SUFFICES ASSUME SensorInv, UNCHANGED sensorVars PROVE SensorInv'
  OBVIOUS
<1> QED
  BY HoldsOn DEF sensorVars, SensorInv

(***************************************************************************)
(* The stage                                                               *)
(***************************************************************************)
Messages == [t : {"push"}, far : BOOLEAN, open : BOOLEAN] \union [t : {"aim", "opened"}, far : BOOLEAN]
              \union [t : {"closed"}] \union [t : {"scale"}, scale : Scales]
Views == [phase : {"rest", "aim", "faced", "open", "opened", "unfolds", "folds", "close"},
          open : BOOLEAN, far : BOOLEAN, shown : BOOLEAN, orb : Scales, pump : {"rest", "asks"}]
Windows == [x : Int, w : Nat]

(* While the display the orb was parked on is there, its place is on the   *)
(* screen, is what the anchor says, and is where it is at that scale.      *)
ParkedWhole ==
  parked.work = work =>
    /\ 0 <= parked.at /\ parked.at + Char(parked.scale) <= work
    /\ centre = 2 * parked.at + Char(parked.scale)
    /\ parked.scale = scale => At = parked.at
StageKinds ==
  /\ work \in Widths /\ scale \in Scales /\ view \in Views /\ wire \in Seq(Messages)
  /\ settled \in BOOLEAN /\ far \in BOOLEAN /\ carried \in BOOLEAN /\ open \in BOOLEAN
  /\ win \in Windows /\ centre \in Int /\ parked \in [at : Int, scale : Scales, work : Nat]
StageInv == StageKinds /\ OrbOnScreen /\ ParkedWhole

LEMMA StageFollows == StageInv => StageTypeOK /\ ComesBack
<1> SUFFICES ASSUME StageInv PROVE StageTypeOK /\ ComesBack
  OBVIOUS
<1>1. view.open \in BOOLEAN /\ view.far \in BOOLEAN /\ view.shown \in BOOLEAN /\ view.orb \in Scales
      /\ view.phase \in {"rest", "aim", "faced", "open", "opened", "unfolds", "folds", "close"}
  BY DEF StageInv, StageKinds, Views
<1>2. {settled, far, carried, open, view.open, view.far, view.shown} \subseteq BOOLEAN
  BY <1>1, Zenon DEF StageInv, StageKinds
<1>3. StageTypeOK
  BY <1>1, <1>2 DEF StageInv, StageKinds, StageTypeOK, Windows
<1>4. ComesBack
  BY DEF StageInv, ParkedWhole, ComesBack
<1> QED
  BY <1>3, <1>4

LEMMA SizesAre ==
  /\ MaxScale \in Nat /\ Pad \in Nat /\ Panel \in Nat /\ BetterBy \in Nat
  /\ \A s \in Scales : /\ s \in Nat /\ s <= MaxScale /\ Char(s) = 2 * s + 1 /\ Char(s) \in Nat
                       /\ ShadowRoom(s) \in Nat /\ Slack(s) \in Nat /\ OrbSize(s) \in Nat /\ PanelSize(s) \in Nat
  /\ \A w \in Widths : w \in Nat /\ w > 0 /\ \A s \in Scales : Char(s) < w
<1>1. MaxScale \in Nat /\ Pad \in Nat /\ Panel \in Nat /\ BetterBy \in Nat
  BY StageBounds
<1>2. ASSUME NEW s \in Scales
      PROVE  /\ s \in Nat /\ s <= MaxScale /\ Char(s) = 2 * s + 1 /\ Char(s) \in Nat
             /\ ShadowRoom(s) \in Nat /\ Slack(s) \in Nat /\ OrbSize(s) \in Nat /\ PanelSize(s) \in Nat
  BY <1>1 DEF Scales, Char, ShadowRoom, Slack, OrbSize, PanelSize
<1>3. ASSUME NEW w \in Widths
      PROVE w \in Nat /\ w > 0 /\ \A s \in Scales : Char(s) < w
  <2>1. w \in Nat /\ 2 * MaxScale + 1 < w
    BY StageBounds
  <2> QED
    BY <1>1, <1>2, <2>1
<1> QED
  BY <1>1, <1>2, <1>3

LEMMA OffsetIs ==
  ASSUME NEW w \in Nat, NEW s \in Scales, NEW f \in BOOLEAN
  PROVE  Offset(w, s, f) \in Int
<1>1. Pad \in Int /\ ShadowRoom(s) \in Int /\ Char(s) \in Int
  BY SizesAre
<1>2. w - Pad - ShadowRoom(s) - Char(s) \in Int
  BY <1>1
<1> QED
  BY <1>1, <1>2, Zenon DEF Offset

LEMMA AtIs == StageKinds => At \in Int
<1> SUFFICES ASSUME StageKinds PROVE At \in Int
  OBVIOUS
<1>1. win.x \in Int /\ win.w \in Nat /\ scale \in Scales /\ far \in BOOLEAN
  BY DEF StageKinds, Windows
<1>2. Offset(win.w, scale, far) \in Int
  BY <1>1, OffsetIs
<1> QED
  BY <1>1, <1>2 DEF At

(* A place is brought onto the screen, and one that is there is left.      *)
LEMMA ClampedIs ==
  ASSUME NEW at \in Int, NEW s \in Scales, work' \in Widths
  PROVE  /\ Clamped(at, s) \in Int /\ 0 <= Clamped(at, s) /\ Clamped(at, s) + Char(s) <= work'
         /\ 0 <= at /\ at + Char(s) <= work' => Clamped(at, s) = at
<1>1. PICK c \in Nat, v \in Nat : c = Char(s) /\ v = work' /\ c < v
  BY SizesAre
<1>2. PICK g \in Int : g = (IF at > 0 THEN at ELSE 0)
  OBVIOUS
<1>3. g >= 0 /\ (at >= 0 => g = at)
  BY <1>2
<1>4. Clamped(at, s) = IF g < v - c THEN g ELSE v - c
  BY <1>1, <1>2 DEF Clamped, Lesser, Greater
<1> QED
  BY <1>1, <1>3, <1>4

(* The window is built around a character that does not move; an open one  *)
(* is on the screen with its panel.                                        *)
LEMMA PlacedIs ==
  ASSUME StageKinds, NEW at \in Int, NEW s \in Scales, NEW isOpen \in BOOLEAN, work' \in Widths,
         PlaceAround(at, s, isOpen), scale' = s
  PROVE  /\ far' \in BOOLEAN /\ win' \in Windows /\ At' = at
         /\ isOpen /\ 0 <= at /\ at + Char(s) <= work'
              => IF far' THEN at + win'.w - Slack(s) <= work' ELSE at + Char(s) - win'.w + Slack(s) >= 0
<1>1. PICK f : f = IF isOpen THEN ChooseSide(at, s) ELSE far
  OBVIOUS
<1>2. PICK w : w = IF isOpen THEN Narrowed(at, s, f) ELSE OrbSize(s)
  OBVIOUS
<1>3. far' = f /\ win' = [x |-> at - Offset(w, s, f), w |-> w]
  BY <1>1, <1>2, Zenon DEF PlaceAround
<1>4. f \in BOOLEAN
  <2>1. far \in BOOLEAN /\ (~far) \in BOOLEAN
    BY Zenon DEF StageKinds
  <2> QED
    BY <1>1, <2>1, Zenon DEF ChooseSide
<1>5. PICK c \in Nat, k \in Nat, p \in Nat, v \in Nat : c = Char(s) /\ k = Slack(s) /\ p = PanelSize(s) /\ v = work'
  BY SizesAre
<1>6. PICK r \in Int : r = RoomFor(at, s, f) /\ r = (IF f THEN v - at + k ELSE at + c + k)
  <2>1. RoomFor(at, s, f) = (IF f THEN v - at + k ELSE at + c + k)
    BY <1>5, Zenon DEF RoomFor
  <2>2. v - at + k \in Int /\ at + c + k \in Int
    OBVIOUS
  <2>3. RoomFor(at, s, f) \in Int
    BY <2>1, <2>2, Zenon
  <2> QED
    BY <2>1, <2>3
<1>7. PICK n \in Nat : n = Narrowed(at, s, f) /\ (n = 0 \/ n <= r)
  <2>1. PICK m \in Int : m = Lesser(PanelSize(s), RoomFor(at, s, f)) /\ m <= r
    <3>1. PICK m : m = IF p < r THEN p ELSE r
      OBVIOUS
    <3>2. m \in Int /\ m <= r
      BY <3>1
    <3> QED
      BY <1>5, <1>6, <3>1, <3>2 DEF Lesser
  <2>2. Narrowed(at, s, f) = IF 0 > m THEN 0 ELSE m
    BY <2>1 DEF Narrowed, Greater
  <2> QED
    BY <2>1, <2>2
<1>8. w \in Nat /\ (isOpen => w = n)
  BY <1>2, <1>7, SizesAre
<1>9. Offset(w, s, f) \in Int
  BY <1>4, <1>8, OffsetIs
<1>10. win' \in Windows /\ win'.x = at - Offset(w, s, f) /\ win'.w = w
  BY <1>3, <1>8, <1>9 DEF Windows
<1>11. At' = at
  <2>1. At' = win'.x + Offset(win'.w, scale', far')
    BY DEF At, Offset
  <2>2. At' = (at - Offset(w, s, f)) + Offset(w, s, f)
    BY <1>3, <1>10, <2>1
  <2> QED
    BY <1>9, <2>2
<1>12. ASSUME isOpen, 0 <= at, at + Char(s) <= work'
       PROVE IF far' THEN at + win'.w - Slack(s) <= work' ELSE at + Char(s) - win'.w + Slack(s) >= 0
  <2>1. 0 <= at /\ at + c <= v /\ win'.w = n
    BY <1>5, <1>8, <1>10, <1>12
  <2>2. CASE f
    <3>1. n = 0 \/ n <= v - at + k
      BY <1>6, <1>7, <2>2
    <3>2. at + n - k <= v
      BY <2>1, <3>1
    <3> QED
      BY <1>3, <1>5, <2>1, <2>2, <3>2
  <2>3. CASE ~f
    <3>1. n = 0 \/ n <= at + c + k
      BY <1>6, <1>7, <2>3
    <3>2. at + c - n + k >= 0
      BY <2>1, <3>1
    <3> QED
      BY <1>3, <1>5, <2>1, <2>3, <3>2
  <2> QED
    BY <2>2, <2>3
<1> QED
  BY <1>3, <1>4, <1>10, <1>11, <1>12

(* Being told of what main did, the renderer is told in words it knows.    *)
LEMMA SaysKeeps ==
  ASSUME StageKinds, NEW msgs \in Seq(Messages), Says(msgs)
  PROVE  wire' \in Seq(Messages)
  BY DEF Says, StageKinds

LEMMA PushIs ==
  ASSUME far' \in BOOLEAN, open' \in BOOLEAN
  PROVE  Push \in Messages /\ <<Push>> \in Seq(Messages)
<1>1. Push \in [t : {"push"}, far : BOOLEAN, open : BOOLEAN]
  BY Zenon DEF Push
<1> QED
  BY <1>1 DEF Messages

LEMMA StageStarts == StageInit => StageInv
<1> SUFFICES ASSUME StageInit PROVE StageInv
  OBVIOUS
<1>1. PICK c \in Nat, v \in Nat : c = Char(scale) /\ v = work /\ c < v
  BY SizesAre DEF StageInit
<1>2. PICK at \in Int : at = work - Char(scale) - 1 /\ 0 <= at /\ at + c <= v
  BY <1>1
<1>3. scale \in Scales /\ OrbSize(scale) \in Nat /\ FALSE \in BOOLEAN /\ TRUE \in BOOLEAN
  BY SizesAre DEF StageInit
<1>4. PICK o \in Int : o = Offset(OrbSize(scale), scale, FALSE)
  BY <1>3, OffsetIs
<1>5. /\ win = [x |-> at - o, w |-> OrbSize(scale)] /\ centre = 2 * at + Char(scale)
      /\ parked = [at |-> at, scale |-> scale, work |-> work]
  BY <1>2, <1>4, Zenon DEF StageInit
<1>6. far = FALSE /\ win \in Windows /\ win.x = at - o /\ win.w = OrbSize(scale)
  <2>1. far = FALSE /\ at - o \in Int
    BY DEF StageInit
  <2>2. win \in Windows /\ win.x = at - o /\ win.w = OrbSize(scale)
    BY <1>3, <1>5, <2>1 DEF Windows
  <2> QED
    BY <2>1, <2>2
<1>7. At = at
  <2>1. At = (at - o) + o
    BY <1>4, <1>6 DEF At
  <2> QED
    BY <2>1
<1>8. parked \in [at : Int, scale : Scales, work : Nat] /\ parked.at = at /\ parked.scale = scale
  BY <1>1, <1>3, <1>5
<1>9. view \in Views
  BY <1>3, Zenon DEF StageInit, Views
<1>10. settled \in BOOLEAN /\ far \in BOOLEAN /\ carried \in BOOLEAN /\ open \in BOOLEAN
  BY Zenon DEF StageInit
<1>11. centre \in Int
  BY <1>1, <1>5
<1>12. StageKinds
  BY <1>6, <1>8, <1>9, <1>10, <1>11 DEF StageInit, StageKinds
<1>13. OrbOnScreen
  BY <1>1, <1>2, <1>7 DEF OrbOnScreen
<1>14. ParkedWhole
  BY <1>1, <1>2, <1>5, <1>7, <1>8 DEF ParkedWhole
<1> QED
  BY <1>12, <1>13, <1>14 DEF StageInv

(* Nothing of the place changes.                                           *)
LEMMA PlaceStays ==
  ASSUME StageInv, UNCHANGED <<work, settled, place>>, view' \in Views, wire' \in Seq(Messages), carried' \in BOOLEAN
  PROVE  StageInv'
<1>1. At' = At
  BY DEF At, Offset, place
<1> QED
  BY <1>1 DEF StageInv, StageKinds, OrbOnScreen, ParkedWhole, place

(* The orb is put down, somewhere on the screen.                           *)
LEMMA PutDown ==
  ASSUME StageInv, NEW at \in Int, 0 <= at, at + Char(scale) <= work, UNCHANGED <<work, scale, open>>,
         settled' \in BOOLEAN, far' \in BOOLEAN, win' \in Windows, At' = at, AnchorHere(at, scale),
         view' \in Views, wire' \in Seq(Messages), carried' \in BOOLEAN
  PROVE  StageInv'
<1>1. centre' = 2 * at + Char(scale) /\ parked' = [at |-> at, scale |-> scale, work |-> work]
  BY DEF AnchorHere
<1>2. PICK c \in Nat, v \in Nat : c = Char(scale) /\ v = work
  BY SizesAre DEF StageInv, StageKinds
<1>3. parked' \in [at : Int, scale : Scales, work : Nat] /\ centre' \in Int
  BY <1>1, <1>2 DEF StageInv, StageKinds
<1>4. parked'.at = at /\ parked'.scale = scale /\ parked'.work = work
  BY <1>1
<1>5. StageKinds'
  BY <1>3 DEF StageInv, StageKinds
<1>6. OrbOnScreen'
  BY DEF OrbOnScreen
<1>7. ParkedWhole'
  BY <1>1, <1>4 DEF ParkedWhole
<1> QED
  BY <1>5, <1>6, <1>7 DEF StageInv

LEMMA SetPanelOpenKeeps ==
  ASSUME StageInv, NEW isOpen \in BOOLEAN, NEW answer \in Seq(Messages), SetPanelOpen(isOpen, answer),
         UNCHANGED <<settled, carried>>, view' \in Views
  PROVE  /\ StageInv' /\ At' = At
         /\ open' /\ settled => IF far' THEN At' + win'.w - Slack(scale) <= work
                                        ELSE At' + Char(scale) - win'.w + Slack(scale) >= 0
<1>1. StageKinds /\ At \in Int /\ scale \in Scales /\ work' \in Widths
  BY AtIs DEF StageInv, StageKinds, SetPanelOpen
<1>2. PlaceAround(At, scale, isOpen) /\ UNCHANGED <<work, scale, centre, parked>> /\ open' = isOpen /\ Says(<<Push>> \o answer)
  BY DEF SetPanelOpen
<1>3. PICK at : at = At /\ at \in Int
  BY <1>1
<1>4. /\ far' \in BOOLEAN /\ win' \in Windows /\ At' = at
      /\ isOpen /\ 0 <= at /\ at + Char(scale) <= work'
           => IF far' THEN at + win'.w - Slack(scale) <= work' ELSE at + Char(scale) - win'.w + Slack(scale) >= 0
  <2>1. PlaceAround(at, scale, isOpen) /\ scale' = scale
    BY <1>2, <1>3, Zenon
  <2> QED
    BY <1>1, <1>3, <2>1, PlacedIs
<1>5. wire' \in Seq(Messages)
  <2>1. <<Push>> \in Seq(Messages)
    BY <1>2, <1>4, PushIs
  <2>2. <<Push>> \o answer \in Seq(Messages)
    BY <2>1
  <2> QED
    BY <1>1, <1>2, <2>2, SaysKeeps
<1>6. StageInv'
  BY <1>2, <1>3, <1>4, <1>5 DEF StageInv, StageKinds, OrbOnScreen, ParkedWhole
<1>7. settled => 0 <= at /\ at + Char(scale) <= work
  BY <1>3 DEF StageInv, OrbOnScreen
<1> QED
  BY <1>2, <1>3, <1>4, <1>6, <1>7

LEMMA DragFrameKeeps ==
  ASSUME StageInv, NEW to \in -1..work, DragFrame(to)
  PROVE  StageInv'
<1>1. StageKinds /\ scale \in Scales /\ work' = work /\ work' \in Widths /\ work \in Nat /\ to \in Int
  BY SizesAre DEF StageInv, StageKinds, DragFrame
<1>2. PICK at : at = Clamped(to, scale)
  OBVIOUS
<1>3. at \in Int /\ 0 <= at /\ at + Char(scale) <= work
  BY <1>1, <1>2, ClampedIs
<1>4. /\ PlaceAround(at, scale, open) /\ AnchorHere(at, scale)
      /\ UNCHANGED <<work, settled, scale, open, carried, view>>
      /\ Says(IF Tells THEN <<Push>> ELSE <<>>)
  BY <1>2 DEF DragFrame
<1>5. open \in BOOLEAN /\ open' \in BOOLEAN
  BY <1>1, <1>4 DEF StageKinds
<1>6. far' \in BOOLEAN /\ win' \in Windows /\ At' = at
  BY <1>1, <1>3, <1>4, <1>5, PlacedIs
<1>7. (IF Tells THEN <<Push>> ELSE <<>>) \in Seq(Messages)
  BY <1>5, <1>6, PushIs
<1>8. wire' \in Seq(Messages)
  BY <1>1, <1>4, <1>7, SaysKeeps
<1>9. view' \in Views /\ carried' \in BOOLEAN /\ settled' \in BOOLEAN
  BY <1>1, <1>4 DEF StageKinds
<1> QED
  BY <1>3, <1>4, <1>6, <1>8, <1>9, PutDown

LEMMA RecenterKeeps == ASSUME StageInv, Recenter PROVE StageInv'
<1>1. StageKinds /\ At \in Int /\ scale \in Scales /\ work' = work /\ work' \in Widths
  BY AtIs DEF StageInv, StageKinds, Recenter
<1>2. PICK at : at = Clamped(At, scale)
  OBVIOUS
<1>3. at \in Int /\ 0 <= at /\ at + Char(scale) <= work
  BY <1>1, <1>2, ClampedIs
<1>4. /\ settled' = TRUE /\ UNCHANGED <<work, far, scale, open, carried, wire, view>>
      /\ win' = [win EXCEPT !.x = @ + (at - At)]
      /\ IF at # At THEN AnchorHere(at, scale) ELSE UNCHANGED <<centre, parked>>
  BY <1>2, Zenon DEF Recenter
<1>5. PICK o \in Int : o = Offset(win.w, scale, far)
  BY <1>1, OffsetIs DEF StageKinds, Windows
<1>6. win.x \in Int /\ win.w \in Nat /\ win \in Windows
  BY <1>1 DEF StageKinds, Windows
<1>7. win' \in Windows /\ win'.x = win.x + (at - At) /\ win'.w = win.w
  BY <1>1, <1>3, <1>4, <1>6 DEF Windows
<1>8. At = win.x + o /\ At' = win'.x + o
  <2>1. At = win.x + Offset(win.w, scale, far)
    BY DEF At
  <2>2. At' = win'.x + Offset(win'.w, scale', far')
    BY DEF At, Offset
  <2> QED
    BY <1>4, <1>5, <1>7, <2>1, <2>2
<1>9. At' = at
  BY <1>1, <1>3, <1>6, <1>7, <1>8
<1>10. far' \in BOOLEAN /\ settled' \in BOOLEAN /\ view' \in Views /\ wire' \in Seq(Messages) /\ carried' \in BOOLEAN /\ open' \in BOOLEAN
  BY <1>1, <1>4, Zenon DEF StageKinds
<1>11. CASE at # At
  BY <1>3, <1>4, <1>7, <1>9, <1>10, <1>11, PutDown
<1>12. CASE at = At
  <2>1. StageKinds'
    BY <1>1, <1>4, <1>7, <1>10, <1>12 DEF StageKinds
  <2>2. OrbOnScreen'
    BY <1>3, <1>4, <1>9 DEF OrbOnScreen
  <2>3. ParkedWhole'
    BY <1>4, <1>9, <1>12 DEF ParkedWhole, StageInv
  <2> QED
    BY <2>1, <2>2, <2>3 DEF StageInv
<1> QED
  BY <1>11, <1>12

(* Growing and shrinking go from the anchor, so they undo each other.      *)
LEMMA WheelKeeps ==
  ASSUME StageInv, NEW s \in Scales, Wheel(s)
  PROVE  StageInv'
<1>1. StageKinds /\ work' = work /\ work' \in Widths /\ work \in Nat /\ centre \in Int /\ scale' = s
  BY SizesAre DEF StageInv, StageKinds, Wheel, SetOrbScale
<1>2. PICK c \in Nat : c = Char(s)
  BY SizesAre
<1>3. PICK b \in Int : b = (centre - Char(s) + 1) \div 2
  BY <1>1, <1>2
<1>4. PICK at : at = Clamped(b, s)
  OBVIOUS
<1>5. at \in Int /\ 0 <= at /\ at + Char(s) <= work /\ (0 <= b /\ b + Char(s) <= work => at = b)
  BY <1>1, <1>4, ClampedIs
<1>6. /\ PlaceAround(at, s, open) /\ UNCHANGED <<work, open, centre, parked, settled, carried>>
      /\ Says((IF Tells THEN <<Push>> ELSE <<>>) \o <<[t |-> "scale", scale |-> s]>>)
      /\ view' = [view EXCEPT !.pump = "asks", !.orb = Lesser(s, @)]
  BY <1>3, <1>4 DEF Wheel, SetOrbScale, Centre
<1>7. open \in BOOLEAN /\ open' \in BOOLEAN /\ settled' \in BOOLEAN /\ carried' \in BOOLEAN
  BY <1>1, <1>6 DEF StageKinds
<1>8. far' \in BOOLEAN /\ win' \in Windows /\ At' = at
  BY <1>1, <1>5, <1>6, <1>7, PlacedIs
<1>9. wire' \in Seq(Messages)
  <2>1. (IF Tells THEN <<Push>> ELSE <<>>) \in Seq(Messages)
    BY <1>7, <1>8, PushIs
  <2>2. [t |-> "scale", scale |-> s] \in Messages
    BY DEF Messages
  <2>3. (IF Tells THEN <<Push>> ELSE <<>>) \o <<[t |-> "scale", scale |-> s]>> \in Seq(Messages)
    BY <2>1, <2>2
  <2> QED
    BY <1>1, <1>6, <2>3, SaysKeeps
<1>10. view' \in Views
  <2>1. view.orb \in Scales /\ Lesser(s, view.orb) \in Scales /\ view \in Views
    BY <1>1 DEF StageKinds, Views, Lesser
  <2> QED
    BY <1>6, <2>1 DEF Views
<1>11. StageKinds'
  BY <1>1, <1>6, <1>7, <1>8, <1>9, <1>10 DEF StageKinds
<1>12. OrbOnScreen'
  BY <1>1, <1>5, <1>8 DEF OrbOnScreen
<1>13. ParkedWhole'
  <2>1. CASE parked.work = work /\ parked.scale = s
    <3>1. PICK p \in Int : p = parked.at
      BY <1>1 DEF StageKinds
    <3>2. 0 <= p /\ p + c <= work /\ centre = 2 * p + c
      BY <1>2, <2>1, <3>1 DEF StageInv, ParkedWhole
    <3>3. b = (2 * p + 1) \div 2
      <4>1. centre - Char(s) + 1 = 2 * p + 1
        BY <1>2, <3>2
      <4> QED
        BY <1>3, <4>1, Zenon
    <3>4. b = p
      BY <3>3
    <3>5. at = p
      BY <1>2, <1>5, <3>2, <3>4
    <3> QED
      BY <1>6, <1>8, <2>1, <3>1, <3>5 DEF StageInv, ParkedWhole
  <2>2. CASE ~(parked.work = work /\ parked.scale = s)
    BY <1>1, <1>6, <2>2 DEF StageInv, ParkedWhole
  <2> QED
    BY <2>1, <2>2
<1> QED
  BY <1>11, <1>12, <1>13 DEF StageInv

LEMMA DisplayKeeps ==
  ASSUME StageInv, NEW w \in Widths, DisplayChanges(w)
  PROVE  StageInv'
<1>1. work' = w /\ settled' = FALSE /\ parked' = [parked EXCEPT !.work = 0]
      /\ UNCHANGED <<win, far, scale, centre, carried, open, wire, view>>
  BY DEF DisplayChanges
<1>2. parked' \in [at : Int, scale : Scales, work : Nat] /\ parked'.work = 0
  BY <1>1 DEF StageInv, StageKinds
<1>3. w # 0
  BY SizesAre
<1>4. StageKinds'
  BY <1>1, <1>2 DEF StageInv, StageKinds
<1> QED
  BY <1>1, <1>2, <1>3, <1>4 DEF StageInv, OrbOnScreen, ParkedWhole

LEMMA HearsKeeps == ASSUME StageInv, Hears PROVE StageInv'
<1>1. view \in Views /\ wire \in Seq(Messages) /\ wire # <<>> /\ wire' = Tail(wire)
      /\ UNCHANGED <<work, settled, carried, place>>
  BY DEF Hears, StageInv, StageKinds
<1>2. wire' \in Seq(Messages)
  BY <1>1
<1>3. PICK m : m = Head(wire) /\ m \in Messages
  BY <1>1
<1>4. view' = CASE m.t = "push" -> Rendered(m)
                  [] m.t = "aim" -> [view EXCEPT !.phase = "faced", !.far = m.far]
                  [] m.t = "opened" -> [view EXCEPT !.phase = "opened", !.far = m.far, !.open = TRUE]
                  [] m.t = "closed" -> [view EXCEPT !.phase = "rest"]
                  [] m.t = "scale" -> [view EXCEPT !.pump = "rest", !.orb = m.scale]
  BY <1>3, Zenon DEF Hears
<1>5. /\ m.t \in {"push", "aim", "opened", "closed", "scale"}
      /\ m.t \in {"push", "aim", "opened"} => m.far \in BOOLEAN
      /\ m.t = "push" => m.open \in BOOLEAN
      /\ m.t = "scale" => m.scale \in Scales
  BY <1>3 DEF Messages
<1>6. view' \in Views
  <2>1. CASE m.t = "push"
    <3>1. PICK f, s : f = (IF Busy THEN view.far ELSE m.far) /\ s = (IF Busy THEN view.shown ELSE m.open)
      OBVIOUS
    <3>2. view.far \in BOOLEAN /\ view.shown \in BOOLEAN
      BY <1>1 DEF Views
    <3>3. f \in BOOLEAN /\ s \in BOOLEAN /\ m.open \in BOOLEAN
      BY <1>5, <2>1, <3>1, <3>2, Zenon
    <3>4. view' = [view EXCEPT !.open = m.open, !.far = f, !.shown = s]
      BY <1>4, <2>1, <3>1, Zenon DEF Rendered
    <3> QED
      BY <1>1, <3>3, <3>4 DEF Views
  <2>2. CASE m.t = "aim"
    BY <1>1, <1>4, <1>5, <2>2 DEF Views
  <2>3. CASE m.t = "opened"
    BY <1>1, <1>4, <1>5, <2>3 DEF Views
  <2>4. CASE m.t = "closed"
    BY <1>1, <1>4, <2>4 DEF Views
  <2>5. CASE m.t = "scale"
    BY <1>1, <1>4, <1>5, <2>5 DEF Views
  <2> QED
    BY <1>5, <2>1, <2>2, <2>3, <2>4, <2>5
<1>7. carried' \in BOOLEAN
  BY <1>1 DEF StageInv, StageKinds
<1> QED
  BY <1>1, <1>2, <1>6, <1>7, PlaceStays

(* The steps by which the panel is opened or closed, in main.              *)
PanelSteps ==
  \/ DockOpen \/ OpenWindow \/ CloseWindow

LEMMA PanelKeeps ==
  ASSUME StageInv, PanelSteps
  PROVE  /\ StageInv' /\ At' = At
         /\ open' /\ settled => IF far' THEN At' + win'.w - Slack(scale) <= work
                                        ELSE At' + Char(scale) - win'.w + Slack(scale) >= 0
<1>1. view \in Views /\ TRUE \in BOOLEAN /\ FALSE \in BOOLEAN
  BY DEF StageInv, StageKinds
<1>2. CASE DockOpen
  <2>3. <<>> \in Seq(Messages)
    OBVIOUS
  <2>4. SetPanelOpen(TRUE, <<>>) /\ UNCHANGED <<settled, carried, view>>
    BY <1>2, Zenon DEF DockOpen
  <2>1. SetPanelOpen(TRUE, <<>>) /\ UNCHANGED <<settled, carried, view>> /\ <<>> \in Seq(Messages)
    BY <2>3, <2>4, Zenon
  <2>2. view' \in Views
    BY <1>1, <2>1
  <2> QED
    BY <1>1, <2>1, <2>2, SetPanelOpenKeeps
<1>3. CASE OpenWindow
  <2>1. SetPanelOpen(TRUE, <<[t |-> "opened", far |-> far']>>) /\ UNCHANGED <<settled, carried>>
        /\ view' = [view EXCEPT !.phase = "open"]
    BY <1>3 DEF OpenWindow
  <2>2. view' \in Views
    BY <1>1, <2>1 DEF Views
  <2>3. far' \in BOOLEAN
    <3>1. PlaceAround(At, scale, TRUE) /\ scale' = scale /\ work' \in Widths
      BY <2>1 DEF SetPanelOpen, StageInv, StageKinds
    <3> QED
      BY <3>1, AtIs, PlacedIs DEF StageInv, StageKinds
  <2>4. [t |-> "opened", far |-> far'] \in Messages
    BY <2>3 DEF Messages
  <2>5. <<[t |-> "opened", far |-> far']>> \in Seq(Messages)
    BY <2>4
  <2> QED
    BY <1>1, <2>1, <2>2, <2>5, SetPanelOpenKeeps
<1>4. CASE CloseWindow
  <2>1. SetPanelOpen(FALSE, <<[t |-> "closed"]>>) /\ UNCHANGED <<settled, carried>>
        /\ view' = [view EXCEPT !.phase = "close"]
    BY <1>4 DEF CloseWindow
  <2>2. view' \in Views
    BY <1>1, <2>1 DEF Views
  <2>3. <<[t |-> "closed"]>> \in Seq(Messages)
    BY DEF Messages
  <2> QED
    BY <1>1, <2>1, <2>2, <2>3, SetPanelOpenKeeps
<1> QED
  BY <1>2, <1>3, <1>4 DEF PanelSteps

LEMMA StageKeeps == StageInv /\ StageNext => StageInv'
<1> SUFFICES ASSUME StageInv, StageNext PROVE StageInv'
  OBVIOUS
<1>1. view \in Views /\ wire \in Seq(Messages) /\ carried \in BOOLEAN /\ far \in BOOLEAN /\ (~far) \in BOOLEAN
  BY DEF StageInv, StageKinds
<1>2. CASE DragStart \/ DragEnd
  <2>1. carried' \in BOOLEAN
    BY <1>2, Zenon DEF DragStart, DragEnd
  <2>2. UNCHANGED <<work, settled, place, wire, view>>
    BY <1>2 DEF DragStart, DragEnd, place
  <2> QED
    BY <1>1, <2>1, <2>2, PlaceStays
<1>3. CASE OpenPanel
  <2>1. view' \in Views
    BY <1>1, <1>3 DEF OpenPanel, Views
  <2>2. ChooseSide(At, scale) \in BOOLEAN
    BY <1>1, Zenon DEF ChooseSide
  <2>3. [t |-> "aim", far |-> ChooseSide(At, scale)] \in Messages
    BY <2>2 DEF Messages
  <2>4. PICK m : m = [t |-> "aim", far |-> ChooseSide(At, scale)]
    OBVIOUS
  <2>5. Says(<<m>>) /\ <<m>> \in Seq(Messages)
    BY <1>3, <2>3, <2>4 DEF OpenPanel
  <2>6. wire' \in Seq(Messages)
    BY <2>5, SaysKeeps DEF StageInv
  <2> QED
    BY <1>1, <1>3, <2>1, <2>6, PlaceStays DEF OpenPanel
<1>4. CASE Unfold \/ Unfolded \/ ClosePanel
  <2>1. view' \in Views
    BY <1>1, <1>4 DEF Unfold, Unfolded, ClosePanel, Draws, Views
  <2>2. UNCHANGED <<work, settled, carried, wire, place>>
    BY <1>4 DEF Unfold, Unfolded, ClosePanel, Draws
  <2> QED
    BY <1>1, <2>1, <2>2, PlaceStays
<1>5. CASE PanelSteps
  BY <1>5, PanelKeeps
<1> QED
  BY <1>2, <1>3, <1>4, <1>5, DragFrameKeeps, RecenterKeeps, WheelKeeps, DisplayKeeps, HearsKeeps
     DEF StageNext, PanelSteps

LEMMA StageStays == StageInv /\ UNCHANGED stageVars => StageInv'
<1> SUFFICES ASSUME StageInv, UNCHANGED stageVars PROVE StageInv'
  OBVIOUS
<1>1. UNCHANGED <<work, settled, place>> /\ view' \in Views /\ wire' \in Seq(Messages) /\ carried' \in BOOLEAN
  BY DEF stageVars, place, StageInv, StageKinds
<1> QED
  BY <1>1, PlaceStays

(* The panel goes to and comes out of a character that stays.              *)
LEMMA OpensAroundIt ==
  ASSUME StageInv, [StageNext]_stageVars, open' # open, settled
  PROVE  /\ At' = At
         /\ open' => IF far' THEN At' + win'.w - Slack(scale) <= work
                             ELSE At' + Char(scale) - win'.w + Slack(scale) >= 0
<1>1. PanelSteps
  BY DEF StageNext, PanelSteps, stageVars, place, DragStart, DragEnd, DragFrame, Wheel, SetOrbScale, DisplayChanges,
         Recenter, OpenPanel, Unfold, Unfolded, ClosePanel, Draws, Hears
<1> QED
  BY <1>1, PanelKeeps

(***************************************************************************)
(* Routines                                                                *)
(***************************************************************************)
RtnInv == RtnTypeOK /\ OncePerDue /\ RunIsMarked

RoutinePlan == [on : BOOLEAN, time : {"early", "due", "late"}, ran : BOOLEAN]

LEMMA RtnStarts == RtnInit => RtnInv
<1> SUFFICES ASSUME RtnInit PROVE RtnInv
  OBVIOUS
<1>1. lamp \in BOOLEAN
  BY Zenon DEF RtnInit
<1>2. inTheDark \in BOOLEAN
  BY Zenon DEF RtnInit
<1>3. [on |-> TRUE, time |-> "early", ran |-> FALSE] \in RoutinePlan
  BY DEF RoutinePlan
<1>4. plan \in [Routines -> RoutinePlan] /\ asked \in [Routines -> 0..2]
  BY <1>3 DEF RtnInit
<1>5. kills \in 0..MaxKills /\ queue = {} /\ doing = {} /\ \A r \in Routines : asked[r] = 0
  BY RoutinesAssumption DEF RtnInit
<1>6. RtnTypeOK
  BY <1>1, <1>2, <1>4, <1>5 DEF RtnTypeOK, RoutinePlan
<1> QED
  BY <1>5, <1>6 DEF RtnInv, OncePerDue, RunIsMarked

LEMMA RtnTimes ==
  ASSUME RtnInv, NEW r \in Routines, TimePasses(r)
  PROVE  RtnInv'
<1>1. plan \in [Routines -> RoutinePlan] /\ plan[r] \in RoutinePlan /\ asked \in [Routines -> 0..2]
  BY DEF RtnInv, RtnTypeOK, RoutinePlan
<1>2. PICK p : p = CASE plan[r].time = "early" -> [plan[r] EXCEPT !.time = "due"]
                     [] plan[r].time = "due"   -> [plan[r] EXCEPT !.time = "late"]
                     [] plan[r].time = "late"  -> [plan[r] EXCEPT !.time = "early", !.ran = FALSE]
  OBVIOUS
<1>3. p \in RoutinePlan /\ (plan[r].time # "late" => p.ran = plan[r].ran)
  BY <1>1, <1>2 DEF RoutinePlan
<1>4. plan' = [plan EXCEPT ![r] = p]
  BY <1>2, Zenon DEF TimePasses
<1>5. plan' \in [Routines -> RoutinePlan]
  BY <1>1, <1>3, <1>4
<1>6. asked' \in [Routines -> 0..2]
  BY <1>1 DEF TimePasses
<1>7. RtnTypeOK'
  BY <1>5, <1>6 DEF TimePasses, RtnInv, RtnTypeOK, RoutinePlan
<1>8. \A q \in Routines \ {r} : asked'[q] = asked[q] /\ plan'[q] = plan[q]
  BY <1>1, <1>4 DEF TimePasses
<1>9. asked'[r] = (IF plan[r].time = "late" THEN 0 ELSE asked[r]) /\ plan'[r] = p
  BY <1>1, <1>4 DEF TimePasses
<1>10. plan[r].time = "late" => r \notin queue
  BY DEF TimePasses
<1>11. \A q \in Routines : /\ asked'[q] <= 1
                           /\ asked'[q] = 0 \/ plan'[q].ran
                           /\ q \in queue => ~plan'[q].ran
  BY <1>3, <1>8, <1>9, <1>10 DEF RtnInv, OncePerDue, RunIsMarked
<1>12. \A q \in Routines : q \in queue => q \notin doing
  BY DEF RtnInv, RunIsMarked
<1> QED
  BY <1>7, <1>11, <1>12 DEF RtnInv, OncePerDue, RunIsMarked, TimePasses

LEMMA RtnRuns ==
  ASSUME RtnInv, NEW r \in Routines, RunsNext(r)
  PROVE  RtnInv'
<1>1. plan \in [Routines -> RoutinePlan] /\ asked \in [Routines -> 0..2] /\ queue \subseteq Routines
  BY DEF RtnInv, RtnTypeOK, RoutinePlan
<1>2. r \in queue /\ ~plan[r].ran /\ asked[r] = 0
  BY DEF RunsNext, RtnInv, RunIsMarked
<1>3. plan' = [plan EXCEPT ![r].ran = TRUE] /\ asked' = [asked EXCEPT ![r] = 1]
  BY <1>1, <1>2 DEF RunsNext, Starts
<1>4. [plan[r] EXCEPT !.ran = TRUE] \in RoutinePlan
  BY <1>1 DEF RoutinePlan
<1>5. plan' \in [Routines -> RoutinePlan] /\ plan'[r].ran /\ \A q \in Routines \ {r} : plan'[q] = plan[q]
  BY <1>1, <1>3, <1>4 DEF RoutinePlan
<1>6. asked' \in [Routines -> 0..2] /\ asked'[r] = 1 /\ \A q \in Routines \ {r} : asked'[q] = asked[q]
  BY <1>1, <1>3
<1>7. queue' = queue \ {r} /\ doing' = {r} /\ UNCHANGED <<lamp, kills>>
  BY DEF RunsNext
<1>8. inTheDark' \in BOOLEAN
  BY Zenon DEF RunsNext
<1>9. RtnTypeOK'
  BY <1>1, <1>5, <1>6, <1>7, <1>8 DEF RtnInv, RtnTypeOK, RoutinePlan
<1> QED
  BY <1>5, <1>6, <1>7, <1>9 DEF RtnInv, OncePerDue, RunIsMarked

LEMMA RtnKeeps == RtnInv /\ RtnNext => RtnInv'
<1> SUFFICES ASSUME RtnInv, RtnNext PROVE RtnInv'
  OBVIOUS
<1>1. plan \in [Routines -> RoutinePlan] /\ asked \in [Routines -> 0..2] /\ queue \subseteq Routines
  BY DEF RtnInv, RtnTypeOK, RoutinePlan
<1>2. CASE LampSwitched
  <2>1. lamp' \in BOOLEAN
    BY <1>2, Zenon DEF LampSwitched
  <2> QED
    BY <1>2, <2>1 DEF LampSwitched, RtnInv, RtnTypeOK, OncePerDue, RunIsMarked
<1>3. CASE RunnerTick
  BY <1>3 DEF RunnerTick, Due, RtnInv, RtnTypeOK, OncePerDue, RunIsMarked
<1>4. CASE Killed
  <2>1. lamp' \in BOOLEAN /\ kills' \in 0..MaxKills
    <3>1. lamp' \in BOOLEAN
      BY <1>4, Zenon DEF Killed
    <3> QED
      BY <1>4, <3>1, RoutinesAssumption DEF Killed, RtnInv, RtnTypeOK
  <2> QED
    BY <1>4, <2>1 DEF Killed, RtnInv, RtnTypeOK, OncePerDue, RunIsMarked
<1>5. CASE \E r \in Routines : TimePasses(r)
  BY <1>5, RtnTimes
<1>6. CASE \E r \in Routines : RunsNext(r)
  BY <1>6, RtnRuns
<1>7. CASE \E r \in Routines : RoutineSet(r)
  <2>1. PICK r \in Routines : RoutineSet(r)
    BY <1>7
  <2>2. [plan[r] EXCEPT !.on = ~@] \in RoutinePlan /\ [plan[r] EXCEPT !.on = ~@].ran = plan[r].ran
    BY <1>1 DEF RoutinePlan
  <2>3. plan' \in [Routines -> RoutinePlan] /\ \A q \in Routines : plan'[q].ran = plan[q].ran
    BY <1>1, <2>1, <2>2 DEF RoutineSet
  <2> QED
    BY <2>1, <2>3 DEF RoutineSet, RtnInv, RtnTypeOK, OncePerDue, RunIsMarked, RoutinePlan
<1>8. CASE \E r \in Routines : RoutineEnds(r)
  BY <1>8 DEF RoutineEnds, RtnInv, RtnTypeOK, OncePerDue, RunIsMarked
<1> QED
  BY <1>2, <1>3, <1>4, <1>5, <1>6, <1>7, <1>8, Zenon DEF RtnNext

LEMMA RtnStays == RtnInv /\ UNCHANGED rtnVars => RtnInv'
  BY DEF rtnVars, RtnInv, RtnTypeOK, OncePerDue, RunIsMarked

(***************************************************************************)
(* The initiative                                                          *)
(***************************************************************************)
(* What was ever held was raised, by one of the two watchers and once; and *)
(* moments that is still asking had a word left today.                     *)
Waiting == IF pending # None THEN 1 ELSE 0
Raised == Cardinality(topics) + Cardinality(seen)
InitiativeKinds ==
  /\ lit \in BOOLEAN /\ quiet \in BOOLEAN /\ rested \in BOOLEAN
  /\ busy \in BOOLEAN /\ volunteer \in BOOLEAN
  /\ stale \in BOOLEAN /\ beckon \in BOOLEAN /\ opening \in BOOLEAN
  /\ asking \subseteq {"moments", "patterns"} /\ topics \subseteq Topics /\ seen \subseteq Topics
  /\ card \in {"plain", "held", "passing"} /\ pending \in Topics \cup {None}
InitiativeCounts ==
  /\ today \in 0..MaxPerDay /\ days \in 0..MaxDays
  /\ fates \in Nat /\ before \in Nat /\ held \in Nat /\ reported \in Nat
  /\ "moments" \in asking => today < MaxPerDay
  /\ fates = reported /\ before <= fates
  /\ reported + Waiting <= held /\ held <= Raised
InitiativeInv == InitiativeKinds /\ InitiativeCounts

LEMMA RaisedIs ==
  ASSUME topics \subseteq Topics, seen \subseteq Topics
  PROVE  /\ IsFiniteSet(topics) /\ IsFiniteSet(seen)
         /\ Cardinality(topics) \in Nat /\ Cardinality(seen) \in Nat /\ Raised \in Nat /\ Raised <= MaxTold /\ MaxTold \in Nat
<1>1. /\ IsFiniteSet(topics) /\ Cardinality(topics) <= Cardinality(Topics)
      /\ IsFiniteSet(seen) /\ Cardinality(seen) <= Cardinality(Topics)
  BY FS_Subset, InitiativeAssumption
<1>2. Cardinality(topics) \in Nat /\ Cardinality(seen) \in Nat /\ Cardinality(Topics) \in Nat
  BY <1>1, FS_CardinalityType, InitiativeAssumption
<1> QED
  BY <1>1, <1>2 DEF Raised, MaxTold

LEMMA InitiativeFollows == InitiativeInv => InitiativeTypeOK /\ FatesAreKept
<1> SUFFICES ASSUME InitiativeInv PROVE InitiativeTypeOK /\ FatesAreKept
  OBVIOUS
<1>1. Raised \in Nat /\ Raised <= MaxTold /\ MaxTold \in Nat
  BY RaisedIs DEF InitiativeInv, InitiativeKinds
<1>2. Waiting \in Nat
  BY DEF Waiting
<1>3. fates \in 0..MaxTold /\ before \in 0..MaxTold /\ held \in 0..MaxTold /\ reported \in 0..MaxTold
  BY <1>1, <1>2 DEF InitiativeInv, InitiativeCounts
<1>4. InitiativeTypeOK
  BY <1>3 DEF InitiativeInv, InitiativeCounts, InitiativeKinds, InitiativeTypeOK
<1>5. FatesAreKept
  BY DEF InitiativeInv, InitiativeCounts, FatesAreKept, Waiting
<1> QED
  BY <1>4, <1>5

LEMMA InitiativeStarts == InitiativeInit => InitiativeInv
<1> SUFFICES ASSUME InitiativeInit PROVE InitiativeInv
  OBVIOUS
<1>1. lit \in BOOLEAN /\ volunteer \in BOOLEAN
  BY Zenon DEF InitiativeInit
<1>2. InitiativeKinds
  BY <1>1 DEF InitiativeInit, InitiativeKinds
<1>3. Raised = 0
  BY FS_EmptySet DEF InitiativeInit, Raised
<1>4. InitiativeCounts
  BY <1>3, InitiativeAssumption DEF InitiativeInit, InitiativeCounts, Waiting
<1> QED
  BY <1>2, <1>4 DEF InitiativeInv

(* A suggestion the window is given is said or held, and one raised for    *)
(* the first time pays for being held.                                     *)
LEMMA SuggestionKeeps ==
  ASSUME InitiativeInv, NEW t \in Topics, OnSuggestion(t), volunteer' = volunteer, opening' = opening,
         reported' = reported
  PROVE  /\ busy' \in BOOLEAN /\ stale' \in BOOLEAN /\ beckon' \in BOOLEAN
         /\ card' \in {"plain", "held", "passing"} /\ pending' \in Topics \cup {None}
         /\ held' \in Nat /\ held' <= held + 1 /\ reported + Waiting' <= held'
<1>1. reported \in Nat /\ held \in Nat /\ reported <= held
  <2>1. Waiting \in Nat
    BY DEF Waiting
  <2> QED
    BY <2>1 DEF InitiativeInv, InitiativeCounts
<1>5. busy \in BOOLEAN /\ stale \in BOOLEAN /\ beckon \in BOOLEAN
  BY Zenon DEF InitiativeInv, InitiativeKinds
<1>2. CASE busy /\ Hold(t) /\ held' = held + 1 /\ UNCHANGED <<busy, beckon, card>>
  <2>1. Waiting' = 1
    BY <1>2, InitiativeAssumption DEF Hold, Waiting
  <2>2. reported + Waiting' <= held'
    BY <1>1, <1>2, <2>1
  <2>3. busy' \in BOOLEAN /\ stale' \in BOOLEAN /\ beckon' \in BOOLEAN
    BY <1>2, <1>5, Zenon DEF Hold
  <2>4. card' \in {"plain", "held", "passing"} /\ pending' \in Topics \cup {None}
    BY <1>2 DEF Hold, InitiativeInv, InitiativeKinds
  <2>5. held' \in Nat /\ held' <= held + 1
    BY <1>1, <1>2
  <2> QED
    BY <2>2, <2>3, <2>4, <2>5
<1>3. CASE ~busy /\ volunteer /\ pending' = None /\ stale' = FALSE /\ busy' = TRUE /\ UNCHANGED <<beckon, card, held>>
  <2>1. Waiting' = 0
    BY <1>3 DEF Waiting
  <2>2. reported + Waiting' <= held'
    BY <1>1, <1>3, <2>1
  <2>3. busy' \in BOOLEAN /\ stale' \in BOOLEAN /\ beckon' \in BOOLEAN
    BY <1>3, <1>5, Zenon 
  <2>4. card' \in {"plain", "held", "passing"} /\ pending' \in Topics \cup {None}
    BY <1>3 DEF InitiativeInv, InitiativeKinds
  <2>5. held' \in Nat /\ held' <= held + 1
    BY <1>1, <1>3
  <2> QED
    BY <2>2, <2>3, <2>4, <2>5
<1>4. CASE ~busy /\ ~volunteer /\ Hold(t) /\ held' = held + 1 /\ beckon' = TRUE /\ card' = "held" /\ UNCHANGED busy
  <2>1. Waiting' = 1
    BY <1>4, InitiativeAssumption DEF Hold, Waiting
  <2>2. reported + Waiting' <= held'
    BY <1>1, <1>4, <2>1
  <2>3. busy' \in BOOLEAN /\ stale' \in BOOLEAN /\ beckon' \in BOOLEAN
    BY <1>4, <1>5, Zenon DEF Hold
  <2>4. card' \in {"plain", "held", "passing"} /\ pending' \in Topics \cup {None}
    BY <1>4 DEF Hold, InitiativeInv, InitiativeKinds
  <2>5. held' \in Nat /\ held' <= held + 1
    BY <1>1, <1>4
  <2> QED
    BY <2>2, <2>3, <2>4, <2>5
<1> QED
  BY <1>2, <1>3, <1>4 DEF OnSuggestion

LEMMA WorthSayingKeeps ==
  ASSUME InitiativeInv, NEW t \in Topics, WorthSaying(t)
  PROVE  InitiativeInv'
<1> USE InitiativeAssumption
<1>1. /\ busy' \in BOOLEAN /\ stale' \in BOOLEAN /\ beckon' \in BOOLEAN
      /\ card' \in {"plain", "held", "passing"} /\ pending' \in Topics \cup {None}
      /\ held' \in Nat /\ held' <= held + 1 /\ reported + Waiting' <= held'
  BY SuggestionKeeps DEF WorthSaying
<1>2. topics' = topics \cup {t} /\ t \notin topics /\ topics' \subseteq Topics /\ seen' = seen
  BY DEF WorthSaying, InitiativeInv, InitiativeKinds
<1>3. IsFiniteSet(topics) /\ Cardinality(topics) \in Nat /\ Cardinality(seen) \in Nat
  BY RaisedIs DEF InitiativeInv, InitiativeKinds
<1>4. Cardinality(topics \cup {t}) = Cardinality(topics) + 1
  BY <1>2, <1>3, FS_AddElement
<1>5. Raised' = Raised + 1 /\ Raised \in Nat
  BY <1>2, <1>3, <1>4 DEF Raised
<1>6. InitiativeKinds'
  BY <1>1, <1>2 DEF WorthSaying, InitiativeInv, InitiativeKinds
<1>7. today \in 0..MaxPerDay /\ today < MaxPerDay /\ today' = today + 1 /\ "moments" \notin asking'
  BY DEF WorthSaying, InitiativeInv, InitiativeCounts
<1>8. fates' = fates /\ reported' = reported /\ before' = before /\ days' = days
  BY DEF WorthSaying, Outcomes
<1>9. InitiativeCounts'
  BY <1>1, <1>5, <1>7, <1>8 DEF InitiativeInv, InitiativeCounts
<1> QED
  BY <1>6, <1>9 DEF InitiativeInv

LEMMA NoticedKeeps ==
  ASSUME InitiativeInv, NEW t \in Topics, Noticed(t)
  PROVE  InitiativeInv'
<1> USE InitiativeAssumption
<1>1. /\ busy' \in BOOLEAN /\ stale' \in BOOLEAN /\ beckon' \in BOOLEAN
      /\ card' \in {"plain", "held", "passing"} /\ pending' \in Topics \cup {None}
      /\ held' \in Nat /\ held' <= held + 1 /\ reported + Waiting' <= held'
  BY SuggestionKeeps DEF Noticed
<1>2. seen' = seen \cup {t} /\ t \notin seen /\ seen' \subseteq Topics /\ topics' = topics
  BY DEF Noticed, InitiativeInv, InitiativeKinds
<1>3. IsFiniteSet(seen) /\ Cardinality(topics) \in Nat /\ Cardinality(seen) \in Nat
  BY RaisedIs DEF InitiativeInv, InitiativeKinds
<1>4. Cardinality(seen \cup {t}) = Cardinality(seen) + 1
  BY <1>2, <1>3, FS_AddElement
<1>5. Raised' = Raised + 1 /\ Raised \in Nat
  BY <1>2, <1>3, <1>4 DEF Raised
<1>6. InitiativeKinds'
  BY <1>1, <1>2 DEF Noticed, InitiativeInv, InitiativeKinds
<1>8. /\ fates' = fates /\ reported' = reported /\ before' = before /\ days' = days /\ today' = today
      /\ "moments" \in asking' => "moments" \in asking
  BY DEF Noticed
<1>9. InitiativeCounts'
  BY <1>1, <1>5, <1>8 DEF InitiativeInv, InitiativeCounts
<1> QED
  BY <1>6, <1>9 DEF InitiativeInv

LEMMA InitiativeKeeps == InitiativeInv /\ InitiativeNext => InitiativeInv'
<1> SUFFICES ASSUME InitiativeInv, InitiativeNext PROVE InitiativeInv'
  OBVIOUS
<1> USE InitiativeAssumption
<1>1. /\ InitiativeKinds /\ InitiativeCounts
      /\ lit \in BOOLEAN /\ quiet \in BOOLEAN /\ rested \in BOOLEAN
      /\ busy \in BOOLEAN /\ volunteer \in BOOLEAN
      /\ stale \in BOOLEAN /\ beckon \in BOOLEAN /\ opening \in BOOLEAN
  BY DEF InitiativeInv, InitiativeKinds
<1>2. CASE LightChanges
  <2>1. lit' \in BOOLEAN
    BY <1>2, Zenon DEF LightChanges
  <2> QED
    BY <1>2, <2>1 DEF LightChanges, renderer, InitiativeInv, InitiativeKinds, InitiativeCounts, Waiting, Raised
<1>3. CASE TalkChanges
  <2>1. busy' \in BOOLEAN /\ quiet' \in BOOLEAN
    BY <1>3, Zenon DEF TalkChanges
  <2> QED
    BY <1>3, <2>1 DEF TalkChanges, InitiativeInv, InitiativeKinds, InitiativeCounts, Waiting, Raised
<1>4. CASE SetVolunteer
  <2>1. volunteer' \in BOOLEAN
    BY <1>4, Zenon DEF SetVolunteer
  <2> QED
    BY <1>4, <2>1 DEF SetVolunteer, main, InitiativeInv, InitiativeKinds, InitiativeCounts, Waiting, Raised
<1>5. CASE CooldownEnds
  BY <1>5 DEF CooldownEnds, renderer, InitiativeInv, InitiativeKinds, InitiativeCounts, Waiting, Raised
<1>6. CASE NextDay
  BY <1>6 DEF NextDay, renderer, InitiativeInv, InitiativeKinds, InitiativeCounts, Waiting, Raised
<1>7. CASE Consider
  BY <1>7 DEF Consider, Gate, renderer, InitiativeInv, InitiativeKinds, InitiativeCounts, Waiting, Raised
<1>8. CASE Look
  BY <1>8 DEF Look, renderer, InitiativeInv, InitiativeKinds, InitiativeCounts, Waiting, Raised
<1>9. CASE \E w \in asking : LetItPass(w)
  BY <1>9 DEF LetItPass, renderer, InitiativeInv, InitiativeKinds, InitiativeCounts, Waiting, Raised
<1>10. CASE \E t \in Topics : WorthSaying(t) \/ Noticed(t)
  BY <1>10, WorthSayingKeeps, NoticedKeeps
<1>11. CASE GoesStale
  BY <1>11 DEF GoesStale, main, InitiativeInv, InitiativeKinds, InitiativeCounts, Waiting, Raised
<1>17. ASSUME pending # None, pending' = None, Fate PROVE
         /\ fates' \in Nat /\ reported' \in Nat /\ fates' = reported'
         /\ before <= fates' /\ reported' + Waiting' <= held
  <2>1. Waiting = 1 /\ Waiting' = 0
    BY <1>17 DEF Waiting
  <2>2. fates' = fates + 1 /\ reported' = reported + 1
    BY <1>17 DEF Fate
  <2> QED
    BY <1>1, <2>1, <2>2 DEF InitiativeCounts
<1>12. CASE BeckonStops
  <2>1. CASE pending # None
    <3>1. pending' = None /\ Fate /\ stale' = FALSE /\ card' = "plain" /\ beckon' = FALSE
      BY <1>12, <2>1, Zenon DEF BeckonStops
    <3>2. UNCHANGED <<lit, quiet, asking, before, topics, seen, rested, today, days, busy, volunteer, opening, held>>
      BY <1>12 DEF BeckonStops
    <3> QED
      BY <1>1, <1>17, <2>1, <3>1, <3>2 DEF InitiativeInv, InitiativeKinds, InitiativeCounts, Raised
  <2>2. CASE pending = None
    BY <1>1, <1>12, <2>2 DEF BeckonStops, Fate, InitiativeInv, InitiativeKinds, InitiativeCounts, Waiting, Raised
  <2> QED
    BY <2>1, <2>2
<1>13. CASE Deliver
  BY <1>1, <1>13, <1>17 DEF Deliver, Taken, InitiativeInv, InitiativeKinds, InitiativeCounts, Raised
<1>14. CASE Delivered
  BY <1>14 DEF Delivered, InitiativeInv, InitiativeKinds, InitiativeCounts, Waiting, Raised
<1>15. CASE PassingNote
  BY <1>15 DEF PassingNote, main, InitiativeInv, InitiativeKinds, InitiativeCounts, Waiting, Raised
<1>16. CASE PassingNoteGoes
  BY <1>16 DEF PassingNoteGoes, main, InitiativeInv, InitiativeKinds, InitiativeCounts, Waiting, Raised
<1> QED
  BY <1>2, <1>3, <1>4, <1>5, <1>6, <1>7, <1>8, <1>9, <1>10, <1>11, <1>12, <1>13, <1>14, <1>15, <1>16, Zenon
     DEF InitiativeNext

LEMMA InitiativeStays == InitiativeInv /\ UNCHANGED initVars => InitiativeInv'
  BY DEF initVars, main, renderer, InitiativeInv, InitiativeKinds, InitiativeCounts, Waiting, Raised

(***************************************************************************)
(* The pairing                                                             *)
(***************************************************************************)
Tokens == 0..MaxTokens
PairInv ==
  /\ token \in [Origins -> Tokens] /\ hash \in [Origins -> Tokens] /\ given \in [Origins -> Tokens]
  /\ pairing \in [Origins -> BOOLEAN] /\ refused \in [Origins -> 0..1]
  /\ sent \in [Origins -> SUBSET (1..MaxTokens)]
  /\ question \in Origins \cup {Nobody} /\ denied \subseteq Origins
  /\ issued \in Tokens /\ resets \in 0..MaxResets /\ sleeps \in 0..MaxSleeps
  /\ question # Nobody => issued < MaxTokens
  /\ question \notin denied

LEMMA PairFollows == PairInv => PairTypeOK /\ DeniedStays
  BY DEF PairInv, PairTypeOK, DeniedStays, Tokens

LEMMA PairStarts == PairInit => PairInv
<1> SUFFICES ASSUME PairInit PROVE PairInv
  OBVIOUS
<1>1. 0 \in Tokens /\ 0 \in 0..1 /\ 0 \in 0..MaxResets /\ 0 \in 0..MaxSleeps
  BY PairingAssumption DEF Tokens
<1>2. pairing \in [Origins -> BOOLEAN]
  BY Zenon DEF PairInit
<1>3. question = Nobody /\ issued = 0 /\ denied = {}
  BY DEF PairInit
<1> QED
  BY <1>1, <1>2, <1>3 DEF PairInit, PairInv

LEMMA PairKeeps == PairInv /\ PairNext => PairInv'
<1> SUFFICES ASSUME PairInv, PairNext PROVE PairInv'
  OBVIOUS
<1> USE PairingAssumption
<1>1. 0 \in Tokens /\ 0 \in 0..1 /\ 1 \in 0..1
  BY DEF Tokens
<1>13. TRUE \in BOOLEAN /\ FALSE \in BOOLEAN /\ pairing \in [Origins -> BOOLEAN]
  BY Zenon DEF PairInv
<1>2. CASE \E o \in Origins : PostFrom(o)
  <2>1. PICK o \in Origins : PostFrom(o)
    BY <1>2
  <2>2. token[o] \in 1..MaxTokens
    BY <2>1 DEF PostFrom, PairInv, Tokens
  <2>3. sent' \in [Origins -> SUBSET (1..MaxTokens)]
    BY <2>1, <2>2 DEF PostFrom, PairInv
  <2> QED
    BY <2>1, <2>3 DEF PostFrom, PairInv, fren
<1>3. CASE \E o \in Origins : PairAttempt(o)
  <2>1. PICK o \in Origins : PairAttempt(o)
    BY <1>3
  <2>2. pairing' \in [Origins -> BOOLEAN]
    BY <1>13, <2>1, Zenon DEF PairAttempt
  <2> QED
    BY <2>1, <2>2 DEF PairAttempt, MayAsk, PairInv
<1>4. CASE \E o \in Origins : Refusal(o)
  <2>1. PICK o \in Origins : Refusal(o)
    BY <1>4
  <2>2. token' \in [Origins -> Tokens] /\ refused' \in [Origins -> 0..1]
    BY <1>1, <2>1 DEF Refusal, Forgotten, PairInv
  <2> QED
    BY <2>1, <2>2 DEF Refusal, PairInv, fren
<1>5. CASE \E o \in Origins : TokenArrives(o)
  <2>1. PICK o \in Origins : TokenArrives(o)
    BY <1>5
  <2>2. token' \in [Origins -> Tokens] /\ given' \in [Origins -> Tokens]
    BY <1>1, <2>1 DEF TokenArrives, PairInv
  <2>3. pairing' \in [Origins -> BOOLEAN]
    BY <1>13, <2>1, Zenon DEF TokenArrives
  <2> QED
    BY <2>1, <2>2, <2>3 DEF TokenArrives, PairInv, fren
<1>6. CASE \E o \in Origins : WorkerSleeps(o)
  <2>1. PICK o \in Origins : WorkerSleeps(o)
    BY <1>6
  <2>2. /\ sent' \in [Origins -> SUBSET (1..MaxTokens)] /\ refused' \in [Origins -> 0..1]
        /\ given' \in [Origins -> Tokens] /\ sleeps' \in 0..MaxSleeps
    BY <1>1, <2>1 DEF WorkerSleeps, PairInv
  <2>3. pairing' \in [Origins -> BOOLEAN]
    BY <1>13, <2>1, Zenon DEF WorkerSleeps
  <2> QED
    BY <2>1, <2>2, <2>3 DEF WorkerSleeps, PairInv, fren
<1>7. CASE \E o \in Origins : \E t \in sent[o] : Received(o, t)
  <2>1. PICK o \in Origins : \E t \in sent[o] : Received(o, t)
    BY <1>7
  <2>2. PICK t \in sent[o] : Received(o, t)
    BY <2>1
  <2>3. sent' \in [Origins -> SUBSET (1..MaxTokens)] /\ refused' \in [Origins -> 0..1]
    BY <1>1, <2>2 DEF Received, PairInv
  <2> QED
    BY <2>2, <2>3 DEF Received, PairInv, fren
<1>8. CASE Allow
  <2>1. issued' \in Tokens /\ question \in Origins /\ question' = Nobody /\ Nobody \notin denied'
    BY <1>8 DEF Allow, PairInv, Tokens
  <2>2. hash' \in [Origins -> Tokens] /\ given' \in [Origins -> Tokens]
    BY <1>1, <1>8, <2>1 DEF Allow, PairInv
  <2> QED
    BY <1>8, <2>1, <2>2 DEF Allow, PairInv
<1>9. CASE Deny
  <2>1. denied' \subseteq Origins /\ question' = Nobody /\ Nobody \notin denied'
    BY <1>9 DEF Deny, PairInv
  <2>3. pairing' \in [Origins -> BOOLEAN]
    BY <1>13, <1>9, Zenon DEF Deny
  <2> QED
    BY <1>9, <2>1, <2>3 DEF Deny, PairInv
<1>10. CASE FrenRestarts
  <2>1. pairing' \in [Origins -> BOOLEAN]
    BY <1>13, <1>10, Zenon DEF FrenRestarts
  <2>2. /\ hash' \in [Origins -> Tokens] /\ given' \in [Origins -> Tokens]
        /\ sent' \in [Origins -> SUBSET (1..MaxTokens)] /\ resets' \in 0..MaxResets
    BY <1>1, <1>10 DEF FrenRestarts, PairInv
  <2> QED
    BY <1>10, <2>1, <2>2 DEF FrenRestarts, PairInv
<1> QED
  BY <1>2, <1>3, <1>4, <1>5, <1>6, <1>7, <1>8, <1>9, <1>10, Zenon DEF PairNext

LEMMA PairStays == PairInv /\ UNCHANGED pairVars => PairInv'
  BY DEF pairVars, inFlight, fren, PairInv

(***************************************************************************)
(* Its own business                                                        *)
(***************************************************************************)
(* The chips: one that lets a site in again, one that sets a runner, one   *)
(* that destroys it or asks to.                                            *)
IncludeChip(n, d) == [on |-> n, call |-> "include", site |-> d, armed |-> FALSE]
SetChip(n, k, r) == [on |-> n, call |-> k, id |-> r, armed |-> FALSE]
DeleteChip(n, r, a) == [on |-> n, call |-> "delete", id |-> r, armed |-> a]

LEMMA ChipKinds ==
  /\ \A n \in 1..MaxTurns, d \in Domains : IncludeChip(n, d) \in Chips
  /\ \A n \in 1..MaxTurns, k \in {"enable", "pause"}, r \in Runners : SetChip(n, k, r) \in Chips
  /\ \A n \in 1..MaxTurns, r \in Runners, a \in BOOLEAN : DeleteChip(n, r, a) \in Chips
<1>1. ASSUME NEW n \in 1..MaxTurns, NEW d \in Domains PROVE IncludeChip(n, d) \in Chips
  BY DEF IncludeChip, Chips
<1>2. ASSUME NEW n \in 1..MaxTurns, NEW k \in {"enable", "pause"}, NEW r \in Runners PROVE SetChip(n, k, r) \in Chips
  BY DEF SetChip, Chips
<1>3. ASSUME NEW n \in 1..MaxTurns, NEW r \in Runners, NEW a \in BOOLEAN PROVE DeleteChip(n, r, a) \in Chips
  <2>1. DeleteChip(n, r, a) \in [on : 1 .. MaxTurns, call : {"delete"}, id : Runners, armed : BOOLEAN]
    BY Zenon DEF DeleteChip
  <2> QED
    BY <2>1 DEF Chips
<1> QED
  BY <1>1, <1>2, <1>3

LEMMA ChipForms ==
  ASSUME NEW c \in Chips
  PROVE  /\ c.on \in 1..MaxTurns /\ c.call \in {"include", "enable", "pause", "delete"} /\ c.armed \in BOOLEAN
         /\ c.call = "include" => c = IncludeChip(c.on, c.site) /\ c.site \in Domains
         /\ c.call \in {"enable", "pause"} => c = SetChip(c.on, c.call, c.id) /\ c.id \in Runners
         /\ c.call = "delete" => /\ c = DeleteChip(c.on, c.id, c.armed) /\ c.id \in Runners
                                 /\ \A a : [c EXCEPT !.armed = a] = DeleteChip(c.on, c.id, a)
         /\ c.armed => c.call = "delete"
<1>1. CASE c \in [on : 1 .. MaxTurns, call : {"include"}, site : Domains, armed : {FALSE}]
  BY <1>1 DEF IncludeChip
<1>2. CASE c \in [on : 1 .. MaxTurns, call : {"enable", "pause"}, id : Runners, armed : {FALSE}]
  BY <1>2 DEF SetChip
<1>3. CASE c \in [on : 1 .. MaxTurns, call : {"delete"}, id : Runners, armed : BOOLEAN]
  BY <1>3 DEF DeleteChip
<1> QED
  BY <1>1, <1>2, <1>3 DEF Chips

(* A chip that asks again and was asked for within one double click is     *)
(* young.                                                                  *)
NoDoubleClick ==
  \A c \in cards : c.armed /\ [c EXCEPT !.armed = FALSE] \in finger => c \in young
(* Words are read before a reply is said; those heard on the line reduce.  *)
WordsAreRead ==
  /\ told # Quiet => says = "" /\ turns >= 1 /\ (told.how = "spoken" => ReducesOnly(told.deed))
  /\ says # "refresh" => copySays = ("volunteer" \in mayDo)
BusInv == BusTypeOK /\ DestroyedOnPurpose /\ NoDoubleClick /\ WordsAreRead

LEMMA BusFollows == BusInv => TrueWhenSaid
  BY DEF BusInv, WordsAreRead, TrueWhenSaid

LEMMA BusStarts == BusInit => BusInv
<1> SUFFICES ASSUME BusInit PROVE BusInv
  OBVIOUS
<1>1. copySays \in BOOLEAN
  BY Zenon DEF BusInit
<1>2. "volunteer" \in mayDo
  BY DEF BusInit, Switches
<1>3. copySays = ("volunteer" \in mayDo)
  BY <1>2 DEF BusInit
<1>4. 0 \in 0 .. MaxTurns
  BY BusinessAssumption
<1> QED
  BY <1>1, <1>3, <1>4 DEF BusInit, BusInv, BusTypeOK, DestroyedOnPurpose, NoDoubleClick, WordsAreRead

LEMMA SaidKeeps ==
  ASSUME BusInv, NEW d \in Deed, NEW how \in {"typed", "spoken"}, Said(how, d)
  PROVE  BusInv'
<1>1. told' = [how |-> how, deed |-> d] /\ told' \in [how : {"typed", "spoken"}, deed : Deed]
  BY DEF Said
<1>2. turns' \in 0..MaxTurns /\ turns' >= 1
  <2>1. turns \in 0..MaxTurns
    BY DEF BusInv, BusTypeOK
  <2>2. turns < MaxTurns /\ turns' = turns + 1
    BY DEF Said
  <2> QED
    BY <2>1, <2>2, BusinessAssumption
<1>3. told'.how = "spoken" => ReducesOnly(told'.deed)
  <2>1. told'.how = how /\ told'.deed = d
    BY <1>1
  <2>2. how = "spoken" => ReducesOnly(d)
    BY Zenon DEF Said
  <2> QED
    BY <2>1, <2>2, Zenon
<1>4. BusTypeOK'
  BY <1>1, <1>2 DEF Said, BusInv, BusTypeOK
<1> QED
  BY <1>2, <1>3, <1>4 DEF Said, BusInv, DestroyedOnPurpose, NoDoubleClick, WordsAreRead

(* What is drawn anew asks nothing again.                                  *)
LEMMA DrawnKeeps ==
  ASSUME BusInv, NEW S \in SUBSET Chips, \A c \in S : ~c.armed, Drawn(S), finger' = finger
  PROVE  cards' \subseteq Chips /\ young' \subseteq cards' /\ NoDoubleClick'
<1>1. cards' = cards \cup S /\ young' = young \cup S
  BY DEF Drawn
<1> QED
  BY <1>1 DEF BusInv, BusTypeOK, NoDoubleClick

LEMMA RunnerChipsAre ==
  ASSUME NEW as \in [Runners -> {"on", "off", "gone"}], NEW n \in 1..MaxTurns
  PROVE  RunnerChips(as, n) \subseteq Chips /\ \A c \in RunnerChips(as, n) : ~c.armed
<1>1. ASSUME NEW c \in RunnerChips(as, n) PROVE c \in Chips /\ ~c.armed
  <2>1. \/ \E r \in Runners, k \in {"enable", "pause"} : c = SetChip(n, k, r)
        \/ \E r \in Runners : c = DeleteChip(n, r, FALSE)
    BY <1>1 DEF RunnerChips, SetChip, DeleteChip
  <2>2. c \in Chips
    BY <2>1, ChipKinds
  <2>3. ~c.armed
    BY <2>1 DEF SetChip, DeleteChip
  <2> QED
    BY <2>2, <2>3
<1> QED
  BY <1>1

LEMMA DoneKeeps == ASSUME BusInv, Done PROVE BusInv'
<1>1. told.deed \in Deed /\ turns \in 1..MaxTurns /\ says = "" /\ told # Quiet
  <2>1. told # Quiet
    BY Zenon DEF Done
  <2>2. told \in {Quiet} \cup [how : {"typed", "spoken"}, deed : Deed] /\ turns \in 0..MaxTurns
    BY DEF BusInv, BusTypeOK
  <2>3. says = "" /\ turns >= 1
    BY <2>1, Zenon DEF BusInv, WordsAreRead
  <2>4. told.deed \in Deed
    BY <2>1, <2>2
  <2>5. turns \in 1..MaxTurns
    <3>1. turns \in 0..MaxTurns /\ MaxTurns \in Nat
      BY <2>2, BusinessAssumption, Zenon
    <3>2. turns >= 1
      BY <2>3, Zenon
    <3> QED
      BY <3>1, <3>2
  <2> QED
    BY <2>1, <2>3, <2>4, <2>5
<1>2. told' = Quiet /\ says' = (IF told.deed.verb = "volunteer" THEN "refresh" ELSE "reply")
      /\ UNCHANGED <<runsAs, copySays, finger, goneBy, turns>>
  BY DEF Done
<1>3. copySays = ("volunteer" \in mayDo)
  BY <1>1, Zenon DEF BusInv, WordsAreRead
<1>4. CASE told.deed.verb \in Switches /\ Switched(told.deed)
  <2>1. mayDo' \subseteq Switches /\ UNCHANGED <<mine, cards, young>>
    BY <1>4 DEF Switched, BusInv, BusTypeOK
  <2>2. told.deed.verb # "volunteer" => (("volunteer" \in mayDo') <=> ("volunteer" \in mayDo))
    BY <1>4 DEF Switched
  <2>3. says' # "refresh" => copySays' = ("volunteer" \in mayDo')
    <3>1. CASE told.deed.verb = "volunteer"
      BY <1>2, <3>1
    <3>2. CASE told.deed.verb # "volunteer"
      <4>1. ("volunteer" \in mayDo') \in BOOLEAN /\ ("volunteer" \in mayDo) \in BOOLEAN
        OBVIOUS
      <4>2. ("volunteer" \in mayDo') = ("volunteer" \in mayDo)
        BY <2>2, <3>2, <4>1
      <4>3. copySays' = copySays
        BY <1>2
      <4> QED
        BY <1>3, <4>2, <4>3, Zenon
    <3> QED
      BY <3>1, <3>2
  <2> QED
    BY <1>2, <2>1, <2>3 DEF BusInv, BusTypeOK, DestroyedOnPurpose, NoDoubleClick, WordsAreRead
<1>5. CASE told.deed.verb = "exclude" /\ Excluded(told.deed)
  <2>1. told.deed.site \in Domains
    <3>1. PICK d : d = told.deed /\ d \in Deed /\ d.verb = "exclude"
      BY <1>1, <1>5
    <3>2. d \notin [verb : Switches, on : BOOLEAN] /\ d # [verb |-> "running"]
      BY <3>1 DEF Switches
    <3>3. d \in [verb : {"exclude", "include"}, site : Domains]
      BY <3>1, <3>2, Zenon DEF Deed
    <3> QED
      BY <3>1, <3>3
  <2>2. cards' \subseteq Chips /\ young' \subseteq cards' /\ NoDoubleClick'
    <3>1. CASE UNCHANGED <<cards, young>>
      BY <1>2, <3>1 DEF BusInv, BusTypeOK, NoDoubleClick
    <3>2. CASE Drawn({[on |-> turns, call |-> "include", site |-> told.deed.site, armed |-> FALSE]})
      <4>1. IncludeChip(turns, told.deed.site) \in Chips
        BY <1>1, <2>1, ChipKinds
      <4>2. ~IncludeChip(turns, told.deed.site).armed
        BY DEF IncludeChip
      <4>3. Drawn({IncludeChip(turns, told.deed.site)})
        BY <3>2 DEF IncludeChip
      <4> QED
        BY <1>2, <4>1, <4>2, <4>3, DrawnKeeps
    <3> QED
      BY <1>5, <3>1, <3>2, Zenon DEF Excluded
  <2>3. mine' \subseteq Domains /\ mayDo' = mayDo
    BY <1>5, <2>1 DEF Excluded, BusInv, BusTypeOK
  <2>4. copySays' = ("volunteer" \in mayDo')
    BY <1>2, <1>3, <2>3, Zenon
  <2> QED
    BY <1>2, <2>2, <2>3, <2>4 DEF BusInv, BusTypeOK, DestroyedOnPurpose, WordsAreRead
<1>6. CASE told.deed.verb = "include" /\ Included(told.deed)
  <2>1. mine' \subseteq Domains /\ UNCHANGED <<mayDo, cards, young>>
    BY <1>6 DEF Included, BusInv, BusTypeOK
  <2>2. copySays' = ("volunteer" \in mayDo')
    BY <1>2, <1>3, <2>1, Zenon
  <2> QED
    BY <1>2, <2>1, <2>2 DEF BusInv, BusTypeOK, DestroyedOnPurpose, NoDoubleClick, WordsAreRead
<1>7. CASE told.deed.verb = "running" /\ Drawn(RunnerChips(runsAs, turns)) /\ UNCHANGED <<mayDo, mine>>
  <2>1. RunnerChips(runsAs, turns) \subseteq Chips /\ \A c \in RunnerChips(runsAs, turns) : ~c.armed
    BY <1>1, RunnerChipsAre DEF BusInv, BusTypeOK
  <2>2. cards' \subseteq Chips /\ young' \subseteq cards' /\ NoDoubleClick'
    BY <1>2, <1>7, <2>1, DrawnKeeps
  <2>3. copySays' = ("volunteer" \in mayDo')
    BY <1>2, <1>3, <1>7, Zenon
  <2> QED
    BY <1>2, <1>7, <2>2, <2>3 DEF BusInv, BusTypeOK, DestroyedOnPurpose, WordsAreRead
<1> QED
  BY <1>4, <1>5, <1>6, <1>7, Zenon DEF Done

LEMMA RedrawnKeeps ==
  ASSUME BusInv, NEW c \in cards, Redrawn(c), runsAs' \in [Runners -> {"on", "off", "gone"}],
         finger' = finger \cup {c}, c.armed \/ c.call # "delete"
  PROVE  cards' \subseteq Chips /\ young' \subseteq cards' /\ NoDoubleClick'
<1>1. c \in Chips /\ c.on \in 1..MaxTurns
  BY ChipForms DEF BusInv, BusTypeOK
<1>2. PICK now : now = RunnerChips(runsAs', c.on)
  OBVIOUS
<1>3. now \subseteq Chips /\ \A k \in now : ~k.armed
  BY <1>1, <1>2, RunnerChipsAre
<1>4. PICK others : others = {k \in cards : k.on # c.on}
  OBVIOUS
<1>5. cards' = others \cup now /\ young' = (young \cap others) \cup now
  BY <1>2, <1>4, Zenon DEF Redrawn
<1>6. ASSUME NEW k \in cards', k.armed, [k EXCEPT !.armed = FALSE] \in finger' PROVE k \in young'
  <2>1. k \in others /\ k \in cards /\ k \in Chips /\ k.call = "delete"
    BY <1>3, <1>4, <1>5, <1>6, ChipForms DEF BusInv, BusTypeOK
  <2>2. [k EXCEPT !.armed = FALSE] = DeleteChip(k.on, k.id, FALSE)
    BY <2>1, ChipForms
  <2>3. [k EXCEPT !.armed = FALSE] # c
    BY <2>2 DEF DeleteChip
  <2>4. k \in young
    BY <1>6, <2>1, <2>3 DEF BusInv, NoDoubleClick
  <2> QED
    BY <1>5, <2>1, <2>4
<1> QED
  BY <1>3, <1>4, <1>5, <1>6 DEF BusInv, BusTypeOK, NoDoubleClick

LEMMA PressKeeps ==
  ASSUME BusInv, NEW c \in cards, Press(c)
  PROVE  BusInv'
<1>1. c \in Chips /\ c \notin young /\ finger' = finger \cup {c} /\ UNCHANGED <<mayDo, told, copySays, says, turns>>
  BY DEF Press, BusInv, BusTypeOK
<1>2. finger' \subseteq Chips /\ WordsAreRead'
  BY <1>1 DEF BusInv, BusTypeOK, WordsAreRead
<1>3. CASE c.call = "delete" /\ ~c.armed /\ Armed(c) /\ UNCHANGED <<mine, runsAs, goneBy>>
  <2>1. PICK a : a = [c EXCEPT !.armed = TRUE]
    OBVIOUS
  <2>2. a = DeleteChip(c.on, c.id, TRUE) /\ c = DeleteChip(c.on, c.id, FALSE)
        /\ c.on \in 1..MaxTurns /\ c.id \in Runners
    BY <1>1, <1>3, <2>1, ChipForms
  <2>3. a \in Chips
    BY <2>2, ChipKinds
  <2>4. cards' = (cards \ {c}) \cup {a} /\ young' = (young \ {c}) \cup {a}
    BY <1>3, <2>1, Zenon DEF Armed
  <2>5. cards' \subseteq Chips /\ young' \subseteq cards'
    BY <2>3, <2>4 DEF BusInv, BusTypeOK
  <2>6. ASSUME NEW k \in cards', k.armed, [k EXCEPT !.armed = FALSE] \in finger' PROVE k \in young'
    <3>1. CASE k = a
      BY <2>4, <3>1
    <3>2. CASE k # a
      <4>1. k \in cards \ {c} /\ k \in Chips /\ k.call = "delete"
        BY <2>4, <2>6, <3>2, ChipForms DEF BusInv, BusTypeOK
      <4>2. [k EXCEPT !.armed = FALSE] = DeleteChip(k.on, k.id, FALSE) /\ k = DeleteChip(k.on, k.id, TRUE)
        BY <2>6, <4>1, ChipForms
      <4>3. [k EXCEPT !.armed = FALSE] # c
        <5>1. ASSUME [k EXCEPT !.armed = FALSE] = c PROVE FALSE
          <6>1. k.on = c.on /\ k.id = c.id
            BY <2>2, <4>2, <5>1 DEF DeleteChip
          <6> QED
            BY <2>2, <3>2, <4>2, <6>1
        <5> QED
          BY <5>1
      <4>4. k \in young /\ k # c
        BY <1>1, <2>6, <4>1, <4>3 DEF BusInv, NoDoubleClick
      <4> QED
        BY <2>4, <4>4
    <3> QED
      BY <3>1, <3>2
  <2>7. NoDoubleClick'
    BY <2>6 DEF NoDoubleClick
  <2> QED
    BY <1>1, <1>2, <1>3, <2>5, <2>7 DEF BusInv, BusTypeOK, DestroyedOnPurpose
<1>4. CASE /\ c.call = "delete" /\ c.armed
           /\ runsAs' = [runsAs EXCEPT ![c.id] = "gone"]
           /\ goneBy' = [goneBy EXCEPT ![c.id] =
                IF runsAs[c.id] # "gone" /\ [c EXCEPT !.armed = FALSE] \in finger THEN 1 ELSE @]
           /\ Redrawn(c) /\ UNCHANGED mine
  <2>1. c.id \in Runners /\ [c EXCEPT !.armed = FALSE] \notin finger
    BY <1>1, <1>4, ChipForms DEF BusInv, NoDoubleClick
  <2>2. goneBy' = [goneBy EXCEPT ![c.id] = goneBy[c.id]]
    BY <1>4, <2>1, Zenon
  <2>3. goneBy' = goneBy
    BY <2>1, <2>2 DEF BusInv, BusTypeOK
  <2>4. runsAs' \in [Runners -> {"on", "off", "gone"}]
    BY <1>4 DEF BusInv, BusTypeOK
  <2>5. cards' \subseteq Chips /\ young' \subseteq cards' /\ NoDoubleClick'
    BY <1>1, <1>4, <2>4, RedrawnKeeps
  <2> QED
    BY <1>1, <1>2, <1>4, <2>3, <2>4, <2>5 DEF BusInv, BusTypeOK, DestroyedOnPurpose
<1>5. CASE c.call \in {"enable", "pause"} /\ SetTo(c) /\ Redrawn(c) /\ UNCHANGED <<mine, goneBy>>
  <2>1. runsAs' \in [Runners -> {"on", "off", "gone"}]
    BY <1>5 DEF SetTo, BusInv, BusTypeOK
  <2>2. cards' \subseteq Chips /\ young' \subseteq cards' /\ NoDoubleClick'
    BY <1>1, <1>5, <2>1, RedrawnKeeps
  <2> QED
    BY <1>1, <1>2, <1>5, <2>1, <2>2 DEF BusInv, BusTypeOK, DestroyedOnPurpose
<1>6. CASE /\ c.call = "include"
           /\ mine' = {p \in mine : c.site \notin Covers[p]}
           /\ cards' = cards \ {c} /\ young' = young \ {c} /\ UNCHANGED <<runsAs, goneBy>>
  <2>1. cards' \subseteq Chips /\ young' \subseteq cards' /\ mine' \subseteq Domains
    BY <1>6 DEF BusInv, BusTypeOK
  <2>2. ASSUME NEW k \in cards', k.armed, [k EXCEPT !.armed = FALSE] \in finger' PROVE k \in young'
    <3>1. k \in cards \ {c} /\ k \in Chips /\ k.call = "delete"
      BY <1>6, <2>2, ChipForms DEF BusInv, BusTypeOK
    <3>2. [k EXCEPT !.armed = FALSE] = DeleteChip(k.on, k.id, FALSE)
      BY <3>1, ChipForms
    <3>3. [k EXCEPT !.armed = FALSE] # c
      BY <1>6, <3>2 DEF DeleteChip
    <3> QED
      BY <1>1, <1>6, <2>2, <3>1, <3>3 DEF BusInv, NoDoubleClick
  <2>3. NoDoubleClick'
    BY <2>2 DEF NoDoubleClick
  <2> QED
    BY <1>1, <1>2, <1>6, <2>1, <2>3 DEF BusInv, BusTypeOK, DestroyedOnPurpose
<1> QED
  BY <1>3, <1>4, <1>5, <1>6, Zenon DEF Press

LEMMA KeepItKeeps ==
  ASSUME BusInv, NEW c \in cards, KeepIt(c)
  PROVE  BusInv'
<1>1. c \in Chips /\ c.armed /\ c \notin young
  BY DEF KeepIt, BusInv, BusTypeOK
<1>2. PICK back : back = [c EXCEPT !.armed = FALSE]
  OBVIOUS
<1>3. back = DeleteChip(c.on, c.id, FALSE) /\ c.on \in 1..MaxTurns /\ c.id \in Runners
  BY <1>1, <1>2, ChipForms
<1>4. back \in Chips /\ ~back.armed
  <2>1. back \in Chips
    BY <1>3, ChipKinds
  <2> QED
    BY <1>3, <2>1 DEF DeleteChip
<1>5. cards' = (cards \ {c}) \cup {back} /\ young' = young \cup {back}
  BY <1>2, Zenon DEF KeepIt
<1>6. UNCHANGED <<mayDo, mine, runsAs, told, copySays, says, finger, goneBy, turns>>
  BY DEF KeepIt
<1>7. cards' \subseteq Chips /\ young' \subseteq cards' /\ NoDoubleClick'
  BY <1>1, <1>4, <1>5, <1>6 DEF BusInv, BusTypeOK, NoDoubleClick
<1> QED
  BY <1>6, <1>7 DEF BusInv, BusTypeOK, DestroyedOnPurpose, WordsAreRead

LEMMA BusKeeps == BusInv /\ BusNext => BusInv'
<1> SUFFICES ASSUME BusInv, BusNext PROVE BusInv'
  OBVIOUS
<1>1. CASE Refresh
  <2>1. copySays' = ("volunteer" \in mayDo') /\ says' = "reply"
    BY <1>1, Zenon DEF Refresh, Refreshed
  <2>2. ("volunteer" \in mayDo') \in BOOLEAN
    OBVIOUS
  <2>3. copySays' \in BOOLEAN
    BY <2>1, <2>2, Zenon
  <2>4. told = Quiet
    BY <1>1 DEF Refresh, Refreshed, BusInv, WordsAreRead
  <2> QED
    BY <1>1, <2>1, <2>3, <2>4 DEF Refresh, BusInv, BusTypeOK, DestroyedOnPurpose, NoDoubleClick, WordsAreRead
<1>2. CASE SayIt
  BY <1>2 DEF SayIt, BusInv, BusTypeOK, DestroyedOnPurpose, NoDoubleClick, WordsAreRead
<1>3. CASE Moment
  BY <1>3 DEF Moment, BusInv, BusTypeOK, DestroyedOnPurpose, NoDoubleClick, WordsAreRead
<1> QED
  BY <1>1, <1>2, <1>3, SaidKeeps, DoneKeeps, PressKeeps, KeepItKeeps DEF BusNext

LEMMA BusStays == BusInv /\ UNCHANGED busyVars => BusInv'
  BY DEF busyVars, BusInv, BusTypeOK, DestroyedOnPurpose, NoDoubleClick, WordsAreRead

(* What is heard on the line takes something away or nothing.              *)
LEMMA HeardNarrows ==
  ASSUME BusInv, [BusNext]_busyVars, told # Quiet, told.how = "spoken"
  PROVE  Reach' \subseteq Reach
<1>1. ReducesOnly(told.deed) /\ says = ""
  BY DEF BusInv, WordsAreRead
<1>2. CASE Done
  <2>1. CASE told.deed.verb \in Switches /\ Switched(told.deed)
    <3>1. mayDo' \subseteq mayDo /\ mine' = mine
      BY <1>1, <2>1 DEF Switched, ReducesOnly, Switches
    <3> QED
      BY <3>1 DEF Reach, Readable
  <2>2. CASE told.deed.verb = "exclude" /\ Excluded(told.deed)
    <3>1. mayDo' = mayDo /\ mine \subseteq mine'
      BY <2>2 DEF Excluded
    <3> QED
      BY <3>1 DEF Reach, Readable
  <2>3. CASE told.deed.verb \in {"include", "running"}
    BY <1>1, <2>3 DEF ReducesOnly, Switches
  <2> QED
    BY <1>2, <2>1, <2>2, <2>3 DEF Done
<1>3. CASE UNCHANGED <<mayDo, mine>>
  BY <1>3 DEF Reach, Readable
<1>4. Done \/ UNCHANGED <<mayDo, mine>>
  BY <1>1 DEF BusNext, Said, Refresh, SayIt, Moment, Press, KeepIt, busyVars
<1> QED
  BY <1>2, <1>3, <1>4

(* What becomes of a runner is what the pressed chip says.                 *)
LEMMA ChipsDo ==
  ASSUME BusInv, [BusNext]_busyVars, NEW r \in Runners, runsAs[r] # runsAs'[r]
  PROVE  \E c \in finger' : c.call # "include" /\ c.id = r /\ runsAs'[r] = CASE c.call = "enable" -> "on"
                                                  [] c.call = "pause" -> "off"
                                                  [] c.call = "delete" -> "gone"
<1>1. \E c \in cards : Press(c)
  BY DEF BusNext, Said, Done, Refresh, SayIt, Moment, KeepIt, busyVars
<1>2. PICK c \in cards : Press(c)
  BY <1>1
<1>3. c \in finger' /\ c \in Chips /\ runsAs \in [Runners -> {"on", "off", "gone"}]
  BY <1>2 DEF Press, BusInv, BusTypeOK
<1>4. CASE c.call = "delete" /\ runsAs' = [runsAs EXCEPT ![c.id] = "gone"]
  <2>1. c.id = r /\ runsAs'[r] = "gone"
    BY <1>3, <1>4
  <2> QED
    BY <1>3, <1>4, <2>1
<1>5. CASE c.call = "enable" /\ SetTo(c)
  <2>1. c.id = r /\ runsAs'[r] = "on"
    BY <1>3, <1>5 DEF SetTo
  <2> QED
    BY <1>3, <1>5, <2>1
<1>6. CASE c.call = "pause" /\ SetTo(c)
  <2>1. c.id = r /\ runsAs'[r] = "off"
    BY <1>3, <1>6 DEF SetTo
  <2> QED
    BY <1>3, <1>6, <2>1
<1> QED
  BY <1>2, <1>4, <1>5, <1>6 DEF Press

(***************************************************************************)
(* The desktop                                                             *)
(***************************************************************************)
DesktopInv ==
  /\ part \in DesktopParts
  /\ SensorInv /\ StageInv /\ ObsvInv /\ RtnInv /\ InitiativeInv /\ PairInv /\ BusInv

LEMMA DesktopStarts == DesktopInit => DesktopInv
  BY SensorStarts, StageStarts, ObsvStarts, RtnStarts, InitiativeStarts, PairStarts, BusStarts, Zenon
     DEF DesktopInit, DesktopInv

(* A step of the desktop is a step of each part, or leaves it as it is.    *)
LEMMA DesktopStep ==
  ASSUME [DesktopNext]_deskAll
  PROVE  /\ part' = part
         /\ [SensorNext]_sensorVars /\ [StageNext]_stageVars /\ [ObsvNext]_obsvVars /\ [RtnNext]_rtnVars
         /\ [InitiativeNext]_initVars /\ [PairNext]_pairVars /\ [BusNext]_busyVars
<1>1. CASE OfSensor
  BY <1>1, Zenon DEF OfSensor
<1>2. CASE OfStage
  BY <1>2, Zenon DEF OfStage
<1>3. CASE OfObserving
  BY <1>3, Zenon DEF OfObserving
<1>4. CASE OfRoutines
  BY <1>4, Zenon DEF OfRoutines
<1>5. CASE OfInitiative
  BY <1>5, Zenon DEF OfInitiative
<1>6. CASE OfPairing
  BY <1>6, Zenon DEF OfPairing
<1>7. CASE OfBusiness
  BY <1>7, Zenon DEF OfBusiness
<1>8. CASE UNCHANGED deskAll
  BY <1>8, Zenon DEF deskAll
<1> QED
  BY <1>1, <1>2, <1>3, <1>4, <1>5, <1>6, <1>7, <1>8, Zenon DEF DesktopNext

LEMMA DesktopStays == DesktopInv /\ [DesktopNext]_deskAll => DesktopInv'
<1> SUFFICES ASSUME DesktopInv, [DesktopNext]_deskAll PROVE DesktopInv'
  OBVIOUS
<1>1. SensorInv' /\ StageInv'
  BY DesktopStep, SensorKeeps, SensorStays, StageKeeps, StageStays, Zenon DEF DesktopInv
<1>2. ObsvInv' /\ RtnInv'
  BY DesktopStep, ObsvKeeps, ObsvStays, RtnKeeps, RtnStays, Zenon DEF DesktopInv
<1>3. InitiativeInv' /\ PairInv' /\ BusInv'
  BY DesktopStep, InitiativeKeeps, InitiativeStays, PairKeeps, PairStays, BusKeeps, BusStays, Zenon DEF DesktopInv
<1>4. part' \in DesktopParts
  BY DesktopStep, Zenon DEF DesktopInv
<1> QED
  BY <1>1, <1>2, <1>3, <1>4, Zenon DEF DesktopInv

(* Every variable of every part of the desktop holds a value of its kind:  *)
(* no counter passes its bound, no message the renderer does not know is   *)
(* on its way to it, the posts to the sensor are as many as there may be   *)
(* (browser-sensor.js, main/index.js, summarizer.js, routines.js,          *)
(* proactive.js, browser-transport.js, own-business.js).                   *)
THEOREM DesktopTyped == DesktopSpec => []DesktopTypeOK
<1>1. DesktopInv => SensorTypeOK /\ StageTypeOK /\ ObsvTypeOK
  BY SensorFollows, StageFollows, ObsvFollows, Zenon DEF DesktopInv
<1>2. DesktopInv => RtnTypeOK /\ InitiativeTypeOK /\ PairTypeOK /\ BusTypeOK
  BY InitiativeFollows, PairFollows, Zenon DEF DesktopInv, RtnInv, BusInv
<1>3. DesktopInv => DesktopTypeOK
  BY <1>1, <1>2, Zenon DEF DesktopTypeOK
<1> QED
  BY <1>3, DesktopStarts, DesktopStays, PTL DEF DesktopSpec

(* In the dark fren holds nothing of the browser; of a page it holds of a  *)
(* site the person keeps for themselves it holds the domain only, and no   *)
(* text or selection where they withdrew these, whatever was on its way    *)
(* when it was told (a selection made on another page than the one held is *)
(* not covered: ExcludedIsNotTaken does not hold); nobody denied is put to *)
(* them again; what fren says of itself is true when it is said; and no    *)
(* double click destroys (browser-sensor.js, browser-transport.js,         *)
(* own-business.js, app.js chipRow).                                       *)
THEOREM RulesAreKept == DesktopSpec => []RulesHold
<1>1. DesktopInv => HoldsWhatItMay /\ DeniedStays /\ TrueWhenSaid /\ DestroyedOnPurpose
  BY PairFollows, BusFollows, Zenon DEF DesktopInv, SensorInv, BusInv
<1>2. DesktopInv => RulesHold
  BY <1>1, Zenon DEF RulesHold
<1> QED
  BY <1>2, DesktopStarts, DesktopStays, PTL DEF DesktopSpec

(* A routine is asked once each time it falls due, a suggestion has one    *)
(* fate and every fate is kept, and an observation is in one summary, over *)
(* failures, switches and restarts (routines.js, proactive.js,             *)
(* summarizer.js).                                                         *)
THEOREM DoneOnlyOnce == DesktopSpec => []DoneOnce
<1>1. DesktopInv => OncePerDue /\ RunIsMarked /\ FatesAreKept /\ SummedOnce
  BY InitiativeFollows, ObsvFollows, Zenon DEF DesktopInv, RtnInv
<1>2. DesktopInv => DoneOnce
  BY <1>1, Zenon DEF DoneOnce
<1> QED
  BY <1>2, DesktopStarts, DesktopStays, PTL DEF DesktopSpec

(* Wherever it was dragged, however it grew, whichever corner the panel    *)
(* took and whatever became of the displays: once they have settled the    *)
(* orb is on the screen, and at the scale it was put down with it is where *)
(* it was put down (place.js, main/index.js).                              *)
THEOREM OrbStaysInReach == DesktopSpec => []OrbIsReachable
<1>1. DesktopInv => OrbOnScreen /\ ComesBack
  BY StageFollows, Zenon DEF DesktopInv, StageInv
<1>2. DesktopInv => OrbIsReachable
  BY <1>1, Zenon DEF OrbIsReachable
<1> QED
  BY <1>2, DesktopStarts, DesktopStays, PTL DEF DesktopSpec

(* No step of the desktop lets a turn heard on the line widen what fren    *)
(* may see or do, does to a runner another thing than the pressed chip     *)
(* says, or moves the orb, or its panel off the screen, by opening it      *)
(* (app.js obeySpoken and pressChip, main/index.js setPanelOpen).          *)
THEOREM StepsStayHonest == DesktopSpec => StepsAreHonest
<1>1. DesktopInv /\ [DesktopNext]_deskAll =>
        [told # Quiet /\ told.how = "spoken" => Reach' \subseteq Reach]_busyVars
  BY DesktopStep, HeardNarrows, Zenon DEF DesktopInv
<1>2. DesktopInv /\ [DesktopNext]_deskAll =>
        [\A r \in Runners : runsAs[r] # runsAs'[r] =>
           \E c \in finger' : c.call # "include" /\ c.id = r /\ runsAs'[r] = CASE c.call = "enable" -> "on"
                                                      [] c.call = "pause" -> "off"
                                                      [] c.call = "delete" -> "gone"]_busyVars
  BY DesktopStep, ChipsDo, Zenon DEF DesktopInv
<1>3. DesktopInv /\ [DesktopNext]_deskAll =>
        [open' # open /\ settled =>
           /\ At' = At
           /\ open' => IF far' THEN At' + win'.w - Slack(scale) <= work
                                ELSE At' + Char(scale) - win'.w + Slack(scale) >= 0]_stageVars
  BY DesktopStep, OpensAroundIt, Zenon DEF DesktopInv
<1>4. DesktopSpec => SpokenNeverWidens
  BY <1>1, DesktopStarts, DesktopStays, PTL DEF DesktopSpec, SpokenNeverWidens
<1>5. DesktopSpec => DoesWhatItSays
  BY <1>2, DesktopStarts, DesktopStays, PTL DEF DesktopSpec, DoesWhatItSays
<1>6. DesktopSpec => OpensAround
  BY <1>3, DesktopStarts, DesktopStays, PTL DEF DesktopSpec, OpensAround
<1> QED
  BY <1>4, <1>5, <1>6 DEF StepsAreHonest
=============================================================================
