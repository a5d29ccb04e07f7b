\* Two tabs, a private site and one that is not; two displays; three observations; two
\* routines; a topic; two extensions; two sentences about fren's own business.
SPECIFICATION DesktopSpec
CONSTANTS
  Tabs = {t1, t2}
  Sites = {d1, d2}
  Private = {d1}
  NoSite = NoSite
  MaxPosts = 1
  Widths = {10, 13}
  Panel = 10
  Pad = 1
  BetterBy = 2
  MaxWire = 1
  MaxScale = 2
  Rows = {1, 2, 3}
  MinBatch = 2
  MaxLaunches = 1
  Routines = {q1, q2}
  MaxKills = 1
  Topics = {k1}
  None = None
  MaxPerDay = 1
  MaxDays = 1
  Origins = {x, y}
  Nobody = Nobody
  MaxTokens = 3
  MaxResets = 1
  MaxSleeps = 1
  Domains = {"wide", "narrow", "never"}
  Covers <- CoversThree
  NeverRead = {"never"}
  Runners = {q1, q2}
  MaxTurns = 2
INVARIANTS DesktopTypeOK RulesHold DoneOnce OrbIsReachable
PROPERTIES StepsAreHonest LetsGo
CHECK_DEADLOCK FALSE
