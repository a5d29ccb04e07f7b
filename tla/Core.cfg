\* Two starts, three hosts; one connection of two sessions; three mock runs; two
\* lives of the app with three gateways; two calls; two occurrences of a series; three
\* faults of a start; two conversations and an automation; five days of three hours in
\* which the clock is put back and forward; three lives of a store of one run and one record, one of them cut short.
SPECIFICATION CoreSpec
CONSTANTS
  Jobs = {1, 2}
  Hosts = {1, 2, 3}
  Backoffs = 1
  MaxCrashes = 1
  MaxJobs = 2
  Sessions = {s1, s2}
  Zones = {z1}
  Conns = {c1}
  MaxCores = 1
  MaxCards = 2
  Ids = {r1, r2, r3}
  Schedules = {k1}
  NoSchedule = NoSchedule
  PauseAfter = 2
  MaxLives = 2
  MaxDeaths = 2
  MaxChoices = 2
  Slots = {g1, g2, g3}
  Calls = {c1, c2}
  Pages = {p1, p2}
  Hidden = {p2}
  Absent = Absent
  MaxRows = 2
  MaxOdd = 1
  MaxFires = 3
  MaxActs = 3
  MaxFaults = 3
  Pids = {1}
  Talkers = {t1, t2}
  Chores = {h1}
  NoOne = NoOne
  ActionNames = {{}, {"network.request"}, {"runtime.self_modify", "network.request"}, {"runtime.schedule"}}
  MaxCardsAsked = 1
  Minutes = 2
  Hours = 3
  MonthDays = 3
  Week = 2
  StretchDays = 5
  Again = 4
  Lost = 10
  Rows = {1}
  Tasks = {k1}
  NoTask = NoTask
  MaxBreaks = 1
  MaxOpens = 3
INVARIANTS CoreTypeOK PartsHold GrantsHold
PROPERTIES OpensAllowed GatewayRecovers
CHECK_DEADLOCK FALSE
