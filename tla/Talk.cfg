\* Two of two words and a piece of news, four openings of the microphone, two lines,
\* two cards, two matters, two places, an interview of three
\* questions, two requests of the desktop and an agent's call, two moods,
\* two stretches of the clock.
SPECIFICATION TalkSpec
CONSTANTS
  MaxOpens = 3
  MaxPresses = 4
  Words = {m1, m2}
  Scheduled = {m1}
  News = {n1}
  NoOne = NoOne
  MaxBegun = 2
  MaxArms = 4
  MaxLines = 2
  CardIds = {r1, r2}
  MaxDrops = 1
  Matters = {q1, q2}
  NoMatter = NoMatter
  MaxFacts = 2
  MaxPerDay = 2
  MaxRestarts = 1
  Places = {p1, p2}
  Nowhere = Nowhere
  Questions = 3
  MaxSaid = 3
  MaxStarts = 2
  Requests = {w1, w2}
  Beside = {"chat"}
  AgentCalls = {a1}
  Chosen = {o1}
  Default = Default
  Environments = {{"vision"}, {"anthropic", "deepseek", "voice"}}
  Moods = {"happy", "curious"}
  MaxSayings = 2
  Times = {8, 9, 20, 21}
  Digits = {3, 8, 12, 25}
  Named = {0, 3, 12}
  Often = 24
INVARIANTS TalkTypeOK MicrophoneIsWanted TurnsAreKept WordsAreTrue
PROPERTIES TalkRecovers
CHECK_DEADLOCK FALSE
