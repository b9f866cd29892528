SPECIFICATION FairSpec
CONSTANTS
  Requests = {r1}
  Polls = {p1, p2}
  Builds = {b1}
  Addrs = {a1}
  NoAddr = NoAddr
  BadAddr = BadAddr
  Null = Null
  MaxTip = 2
  Failures = TRUE
  LostResponses = FALSE
PROPERTY EveryWaitEnds
PROPERTY RebuildReachesTip
