SPECIFICATION FairSpec
CONSTANTS
  Requests = {r1}
  Polls = {p1}
  Builds = {b1}
  Addrs = {a1}
  NoAddr = NoAddr
  BadAddr = BadAddr
  Null = Null
  MaxTip = 1
  Failures = FALSE
  LostResponses = FALSE
PROPERTY SupersededIsRebuilt
