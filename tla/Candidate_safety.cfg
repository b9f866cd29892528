SPECIFICATION Spec
CONSTANTS
  Requests = {r1, r2}
  Polls = {p1, p2}
  Builds = {b1, b2}
  Addrs = {a1, a2}
  NoAddr = NoAddr
  BadAddr = BadAddr
  Null = Null
  MaxTip = 2
  Failures = TRUE
  LostResponses = TRUE
SYMMETRY Symm
INVARIANT TypeOK
INVARIANT OneBuildInFlight
INVARIANT NoOrphanWaiter
INVARIANT ResumedHasCandidate
PROPERTY HeightNeverRegresses
PROPERTY OnlyPollsSkipCooldown
PROPERTY ImplementsService
