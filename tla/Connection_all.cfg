SPECIFICATION FairSpec
CONSTANTS
  Keys <- MCKeys
  Domain <- MCDomain
  Default <- MCDefault
  Acceptable <- MCAcceptable
  Trimmed <- MCTrimmed
  Files <- MCFiles
  Envs <- MCEnvs
  Bodies <- MCBodies
  Typed <- MCTyped
  Absent = Absent
  Torn = Torn
  Falsy = {"", "0"}
  Verdicts = {"accepted", "rejected"}
  Slots = {s1}
INVARIANT TypeOK
INVARIANT SavedIsValid
INVARIANT CallsWhereAllowed
INVARIANT AcceptedWasAccepted
PROPERTY FormKeepsRest
PROPERTY EveryRequestEnds
PROPERTY ImplementsRpcService
