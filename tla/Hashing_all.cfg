SPECIFICATION Spec
CONSTANTS
  Requests = {r1, r2}
  Addresses = {a1}
  NonceMod = 2
  Bodies <- ClicksAndTyped
  Null = Null
  Torn = Torn
  MaxHashes = 3
  MaxGen = 2
SYMMETRY Symm
INVARIANT TypeOK
INVARIANT NumbersIncrease
INVARIANT CountSurvives
INVARIANT NoHeaderTwice
INVARIANT HashesOwnBody
