SPECIFICATION Spec
CONSTANTS
  Requests = {r1, r2}
  Addresses = {a1, a2}
  NonceMod = 5
  Bodies <- Clicks
  Null = Null
  Torn = Torn
  MaxHashes = 3
  MaxGen = 2
SYMMETRY Symm
INVARIANT CountNeverFalls
