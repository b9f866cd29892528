SPECIFICATION Spec
CONSTANTS
  Socks = {s1, s2}
  Calls = {c1}
  NonceMod = 2
  TypedNonces = {}
  Null = Null
  MaxNews = 1
SYMMETRY Symm
PROPERTY LookedAtIsConnected
