SPECIFICATION Spec
CONSTANTS
  Socks = {s1}
  Calls = {c1, c2}
  NonceMod = 2
  TypedNonces = {}
  Null = Null
  MaxNews = 3
SYMMETRY Symm
PROPERTY FoundIsShown
