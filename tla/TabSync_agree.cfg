SPECIFICATION Spec
CONSTANTS
  Socks = {s1, s2}
  Calls = {c1}
  NonceMod = 2
  TypedNonces = {0}
  Null = Null
  MaxNews = 3
SYMMETRY Symm
INVARIANT TypeOK
INVARIANT SocketTabsAgree
INVARIANT NeverStranded
PROPERTY OnlyTypedNonces
