SPECIFICATION AllSpec
CHECK_DEADLOCK FALSE
CONSTANTS
  Base = 256
  Numbers <- MCNumbers
  Heights <- MCHeights
  Values <- MCValues
  Scripts <- MCScripts
  Commitments <- MCCommitments
  LeafCounts <- MCLeafCounts
  TxCounts <- MCTxCounts
  Words <- MCWords
  Hashes <- MCHashes
  Addresses <- MCAddresses
  Hosts <- MCHosts
  Visited <- MCVisited
  Ports = {80, 443, 3000}
  Texts <- MCTexts
INVARIANT VarIntReads
INVARIANT ScriptNumReads
INVARIANT CoinbaseReads
INVARIANT RootIsOfTree
INVARIANT BlockReads
INVARIANT TargetExpands
INVARIANT ZerosAgree
INVARIANT PaysAddress
INVARIANT PrivateByRange
INVARIANT PageOfTheHost
INVARIANT QrReads
