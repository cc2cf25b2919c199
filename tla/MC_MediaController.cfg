CONSTANTS
  t1 = t1  p1 = p1  p2 = p2  c1 = c1  c2 = c2  c3 = c3  d1 = d1
  NoPeer = NoPeer
  Tracks <- MCTracks
  Peers <- MCPeers
  CIds <- MCCIds
  DIds <- MCDIds
  KindOf <- MCKindOf
  PeerOf <- MCPeerOf
  CanProduce <- MCCanProduce
  ConsumeOn = TRUE
  DataChannelOn = TRUE
  MaxMsgs = 4
SPECIFICATION Spec
INVARIANTS TypeOK ConsumerIndexed AppViewConsistent
PROPERTY RegistryRefined
CHECK_DEADLOCK FALSE
