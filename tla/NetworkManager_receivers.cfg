SPECIFICATION Spec
CONSTANTS
  h1 = h1
  h2 = h2
  s1 = s1
  q1 = q1
  b1 = b1
  m1 = m1
  m2 = m2
  d1 = d1
  d2 = d2
  l1 = l1
  a1 = a1
  p1 = p1
  r1 = r1
  GetHeaders = {h1, h2}
  GetClosestPeers = {q1}
  ChainBroadcast = {b1}
  MinerBroadcast = {}
  Dial = {d1, d2}
  StartListening = {l1}
  ListenAddrs = {a1}
  Peer = {p1}
  PeerOf <- MCPeerOf
  Inbound = {r1}
  SyncOf <- MCSyncOf
  MaxCalls = 3
CHECK_DEADLOCK FALSE
INVARIANT ReceiverNotDropped
