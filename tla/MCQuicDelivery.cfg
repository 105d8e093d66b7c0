SPECIFICATION FairSpec
CONSTANTS
  c1 = c1
  c2 = c2
  a1 = a1
  a2 = a2
  None = None
  Conns = {c1, c2}
  Addrs = {a1, a2}
  AddrOf <- MCAddrOf
  MaxClients = 2
  Senders = {s1, s2}
  q1 = q1
  q2 = q2
  s1 = s1
  s2 = s2
  Queries = {q1, q2}
  QueriesOf <- MCQueriesOf
  MaxStreams = 2
  PeerLimit <- MCPeerLimit
  Readers = {c2}
  Stoppers = {c1}
INVARIANTS
  StreamOvershootBounded
  StreamsPerQueryBounded
PROPERTIES
  FailureJustified
  SendReturns
CHECK_DEADLOCK FALSE
