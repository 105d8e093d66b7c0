SPECIFICATION FairRegistrySpec
CONSTANTS
  c1 = c1
  c2 = c2
  c3 = c3
  c4 = c4
  a1 = a1
  a2 = a2
  a3 = a3
  None = None
  Conns <- MCConns
  Addrs <- MCAddrs
  AddrOf <- MCAddrOf
  MaxClients = 2
INVARIANTS
  RegistryTypeOK
  EntryIsRunning
  SessionReachable
  OvershootBounded
PROPERTIES
  NoFalseRefusal
  LostSessionForgotten
CHECK_DEADLOCK FALSE
