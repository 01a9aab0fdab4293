SPECIFICATION Spec
CONSTANTS
  h1 = h1
  h2 = h2
  h3 = h3
  h4 = h4
  t1 = t1
  t2 = t2
  Node = {h1, h2, h3, h4}
  Packet <- Packets
  Thread = {t1, t2}
  Scenarios <- All
CHECK_DEADLOCK FALSE
INVARIANT PathsAreRoutes
INVARIANT BufferedHasDiscovery
INVARIANT PacketsKept
INVARIANT AbortsExplained
