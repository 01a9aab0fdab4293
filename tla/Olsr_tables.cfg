SPECIFICATION Spec
CONSTANTS
  a = a
  b = b
  c = c
  d = d
  e = e
  i1 = i1
  i2 = i2
  SeqMod = 16
  Self = a
  Neigh = {b, c}
  Far = {d}
  Iface = {i1, i2}
  NoIface = NoIface
  InRange <- TwoOfB
  Quality = {80, 100}
  Willing <- Will
  Always = 7
  Threshold = 75
  ByHops = FALSE
  TcOrig = {b}
  FirstTc = 15
  TcList <- List1
  Heard <- HeardBCD
  Budgets <- Some
CHECK_DEADLOCK FALSE
INVARIANT TwoHopSetsMirror
INVARIANT TopologyNewest
INVARIANT RoutesBest
PROPERTY MprsCover
