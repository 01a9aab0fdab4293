SPECIFICATION FairSpec
CONSTANTS
  h1 = h1
  h2 = h2
  h3 = h3
  All = All
  Host = {h1, h2, h3}
  Link <- Line
  Request <- OneWay
  DefTtl = 4
  Seqs = 12
  First = {0, 11}
  Window = 3
  RetryMax = 1
  MissCredit = 1
  CreditMax = 2
  Prune = 2
  MaxSends = 1
  MaxFaults = 1
CHECK_DEADLOCK FALSE
INVARIANT TakenOnce
INVARIANT NextHopKnows
PROPERTY PacketsEnd
