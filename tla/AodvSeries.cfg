SPECIFICATION FairSpec
CONSTANTS
  Dest = {d1}
  NoDest = NoDest
  Series = {s1, s2}
  NoSeries = NoSeries
  SysThread = {sys1, sys2}
  MeshThread = {m1, m2}
  TimerThread = {timer}
  RREQ_RETRIES = 2
  RREQ_RATELIMIT = 1
  RingSearch = TRUE
  TTL_START = 1
  TTL_INCREMENT = 2
  TTL_THRESHOLD = 3
  TTL_MAX = 255
  MaxPackets = 1
INVARIANT TypeOK
INVARIANT RateLimitSlack
INVARIANT BufferedHasDiscovery
INVARIANT NoUseAfterFree
INVARIANT SingleOwner
INVARIANT ScheduleIsRunning
INVARIANT OneSeriesPerDest
PROPERTY SeriesEnds
