\* A client without an IPv4 address is told that its probe is welcome.
SPECIFICATION Spec
CONSTANTS
  client = client  nat = nat  router = router  id1 = id1  id2 = id2
  MaxInt = 15
  TicksPerMS = 2
  MinPacket = 1  MaxPacket = 3
  MinIntervalMS = 1  MaxIntervalMS = 3
  MaxSessionMS = 4
  MaxPort = 3  MaxTTL = 4
  FlagSets <- MCFlagSets
  Servers <- MCServers
  FlowIDs <- MCFlowIDs
  Followed <- MCFollowed
  MaxHops = 3
  Window = 2
  ClientIP = client
  Others <- MCOthers
  NoAddr = NoAddr
  PathCap = 2
  MaxAnswers = 4
  MaxMessages = 2
  MaxAcceptableGap = 10
  MaxSeenEntries = 10
  MaxInt64 = 10
  StreamBPS = 3  StreamPacket = 1
  TicksPerSecond = 1
  Duration = 4
  StreamRing = 1
  StreamCap = 1
  MaxClock = 6
  MaxArrivals = 3
SYMMETRY MCAlike
INVARIANT ProbesAreWelcome
CHECK_DEADLOCK FALSE
