SPECIFICATION FairSpec
CONSTANTS
  Packets = {"p1", "p3"}
  From <- BothWays
  Expiry <- P3Expires
  Lookback <- GnoOnB
  Margin = 1
  Slack = 1
  Faults = {"rpc", "reply", "crash"}
  MaxFaults = 1
  MaxHeight = 1
INVARIANTS TypeOK NoPacketStranded NoAckStranded ProofsVisible
PROPERTIES ImplementsLifecycle NothingRedone
