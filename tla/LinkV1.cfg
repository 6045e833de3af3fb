SPECIFICATION FairSpec
CONSTANTS
  Channels = {"x", "y", "z"}
  Connection = {"x", "y"}
  IdA <- Crossed
  IdB <- CrossedB
  Ordered = {"y"}
  Packets = {"p1", "p2", "p3", "f"}
  BlockSent = {"p2"}
  ChannelOf <- OnChannel
  Sequence <- InSequence
  timeoutHeight <- ByHeight
  timeoutTime <- ByTime
  Blocks = 2
  Seconds = 1
  MaxFaults = 1
  MaxUpdates = 7
  MaxHeight = 1
INVARIANTS TypeOK NothingStranded RefusalsExplained
PROPERTY EveryPacketEnds
