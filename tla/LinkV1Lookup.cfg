SPECIFICATION Spec
CONSTANTS
  Channels = {"x"}
  Connection = {"x"}
  IdA <- Crossed
  IdB <- CrossedB
  Ordered = {}
  Packets = {"p1"}
  BlockSent = {}
  ChannelOf <- OnChannel
  Sequence <- InSequence
  timeoutHeight <- Soon
  timeoutTime <- Never
  Blocks = 1
  Seconds = 1
  MaxFaults = 0
  MaxUpdates = 13
  MaxHeight = 2
INVARIANT TimeoutsSubmitted
