SPECIFICATION Spec
CONSTANTS
  Packets = {"p1"}
  From <- OneWay
  Expiry <- Never
  Lookback <- Cosmos
  Margin = 1
  Slack = 1
  Faults = {"commitment"}
  MaxFaults = 1
  MaxHeight = 3
INVARIANT NoPacketStranded
