SPECIFICATION Spec
CONSTANTS
  Packets = {"p1"}
  From <- OneWay
  Expiry <- Never
  Lookback <- Cosmos
  Margin = 1
  Slack = 2
  Faults = {}
  MaxFaults = 0
  MaxHeight = 3
INVARIANT NoPacketStranded
