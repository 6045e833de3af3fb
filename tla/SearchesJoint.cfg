SPECIFICATION FairSpec
CONSTANTS
  Clients = {"c1", "c2"}
  Place <- InOrder
  Packets = {"p1", "q1"}
  ClientOf <- ByName
  Sequence <- Numbered
  PageSize = 1
  Kinds = {"tendermint"}
  Contested = {}
  Joint = {"tendermint"}
PROPERTY EveryPacketEnds
