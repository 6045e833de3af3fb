SPECIFICATION FairSpec
CONSTANTS
  Clients = {"c1", "c2"}
  Place <- InOrder
  Packets = {"p1", "p2", "q1"}
  ClientOf <- ByName
  Sequence <- Numbered
  PageSize = 1
  Kinds = {"gno", "tendermint"}
  Contested = {"p1"}
  Joint = {"gno", "tendermint"}
INVARIANTS TypeOK OmissionNeedsRemoval StrandedOnlyByOmission
PROPERTY EveryPacketEndsUnmixed
