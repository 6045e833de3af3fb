SPECIFICATION FairSpec
CONSTANTS
  Attempts = {1, 2}
  Mixes <- OneOrTwo
  Prior <- OneOnA
  MaxFaults = 1
INVARIANTS
  TypeOK
  SavedPathLoads
  EndsAgree
  FloorBelowClients
  UndisturbedNeverFails
PROPERTY SetupEnds
CHECK_DEADLOCK FALSE
