SPECIFICATION FairSpec
CONSTANTS
  Procs = {"r1"}
  OldPaths = {"o1"}
  NewPaths = {"n1"}
  Removable = {"o1"}
  MaxHeight = 2
  MaxFaults = 1
INVARIANTS TypeOK NothingSkipped SpareRowsStayZero
PROPERTY EveryPathServed
