SPECIFICATION Spec
CONSTANTS
  u1 = u1
  u2 = u2
  Updaters = {u1, u2}
  MaxHeight = 5
  MaxFaults = 1
SYMMETRY AnyOrder
INVARIANTS TypeOK TrustedIsKnown ReturnsGoal HonestNeverExhausted Frugal
