SPECIFICATION Spec
CONSTANTS
  Count = 2
  Unbonding <- JustEnough
  MaxAgeDest = 2
  MaxAgeSrc = 4
  Poll = 1
  Cap = 3
  PassTime = 2
  Lag = 1
  MaxMisses = 2
INVARIANTS TypeOK NoneExpires FreshAfterPass
PROPERTY StarvedBehindExpired
