SPECIFICATION LockLossSpec
CONSTANTS
  Bus = {b0, b1, b2}
  Zero = b0
  Torn = torn
INVARIANTS
  NeverTorn
  LatestOrReset
PROPERTIES
  RecoversFromLockLoss
