SPECIFICATION FairSpec
CONSTANTS
  BufSize = 8
  Backlog = 2
  LastPhase = 1
  Package <- MCPackage
  None = none
  Done = done
  Modulus = 128
  Steps = {0, 1, 2, 3, 5}
INVARIANTS
  Resynchronises
  AloneExecutedOnce
PROPERTIES
  AloneIsExecuted
  NoJump
