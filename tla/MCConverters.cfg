SPECIFICATION PathsSpec
CONSTANTS
  w0 = w0
  w1 = w1
  w2 = w2
  Word = {w1, w2}
  ZeroWord = w0
  Empty = none
  Bus <- MCBus
  Zero <- MCZero
  Requests <- MCRequests
  CONV_WAIT_CYCLES = 3
  ResetCycles = 2
  MaxRise = 6
  Ticks = 5
  Decim = 2
  Depth = 2
  PktLen = 4
INVARIANTS
  FormComesWithItsWords
  WordIsLatest
  ChannelsInStep
  CapturesAreWhole
PROPERTIES
  SettlesOnRequest
  WordHeld
  CaptureCompletes
