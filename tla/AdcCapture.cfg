SPECIFICATION FairSpec
CONSTANTS
  Request = 4
  PktLen = 4
  FftLen = 4
  MaxErrors = 1
  MaxSpurious = 1
CHECK_DEADLOCK FALSE
INVARIANTS
  DoneMeansFinished
  FreshSamples
  PacketAligned
  HandlerLeavesNoTrace
PROPERTIES
  CaptureReturns
