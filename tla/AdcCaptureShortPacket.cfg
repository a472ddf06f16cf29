SPECIFICATION Spec
CONSTANTS
  Request = 4
  PktLen = 2
  FftLen = 4
  MaxErrors = 0
  MaxSpurious = 0
INVARIANTS
  FreshSamples
