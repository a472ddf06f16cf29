SPECIFICATION SignalSpec
CONSTANTS
  FftEnd = 8192
  Start = 32
  Width = 16
  Near = 6
  Inputs <- MCInputs
  Garbage = {0, 300, 5000}
  Crowd = {20, 40, 50, 56, 57, 66, 73}
  Powers = {0, 1000, 50000, 100000}
  Prime = 15361
  Order = 15360
  Root = 7
  Jobs <- MCJobs
  Modulus = 12289
  Filters <- MCFilters
  Signal = 12
  MaxBlock = 6
  Field = 30011
  Room = 40
  Calls <- MCCalls
  Images <- MCImages
  Undetermined = 1000
CHECK_DEADLOCK FALSE
INVARIANTS
  PeaksApart
  TallestOfItsWidth
  NothingForgotten
  IdentifiedUnlessHidden
  TransformsAreExact
  BlocksDoNotShow
  LibraryIsExact
