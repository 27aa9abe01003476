SPECIFICATION Spec
CONSTANTS
  Pages <- MCPages
  NFrames = 3
  PinCap = 1
  SoftCap = 1
  MaxTtl = 2
  SoftPinNeighbors = TRUE
  PromoteRanges <- MCSpan
  CopyRanges <- MCCopy
  HostCovers <- MCWhole
  MaxFills = 1
  MaxListed = 2
INVARIANT ReadsRight
