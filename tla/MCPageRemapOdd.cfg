SPECIFICATION Spec
CONSTANTS
  Sources <- OddExtent
  Traces <- MCTraces
  MaxJobs = 2
INVARIANT MapAccepted
