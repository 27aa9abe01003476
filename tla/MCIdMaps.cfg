SPECIFICATION IdMapsSpec
CONSTANTS
  Sources <- EvenSources
  Traces <- MCTraces
  MaxJobs = 3
  Rows = 5
  IdMaps <- MCMaps
INVARIANTS
  Remapped
  ServedRight
  PagesKept
  GreedyMatching
