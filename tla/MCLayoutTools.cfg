SPECIFICATION LayoutSpec
CONSTANTS
  Raws <- MCRaws
  EvalMaps <- MCMaps
  ScoreTraces <- MCTraces
  Dist <- MCDist
  Threads = {1, 2}
  KChunk = 2
  MaxTools = 4
  EntryNodes = 3
  HotN = 2
  PageStrides = {3500, 4096, 8192}
  Strides = {2048}
  BundleOff = 1048576
  NavN = 2
INVARIANTS ReadsBack RegionsApart PagesHold EntryListRight BestFirst
