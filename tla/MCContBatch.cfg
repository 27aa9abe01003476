SPECIFICATION Spec
CONSTANTS
  Workers = {w1, w2}
  hub = h
  Pipes = {h}
  Pages <- MCPages
  MaxSpan = 3
  MaxTok = 6
  Configs <- MCConfigs
INVARIANTS
  BusyExclusive
PROPERTIES
  AllAnswered
