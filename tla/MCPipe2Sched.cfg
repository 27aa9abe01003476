SPECIFICATION Spec
CONSTANTS
  Pipes <- MCPipes
  Pages <- MCPages
  MaxSpan = 3
  MaxTok = 10
  Configs <- MCConfigs
INVARIANTS
  SeatedOnce
  ScoredRight
  NoDanglingJob
  NeverSpins
PROPERTIES
  AllAnswered
