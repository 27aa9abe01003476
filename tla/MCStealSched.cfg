SPECIFICATION Spec
CONSTANTS
  Pipes = {t1, t2}
  Pages <- MCPages
  MaxSpan = 3
  MaxTok = 4
  Configs <- MCConfigs
  IssueQd = 2
INVARIANTS
  SeatedOnce
  NandCounts
  ScoredRight
  NoDanglingJob
  WaitersKeepSlots
PROPERTIES
  AnsweredApart
