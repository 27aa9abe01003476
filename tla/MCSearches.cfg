SPECIFICATION Spec
CONSTANTS
  Pipes = {0}
  Me = 0
  Pages <- MCPages
  MaxSpan = 3
  MaxTok = 12
  MaxOthers = 1
  Configs <- MCConfigs
INVARIANTS
  NoneLost
  AnswerRight
PROPERTIES
  SearchEnds
