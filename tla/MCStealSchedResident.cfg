SPECIFICATION Spec
CONSTANTS
  Pipes = {t1}
  Pages <- MCPages
  MaxSpan = 3
  MaxTok = 4
  Configs <- MCSamePage
  IssueQd = 2
PROPERTIES
  AllAnswered
