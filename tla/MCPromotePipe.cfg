SPECIFICATION StagingSpec
CONSTANTS
  W = 2
  Vecs = {"a", "b"}
  MaxSubmits = 3
  MaxStarts = 2
INVARIANTS SlotsExact
PROPERTIES JoinEnds
CHECK_DEADLOCK FALSE
