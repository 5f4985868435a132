SPECIFICATION FairSpec
CONSTANTS
  Letters = {a, b}
  MaxLen = 3
  MaxThreads = 3
INVARIANTS
  RoundsApart
  AnswerSequential
PROPERTY Terminates
CHECK_DEADLOCK FALSE
