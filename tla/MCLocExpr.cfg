\* The evaluation of location expressions, and the reg command before it.
SPECIFICATION FairSpec
CONSTANTS
  Width = 4
  Options <- MCOptions
  Args <- MCArgs
  Values <- MCValues
  StackSize = 4
  UnsignedRange = 1048576
  Memory <- MCMemory
  Frame <- MCFrame
  Scenarios <- MCScenarios
INVARIANTS
  TypeOK
  MatchesDwarf
  EntryCoversPc
PROPERTIES
  EvaluationEnds
  BackwardBranchIsNear
  ReadsBack
