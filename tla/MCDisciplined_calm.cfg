\* A careful user and no signals: the text and the table agree.
SPECIFICATION Spec
CONSTANTS
  WordSize = 2
  MemSize = 17
  Program <- LoopProgram
  Entry = 0
  MaxDepth = 2
  Sites = {2, 9, 16}
  Lines <- SpacedLines
  Functions <- Functions3
  RipValues = {14}
  MaxTimes = 2
  MaxSignals = 0
  Inputs = {"break", "continue", "step", "finish", "next", "setpc", "exit", "kill"}
INVARIANTS
  IInv
  NoStrayText
  ExecutesOwnText
  NoMissedBreakpoint
PROPERTIES
  FinishReturns
  NextReachesLine
  ContinueStopsAtBreakpoint
  Transparent
