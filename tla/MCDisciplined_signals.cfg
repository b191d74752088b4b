\* Signals cut commands short; the user breaks, continues and steps a program without loops.
SPECIFICATION FairSpec
CONSTANTS
  WordSize = 2
  MemSize = 17
  Program <- StraightProgram
  Entry = 0
  MaxDepth = 2
  Sites = {2, 9, 16}
  Lines <- SpacedLines
  Functions <- Functions3
  RipValues = {}
  MaxTimes = 2
  MaxSignals = 2
  Inputs = {"break", "continue", "step", "exit"}
INVARIANTS
  BreakpointsArmed
PROPERTIES
  ContinuingEnds
  PromptReturns
