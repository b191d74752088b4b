\* continue after next.
SPECIFICATION Spec
CONSTANTS
  WordSize = 2
  MemSize = 17
  Program <- LoopProgram
  Entry = 0
  MaxDepth = 2
  Sites = {2, 9, 16}
  Lines <- SpacedLines
  Functions <- Functions3
  RipValues = {}
  MaxTimes = 2
  MaxSignals = 0
  Inputs = {"break", "continue", "next"}
PROPERTY
  ContinueStopsAtUserBreakpoint
