\* Everything the environment can do, breakpoints closer than a word.
SPECIFICATION Spec
CONSTANTS
  WordSize = 2
  MemSize = 7
  Program <- TinyProgram
  Entry = 0
  MaxDepth = 1
  Sites = {4, 5}
  Lines <- TinyLines
  Functions <- TinyFunctions
  RipValues = {4}
  MaxTimes = 1
  MaxSignals = 1
  Inputs = {"break", "reenable", "disable_absent", "continue", "step", "finish", "next", "setpc", "exit", "kill"}
INVARIANTS
  TypeOK
  TakesTurns
