\* Commands split over lines and lines split into commands.
SPECIFICATION FairSpec
CONSTANTS
  Size = 4
  Letters = {"a", "q"}
  MaxLength = 4
  MaxPolls = 2
  InputLines <- AllLines
  ExitWord <- Quit
  CommandWords <- Known
  Garbage = {"exit", "other"}
INVARIANTS
  CommandAsTyped
  TokensFresh
PROPERTIES
  LineIsConsumed
