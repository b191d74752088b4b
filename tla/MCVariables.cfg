\* The var command on every tree of MCVariables.
SPECIFICATION FairSpec
CONSTANTS
  Dies = {1, 2, 3, 4, 5, 6, 7}
  Trees <- MCTrees
  Commands <- MCCommands
  Capacity = 12
INVARIANTS
  SubprogramIsUsable
  HandlesAreReturned
  LosesOnePerType
  FindsFirstVisible
  DanglesIfFirst
  ParametersAreListed
  PrintsWholeValue
  OverrunsIfTooLong
PROPERTIES
  FreedTwiceIfTrailing
  CommandEnds
