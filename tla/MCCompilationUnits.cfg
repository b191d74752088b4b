\* Lookups one after the other in every small list of units.
SPECIFICATION Spec
CONSTANTS
  MaxUnits = 2
  Addrs = {1, 2, 4}
  Paths = {"/a.c", "/b.c"}
  UnitLists <- AllUnitLists
INVARIANTS
  AnswersAreHolders
  WalkRewinds
  FindsHolder
