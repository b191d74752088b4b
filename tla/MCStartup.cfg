\* Every interleaving of the parent and the child.
SPECIFICATION FairSpec
CONSTANTS
  Bases = {1, 2}
  FixedBase = 3
INVARIANTS
  PromptMeansDebuggee
PROPERTIES
  StartupSettles
