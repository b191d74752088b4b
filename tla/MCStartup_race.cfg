\* The parent reads the maps before the child's exec.
SPECIFICATION Spec
CONSTANTS
  Bases = {1, 2}
  FixedBase = 3
INVARIANT
  LoadAddressIsDebuggee
