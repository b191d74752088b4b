\* The search and the scan in every table of up to four rows.
SPECIFICATION FairSpec
CONSTANTS
  MaxRows = 4
  RowAddrs = {1, 3}
  RowLines = {1, 3}
  Files = {"a.c", "b.h"}
  Addrs = {0, 2, 3}
  Numbers = {1, 2, 3}
  Tables <- AllTables
INVARIANTS
  SearchFindsLast
  ScanFindsLine
PROPERTIES
  LookupReturns
