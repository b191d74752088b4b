----------------------------- MODULE LineTable ------------------------------
(***************************************************************************)
(* The two lookups of dwarf_info.c in a compilation unit's line table: the *)
(* binary search for an address (search_addr_in_lines, used by next and,   *)
(* through get_line_no_from_addr, by where line) and the linear scan for a *)
(* source line (get_addr_from_source_line, used by break).                 *)
(*                                                                         *)
(* The table is what dwarf_srclines_from_linecontext returns.  Its rows    *)
(* are in address order only within one sequence, and addresses repeat.    *)
(***************************************************************************)
EXTENDS Integers, Sequences

CONSTANTS
  Tables,   \* the line tables
  Files,    \* source files
  Addrs,    \* addresses that are looked up
  Numbers   \* line numbers that are looked up

Row == [addr: Nat, line: Nat, file: Files]

ASSUME TablesAssumption == Tables \subseteq Seq(Row)
ASSUME QueriesAssumption == Addrs \subseteq Nat /\ Numbers \subseteq Nat

VARIABLES
  table,   \* line_iterator.dw_lines; row k of the C array is table[k + 1]
  at,      \* the loop that is running
  caller,  \* whom the last lookup is, or was, for
  arg,     \* its address or line number
  file,    \* its source_file_name
  low,     \* the local low of search_addr_in_lines
  high,    \* the local high of search_addr_in_lines
  i,       \* the local i of get_addr_from_source_line
  res,     \* the result of the last lookup
  index,   \* the row it has found
  dwarf    \* what libdwarf, or the lookup of the unit, reported to it

vars == <<table, at, caller, arg, file, low, high, i, res, index, dwarf>>

Count  == Len(table)
row(k) == table[k + 1]
mid    == (low + high) \div 2

TypeOK ==
  /\ table \in Tables
  /\ at \in {"idle", "search", "scan"}
  /\ caller \in {"nobody", "step_in", "where", "break"}
  /\ arg \in Nat
  /\ file \in Files \cup {"none"}
  /\ low \in Nat /\ high \in Int /\ i \in Nat /\ index \in Nat
  /\ res \in {"OK", "NO_ENTRY", "ERROR"}
  /\ dwarf \in {"OK", "failed"}

Init ==
  /\ table \in Tables
  /\ at = "idle"
  /\ caller = "nobody"
  /\ arg = 0
  /\ file = "none"
  /\ low = 0 /\ high = 0 /\ i = 0 /\ index = 0
  /\ res = "OK"
  /\ dwarf = "OK"
-----------------------------------------------------------------------------
(* A lookup begins with locals of its own, which are gone when it returns. *)
Call(c, a, f) ==
  /\ at = "idle"
  /\ caller' = c /\ arg' = a /\ file' = f
  /\ UNCHANGED table

Return(r, k, d) ==
  /\ at' = "idle"
  /\ low' = 0 /\ high' = 0 /\ i' = 0
  /\ res' = r
  /\ index' = k
  /\ dwarf' = d

(* get_line_iterator, or what a caller does before it, may fail.           *)
NoIterator(c, a, f) ==
  /\ Call(c, a, f)
  /\ \E r \in {"NO_ENTRY", "ERROR"} : Return(r, 0, "failed")

(* search_addr_in_lines up to its loop, with a fresh iterator.             *)
search_addr_in_lines(c, a) ==
  /\ Call(c, a, "none")
  /\ low' = 0 /\ high' = Count - 1 /\ i' = 0
  /\ at' = "search"
  /\ res' = "OK" /\ index' = 0 /\ dwarf' = "OK"

(* In a mutant: low stays at mid.                                          *)
DoesNotAdvance ==
  /\ at = "search" /\ low <= high
  /\ \/ row(mid).addr > arg /\ high' = mid - 1 /\ UNCHANGED low
     \/ row(mid).addr <= arg /\ low' = mid /\ UNCHANGED high
  /\ UNCHANGED <<table, at, caller, arg, file, i, res, index, dwarf>>

(* One turn of the loop: dwarf_lineaddr of the middle row.                 *)
SearchTurn ==
  /\ at = "search" /\ low <= high
  /\ \/ row(mid).addr > arg /\ high' = mid - 1 /\ UNCHANGED low
     \/ row(mid).addr <= arg /\ low' = mid + 1 /\ UNCHANGED high
  /\ UNCHANGED <<table, at, caller, arg, file, i, res, index, dwarf>>

(* In a mutant: low is returned for high.                                  *)
ReturnsLow ==
  /\ at = "search" /\ low > high
  /\ IF high < 0 THEN Return("NO_ENTRY", 0, "OK") ELSE Return("OK", low, "OK")
  /\ UNCHANGED <<table, caller, arg, file>>

(* After the loop.  get_line_no_from_addr turns DW_DLV_NO_ENTRY into 1,    *)
(* which is DW_DLV_ERROR, and reads the row's line number, which may fail. *)
SearchEnd ==
  /\ at = "search" /\ low > high
  /\ \/ high < 0 /\ Return(IF caller = "where" THEN "ERROR" ELSE "NO_ENTRY", 0, "OK")
     \/ high >= 0 /\ Return("OK", high, "OK")
     \/ /\ high >= 0 /\ caller = "where"
        /\ \E r \in {"NO_ENTRY", "ERROR"} : Return(r, 0, "failed")
  /\ UNCHANGED <<table, caller, arg, file>>

get_addr_from_source_line(f, n) ==
  /\ Call("break", n, f)
  /\ low' = 0 /\ high' = 0 /\ i' = 0
  /\ at' = "scan"
  /\ res' = "OK" /\ index' = 0 /\ dwarf' = "OK"

(* In a mutant: the line itself does not count.                            *)
WantsLaterLine ==
  /\ at = "scan" /\ i < Count
  /\ \/ /\ row(i).file # file \/ row(i).line <= arg
        /\ i' = i + 1
        /\ UNCHANGED <<at, low, high, res, index, dwarf>>
     \/ /\ row(i).file = file /\ row(i).line > arg
        /\ Return("OK", i, dwarf)
  /\ UNCHANGED <<table, caller, arg, file>>

(* One turn of its loop: dwarf_linesrc, dwarf_lineno and dwarf_lineaddr of *)
(* row i.  Without an entry dwarf_lineno leaves line_no uninitialised, and *)
(* the row is skipped or taken whatever its line is.                       *)
ScanTurn ==
  /\ at = "scan" /\ i < Count
  /\ \/ /\ row(i).file # file \/ row(i).line < arg
        /\ i' = i + 1
        /\ UNCHANGED <<at, low, high, res, index, dwarf>>
     \/ /\ row(i).file = file /\ row(i).line >= arg
        /\ Return("OK", i, dwarf)
     \/ /\ row(i).file = file
        /\ i' = i + 1 /\ dwarf' = "failed"
        /\ UNCHANGED <<at, low, high, res, index>>
     \/ /\ row(i).file = file
        /\ Return("OK", i, "failed")
  /\ UNCHANGED <<table, caller, arg, file>>

ScanEnd ==
  /\ at = "scan" /\ i >= Count
  /\ Return("NO_ENTRY", 0, dwarf)
  /\ UNCHANGED <<table, caller, arg, file>>

(* A call of libdwarf for a row fails or finds no entry, and the lookup    *)
(* returns what it said; get_line_no_from_addr returns 1 for both.  The    *)
(* iterator that a failing dwarf_lineno leaves allocated is not followed.  *)
LookupFails ==
  /\ (at = "search" /\ low <= high) \/ (at = "scan" /\ i < Count)
  /\ \E r \in {"NO_ENTRY", "ERROR"} : (caller = "where" => r = "ERROR") /\ Return(r, 0, "failed")
  /\ UNCHANGED <<table, caller, arg, file>>

Lookup ==
  \/ \E c \in {"step_in", "where"}, a \in Addrs :
       search_addr_in_lines(c, a) \/ NoIterator(c, a, "none")
  \/ \E f \in Files, n \in Numbers :
       get_addr_from_source_line(f, n) \/ NoIterator("break", n, f)

Loop == SearchTurn \/ SearchEnd \/ ScanTurn \/ ScanEnd

Next == Lookup \/ Loop \/ LookupFails
Spec == Init /\ [][Next]_vars

(* The debugger is one thread: a loop that can go on does.                 *)
FairSpec == Spec /\ WF_vars(Loop)
-----------------------------------------------------------------------------
(* The row that search_addr_in_lines reads exists: for every table, in     *)
(* address order or not, empty or not.                                     *)
ReadsInTable == at = "search" /\ low <= high => mid \in 0 .. Count - 1

Searched == at = "idle" /\ caller \in {"step_in", "where"} /\ dwarf = "OK"
Scanned  == at = "idle" /\ caller = "break" /\ dwarf = "OK"

(* For every table the row that the search finds begins at or before the   *)
(* address and the row behind it after the address; it finds none only if  *)
(* the first row begins after the address.                                 *)
SearchBrackets ==
  Searched =>
    IF res = "OK"
    THEN /\ index < Count
         /\ row(index).addr <= arg
         /\ index + 1 < Count => row(index + 1).addr > arg
    ELSE Count > 0 => row(0).addr > arg

AddressOrder == \A j, k \in 1 .. Count : j < k => table[j].addr <= table[k].addr

(* In a table in address order the search finds the last row that begins   *)
(* at or before the address, if there is one: what Session takes           *)
(* search_addr_in_lines to be.                                             *)
SearchFindsLast ==
  Searched /\ AddressOrder =>
    IF res = "OK"
    THEN \A k \in 0 .. Count - 1 : row(k).addr <= arg <=> k <= index
    ELSE \A k \in 0 .. Count - 1 : row(k).addr > arg

LineOrder ==
  \A j, k \in 1 .. Count :
    j < k /\ table[j].file = file /\ table[k].file = file => table[j].line <= table[k].line

(* get_addr_from_source_line "Gets the line_addr of the line in the given  *)
(* file with the specified line number", and DW_DLV_NO_ENTRY "if line_num  *)
(* exceeds number of lines in the source file" (dwarf_info.h:95-99): where *)
(* a file's rows are in line order, break gets the first row of the line,  *)
(* if it has rows; it gets nothing if it is behind the file's last row;    *)
(* and never a row of another file or of an earlier line.  For a line      *)
(* between two others that has no row, the header promises nothing found   *)
(* and the code goes on to a later line.                                   *)
ScanFindsLine ==
  Scanned /\ LineOrder =>
    LET rows == {k \in 0 .. Count - 1 : row(k).file = file /\ row(k).line >= arg}
        own  == {k \in rows : row(k).line = arg}
    IN /\ own # {} => res = "OK" /\ index \in own /\ \A k \in own : index <= k
       /\ rows = {} => res = "NO_ENTRY"
       /\ res = "OK" => index \in rows

(* Every lookup returns.                                                   *)
LookupReturns == at # "idle" ~> at = "idle"
=============================================================================
