-------------------------- MODULE CompilationUnits --------------------------
(***************************************************************************)
(* The two lookups of a compilation unit, by address (get_cu_from_addr)    *)
(* and by source file (get_cu_from_file_name).  Both walk the units with   *)
(* dwarf_next_cu_header_e, whose position libdwarf keeps in the            *)
(* Dwarf_Debug: a walk that stops half way leaves it there for the next    *)
(* lookup, and only a walk that has met the end starts over.               *)
(***************************************************************************)
EXTENDS Integers, Sequences

CONSTANTS
  UnitLists,  \* the sequences of units that an executable may have
  Addrs,      \* addresses that are looked up
  Paths       \* source files that are looked up

(* What libdwarf says of a unit's header, and when asked for its pc range  *)
(* and for its name and directory; path is what merge_and_check_path       *)
(* compares: the name if it is absolute, else the directory, a slash and   *)
(* the name.                                                               *)
Status == {"OK", "NO_ENTRY", "ERROR"}
Unit   == [head: {"OK", "ERROR"}, pcs: Status, low: Nat, high: Nat, text: Status, path: Paths]

ASSUME UnitsAssumption == UnitLists \subseteq Seq(Unit)
ASSUME QueryAssumption == Addrs \subseteq Nat

VARIABLES
  units,   \* the executable's units
  cursor,  \* libdwarf's position: the units already handed out
  at,      \* the loop that is running
  kind,    \* the kind of the last lookup
  addr,    \* addr_offset
  path,    \* source_file_name
  found,   \* *res_cu_die as a position in units, 0 for none
  res      \* the result of the last lookup

vars == <<units, cursor, at, kind, addr, path, found, res>>

TypeOK ==
  /\ units \in UnitLists
  /\ cursor \in 0 .. Len(units)
  /\ at \in {"idle", "addr", "file"}
  /\ kind \in {"none", "addr", "file"}
  /\ addr \in Nat
  /\ path \in Paths
  /\ found \in 0 .. Len(units)
  /\ res \in Status

Init ==
  /\ units \in UnitLists
  /\ cursor = 0
  /\ at = "idle"
  /\ kind = "none"
  /\ addr = 0
  /\ path \in Paths
  /\ found = 0
  /\ res = "OK"

(* dwarf_next_cu_header_e: the next unit, or the end and a new beginning,  *)
(* or DW_DLV_ERROR, which may leave the position anywhere near.            *)
AtEnd    == cursor = Len(units)
NextUnit == units[cursor + 1]
Advance  == ~AtEnd /\ NextUnit.head = "OK" /\ cursor' = cursor + 1
Rewind   == AtEnd /\ cursor' = 0
NoHeader == ~AtEnd /\ NextUnit.head = "ERROR" /\ cursor' \in {0, cursor, cursor + 1}

Return(r) == at' = "idle" /\ res' = r
-----------------------------------------------------------------------------
(* In a mutant: the end of the range counts as inside.                     *)
IncludesEnd(u, a) == u.low <= a /\ a <= u.high

(* die_contains_addr_offset, when the unit has a range.                    *)
die_contains_addr_offset(u, a) == u.low <= a /\ a < u.high

get_cu_from_addr(a) ==
  /\ at = "idle"
  /\ at' = "addr" /\ kind' = "addr" /\ addr' = a
  /\ found' = 0
  /\ res' = "OK"
  /\ UNCHANGED <<units, cursor, path>>

(* In a mutant: a match ends the walk.                                     *)
AddrStopsAtMatch ==
  /\ at = "addr"
  /\ \/ Rewind /\ Return("NO_ENTRY") /\ UNCHANGED found
     \/ NoHeader /\ Return("ERROR") /\ UNCHANGED found
     \/ /\ Advance
        /\ \/ die_contains_addr_offset(NextUnit, addr) /\ found' = cursor + 1 /\ Return("OK")
           \/ ~die_contains_addr_offset(NextUnit, addr) /\ UNCHANGED <<at, found, res>>
  /\ UNCHANGED <<units, kind, addr, path>>

(* One turn of its loop.  A match does not end the walk; DW_DLV_ERROR      *)
(* does, and so does the end, whose DW_DLV_NO_ENTRY is the result whether  *)
(* or not a unit was found.                                                *)
AddrTurn ==
  /\ at = "addr"
  /\ \/ Rewind /\ Return("NO_ENTRY") /\ UNCHANGED found
     \/ NoHeader /\ Return("ERROR") /\ UNCHANGED found
     \/ /\ Advance
        /\ LET u == NextUnit IN
             \/ u.pcs = "ERROR" /\ Return("ERROR") /\ UNCHANGED found
             \/ /\ u.pcs = "OK" /\ die_contains_addr_offset(u, addr)
                /\ found' = cursor + 1
                /\ UNCHANGED <<at, res>>
             \/ /\ u.pcs = "NO_ENTRY" \/ (u.pcs = "OK" /\ ~die_contains_addr_offset(u, addr))
                /\ UNCHANGED <<at, found, res>>
  /\ UNCHANGED <<units, kind, addr, path>>

get_cu_from_file_name(p) ==
  /\ at = "idle"
  /\ at' = "file" /\ kind' = "file" /\ path' = p
  /\ found' = 0
  /\ res' = "OK"
  /\ UNCHANGED <<units, cursor, addr>>

(* In a mutant: a match ends the walk.                                     *)
FileStopsAtMatch ==
  /\ at = "file"
  /\ \/ Rewind /\ Return("NO_ENTRY") /\ UNCHANGED found
     \/ NoHeader /\ Return("ERROR") /\ UNCHANGED found
     \/ /\ Advance
        /\ \/ NextUnit.path = path /\ NextUnit.text = "OK" /\ found' = cursor + 1 /\ Return("OK")
           \/ ~(NextUnit.path = path /\ NextUnit.text = "OK") /\ UNCHANGED <<at, found, res>>
  /\ UNCHANGED <<units, kind, addr, path>>

(* One turn of its loop.                                                   *)
FileTurn ==
  /\ at = "file"
  /\ \/ /\ Rewind
        /\ Return(IF found # 0 THEN "OK" ELSE "NO_ENTRY")
        /\ UNCHANGED found
     \/ NoHeader /\ Return("ERROR") /\ UNCHANGED found
     \/ /\ Advance
        /\ LET u == NextUnit IN
             \/ u.text = "ERROR" /\ Return("ERROR") /\ UNCHANGED found
             \/ /\ u.text = "OK" /\ u.path = path
                /\ found' = cursor + 1
                /\ UNCHANGED <<at, res>>
             \/ /\ u.text = "NO_ENTRY" \/ (u.text = "OK" /\ u.path # path)
                /\ UNCHANGED <<at, found, res>>
  /\ UNCHANGED <<units, kind, addr, path>>

Lookup ==
  \/ \E a \in Addrs : get_cu_from_addr(a)
  \/ \E p \in Paths : get_cu_from_file_name(p)

Next == Lookup \/ AddrTurn \/ FileTurn
Spec == Init /\ [][Next]_vars
-----------------------------------------------------------------------------
HoldsAddr(k) ==
  units[k].pcs = "OK" /\ addr \in units[k].low .. units[k].high - 1
HoldsFile(k) ==
  units[k].text = "OK" /\ units[k].path = path
Holders ==
  {k \in 1 .. Len(units) : IF kind = "addr" THEN HoldsAddr(k) ELSE HoldsFile(k)}

(* A lookup never answers with a unit that does not hold what was asked    *)
(* for, not even after a walk that failed.                                 *)
AnswersAreHolders == at = "idle" /\ found # 0 => found \in Holders

(* A walk that has not failed leaves libdwarf at the first unit, so the    *)
(* next lookup sees every unit.                                            *)
WalkRewinds == at = "idle" /\ res # "ERROR" => cursor = 0

Readable ==
  \A k \in 1 .. Len(units) : "ERROR" \notin {units[k].head, units[k].pcs, units[k].text}

(* In an executable that libdwarf can read, lookups in any order find a    *)
(* holder whenever there is one: the last in the order of the units.       *)
FindsHolder ==
  at = "idle" /\ kind # "none" /\ Readable =>
    IF Holders = {} THEN found = 0 ELSE found \in Holders /\ \A k \in Holders : k <= found
=============================================================================
