----------------------- MODULE CompilationUnitsProofs -----------------------
(***************************************************************************)
(* What the lookups of a compilation unit return, for every list of units  *)
(* and every sequence of lookups, those that fail half way included.       *)
(***************************************************************************)
EXTENDS CompilationUnits, TLAPS

(* The loop that runs is the one that was asked for.                       *)
KindInv == (at = "addr" => kind = "addr") /\ (at = "file" => kind = "file")

(* The answer so far is a unit that the walk has passed and that holds     *)
(* what is looked for.                                                     *)
FoundInv == found # 0 => found \in Holders /\ (at # "idle" => found <= cursor)

(* An error is the end of a walk, and it comes from a unit that cannot be  *)
(* read.                                                                   *)
ErrorInv == res = "ERROR" => at = "idle" /\ ~Readable

(* In an executable that can be read, a walk begins at the first unit, and *)
(* its answer so far is the last holder that it has passed.                *)
LastInv ==
  Readable =>
    /\ at = "idle" => cursor = 0
    /\ kind # "none" =>
         \A k \in Holders : (at = "idle" \/ k <= cursor) => found # 0 /\ k <= found

UnitsInv == TypeOK /\ KindInv /\ FoundInv /\ ErrorInv /\ LastInv /\ WalkRewinds

(* The units of the executable are units.                                  *)
LEMMA UnitTypes ==
  ASSUME TypeOK
  PROVE  /\ Len(units) \in Nat
         /\ \A k \in 1 .. Len(units) : units[k] \in Unit
BY UnitsAssumption DEF TypeOK

(* A turn leaves the question alone, and so which units hold the answer.   *)
LEMMA SameQuestion ==
  ASSUME UNCHANGED <<units, kind, addr, path>>
  PROVE  Holders' = Holders /\ (Readable' <=> Readable)
BY DEF Holders, HoldsAddr, HoldsFile, Readable

(* The invariant holds before the first lookup.                            *)
LEMMA UnitsInvInit == Init => UnitsInv
BY UnitsAssumption DEF Init, UnitsInv, TypeOK, KindInv, FoundInv, ErrorInv, LastInv, WalkRewinds, Status

(* A lookup starts where the last walk has left libdwarf.                  *)
LEMMA LookupStarts == ASSUME UnitsInv, Lookup PROVE UnitsInv'
<1>1. /\ at = "idle" /\ at' \in {"addr", "file"} /\ kind' = at'
      /\ found' = 0 /\ res' = "OK" /\ UNCHANGED <<units, cursor>>
      /\ addr' \in Nat /\ path' \in Paths
  BY QueryAssumption DEF UnitsInv, TypeOK, Lookup, get_cu_from_addr, get_cu_from_file_name
<1>2. Readable' <=> Readable
  BY <1>1 DEF Readable
<1>3. TypeOK' /\ KindInv' /\ FoundInv' /\ ErrorInv' /\ WalkRewinds'
  BY <1>1, UnitTypes DEF UnitsInv, TypeOK, KindInv, FoundInv, ErrorInv, WalkRewinds, Status
<1>4. LastInv'
  <2>1. Readable => cursor' = 0
    BY <1>1 DEF UnitsInv, LastInv
  <2>2. \A k \in Holders' : k \in Nat \ {0}
    BY <1>1, UnitTypes DEF Holders, UnitsInv
  <2> QED
    BY <1>1, <1>2, <2>1, <2>2 DEF LastInv
<1> QED
  BY <1>3, <1>4 DEF UnitsInv

(* What a turn does to the answer: it stays, or it becomes the unit that   *)
(* the walk has just passed, which is a holder.                            *)
TurnOf(holds) ==
  /\ UNCHANGED <<units, kind, addr, path>>
  /\ \/ /\ cursor = Len(units) /\ cursor' = 0
        /\ at' = "idle" /\ res' # "ERROR" /\ res' \in Status /\ UNCHANGED found
     \/ /\ cursor # Len(units) /\ cursor' \in {0, cursor, cursor + 1}
        /\ at' = "idle" /\ res' = "ERROR" /\ ~Readable /\ UNCHANGED found
     \/ /\ cursor # Len(units) /\ cursor' = cursor + 1
        /\ UNCHANGED <<at, res>>
        /\ IF holds THEN found' = cursor + 1 ELSE UNCHANGED found

LEMMA AddrTurnOf == ASSUME UnitsInv, AddrTurn PROVE at = "addr" /\ TurnOf(HoldsAddr(cursor + 1))
<1>1. ASSUME Advance
      PROVE  units[cursor + 1] \in Unit /\ cursor + 1 \in 1 .. Len(units)
  BY <1>1, UnitTypes DEF UnitsInv, TypeOK, Advance, AtEnd
<1>2. ASSUME Advance, NextUnit.pcs = "ERROR" PROVE ~Readable
  BY <1>1, <1>2 DEF NextUnit, Readable
<1>4. ASSUME NoHeader PROVE ~Readable
  BY <1>4, UnitTypes DEF UnitsInv, TypeOK, NoHeader, NextUnit, AtEnd, Readable
<1>3. ASSUME Advance
      PROVE  HoldsAddr(cursor + 1) <=> NextUnit.pcs = "OK" /\ die_contains_addr_offset(NextUnit, addr)
  BY <1>1, <1>3 DEF NextUnit, HoldsAddr, die_contains_addr_offset, Unit, UnitsInv, TypeOK
<1> QED
  BY <1>2, <1>3, <1>4 DEF AddrTurn, TurnOf, Rewind, Advance, NoHeader, AtEnd, Return, Status

LEMMA FileTurnOf == ASSUME UnitsInv, FileTurn PROVE at = "file" /\ TurnOf(HoldsFile(cursor + 1))
<1>1. ASSUME Advance
      PROVE  cursor + 1 \in 1 .. Len(units)
  BY <1>1, UnitTypes DEF UnitsInv, TypeOK, Advance, AtEnd
<1>2. ASSUME Advance, NextUnit.text = "ERROR" PROVE ~Readable
  BY <1>1, <1>2 DEF NextUnit, Readable
<1>3. ASSUME NoHeader PROVE ~Readable
  BY <1>3, UnitTypes DEF UnitsInv, TypeOK, NoHeader, NextUnit, AtEnd, Readable
<1> QED
  BY <1>2, <1>3 DEF FileTurn, TurnOf, Rewind, Advance, NoHeader, AtEnd, Return, Status, NextUnit, HoldsFile

(* A turn of either loop preserves the invariant.                          *)
LEMMA TurnPreserves ==
  ASSUME UnitsInv, at # "idle", TurnOf(cursor + 1 \in Holders) PROVE UnitsInv'
<1>1. Holders' = Holders /\ (Readable' <=> Readable)
  BY SameQuestion DEF TurnOf
<1>2. Len(units) \in Nat /\ Holders \subseteq 1 .. Len(units)
  BY UnitTypes DEF UnitsInv, Holders
<1>3. TypeOK /\ KindInv /\ FoundInv /\ ErrorInv /\ LastInv
  BY DEF UnitsInv
<1>4. cursor \in 0 .. Len(units) /\ found \in 0 .. Len(units) /\ kind # "none"
  BY <1>3 DEF TypeOK, KindInv
<1>5. TypeOK' /\ KindInv'
  BY <1>2, <1>3, <1>4 DEF TurnOf, TypeOK, KindInv, Status
<1>6. FoundInv' /\ ErrorInv' /\ WalkRewinds'
  BY <1>1, <1>2, <1>3, <1>4 DEF TurnOf, FoundInv, ErrorInv, WalkRewinds
<1>7. LastInv'
  BY <1>1, <1>2, <1>3, <1>4 DEF TurnOf, LastInv
<1> QED
  BY <1>5, <1>6, <1>7 DEF UnitsInv

(* The next unit is a holder if it holds what the loop looks for.          *)
LEMMA Turns == ASSUME UnitsInv, AddrTurn \/ FileTurn PROVE at # "idle" /\ TurnOf(cursor + 1 \in Holders)
<1>1. ASSUME cursor # Len(units)
      PROVE  cursor + 1 \in Holders <=> IF kind = "addr" THEN HoldsAddr(cursor + 1) ELSE HoldsFile(cursor + 1)
  BY <1>1, UnitTypes DEF Holders, UnitsInv, TypeOK
<1>2. CASE AddrTurn
  BY <1>1, <1>2, AddrTurnOf DEF TurnOf, UnitsInv, KindInv
<1>3. CASE FileTurn
  BY <1>1, <1>3, FileTurnOf DEF TurnOf, UnitsInv, KindInv
<1> QED
  BY <1>2, <1>3

LEMMA UnitsInvariant == Spec => []UnitsInv
<1>1. UnitsInv /\ [Next]_vars => UnitsInv'
  <2>1. CASE UNCHANGED vars
    BY <2>1, SameQuestion DEF vars, UnitsInv, TypeOK, KindInv, FoundInv, ErrorInv, LastInv, WalkRewinds
  <2> QED
    BY <2>1, LookupStarts, Turns, TurnPreserves DEF Next
<1> QED
  BY <1>1, UnitsInvInit, PTL DEF Spec

(* get_cu_from_addr and get_cu_from_file_name answer only with a unit that *)
(* holds what was asked for, even after a walk that has failed.            *)
THEOREM AnswersCorrect == Spec => []AnswersAreHolders
BY UnitsInvariant, PTL DEF UnitsInv, FoundInv, AnswersAreHolders

(* A walk that has not failed leaves libdwarf at the first unit.           *)
THEOREM RewindCorrect == Spec => []WalkRewinds
BY UnitsInvariant, PTL DEF UnitsInv

(* In an executable that libdwarf can read, every sequence of lookups      *)
(* finds the last holder, whatever was looked up before.                   *)
THEOREM LookupsFind == Spec => []FindsHolder
<1>1. UnitsInv => FindsHolder
  <2> SUFFICES ASSUME UnitsInv, at = "idle", kind # "none", Readable
               PROVE  IF Holders = {} THEN found = 0 ELSE found \in Holders /\ \A k \in Holders : k <= found
    BY DEF FindsHolder
  <2> QED
    BY DEF UnitsInv, FoundInv, LastInv
<1> QED
  BY <1>1, UnitsInvariant, PTL
=============================================================================
