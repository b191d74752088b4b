-------------------------- MODULE LineTableProofs ---------------------------
(***************************************************************************)
(* What the lookups of LineTable return, for every table and every query.  *)
(***************************************************************************)
EXTENDS LineTable, TLAPS

(* Row k is one that break is asked for.                                   *)
Matches(k) == row(k).file = file /\ row(k).line >= arg

(* The loop invariant of search_addr_in_lines: the rows before low that    *)
(* bound the search begin at or before the address, those behind high      *)
(* after it.                                                               *)
SearchInv ==
  at = "search" =>
    /\ caller \in {"step_in", "where"}
    /\ low \in 0 .. Count /\ high \in -1 .. Count - 1 /\ low <= high + 1
    /\ low > 0 => row(low - 1).addr <= arg
    /\ high + 1 < Count => row(high + 1).addr > arg

(* The loop invariant of get_addr_from_source_line, and its result.        *)
ScanInv ==
  at = "scan" =>
    /\ caller = "break" /\ i <= Count
    /\ dwarf = "OK" => \A k \in 0 .. i - 1 : ~Matches(k)

ScanFindsFirst ==
  Scanned =>
    IF res = "OK"
    THEN index < Count /\ Matches(index) /\ \A k \in 0 .. index - 1 : ~Matches(k)
    ELSE res = "NO_ENTRY" /\ \A k \in 0 .. Count - 1 : ~Matches(k)

LookupInv == TypeOK /\ SearchInv /\ ScanInv /\ SearchBrackets /\ ScanFindsFirst

(* The rows of the table are rows, and there are finitely many.            *)
LEMMA RowTypes ==
  ASSUME TypeOK
  PROVE  /\ Count \in Nat
         /\ \A k \in 0 .. Count - 1 : row(k).addr \in Nat /\ row(k).line \in Nat
<1>1. table \in Seq(Row)
  BY TablesAssumption DEF TypeOK
<1>2. ASSUME NEW k \in 0 .. Count - 1 PROVE row(k) \in Row
  <2>1. k + 1 \in 1 .. Len(table)
    BY <1>1, <1>2 DEF Count
  <2> QED
    BY <1>1, <2>1 DEF row
<1> QED
  BY <1>1, <1>2 DEF Count, Row

(* A call of a lookup preserves the invariant.                             *)
LEMMA LookupCalled == ASSUME LookupInv, Lookup PROVE LookupInv'
<1>1. TypeOK /\ Count \in Nat /\ Count' = Count
  BY RowTypes DEF LookupInv, Lookup, Call, NoIterator, search_addr_in_lines,
                  get_addr_from_source_line, Count
<1>2. ASSUME NEW c \in {"step_in", "where", "break"}, NEW a \in Nat,
             NEW f \in Files \cup {"none"}, NoIterator(c, a, f)
      PROVE  LookupInv'
  BY <1>1, <1>2 DEF NoIterator, Call, Return, LookupInv, TypeOK, SearchInv, ScanInv, SearchBrackets,
                    ScanFindsFirst, Searched, Scanned
<1>3. ASSUME NEW c \in {"step_in", "where"}, NEW a \in Nat, search_addr_in_lines(c, a)
      PROVE  LookupInv'
  BY <1>1, <1>3 DEF search_addr_in_lines, Call, LookupInv, TypeOK, SearchInv, ScanInv,
                    SearchBrackets, ScanFindsFirst, Searched, Scanned
<1>4. ASSUME NEW f \in Files, NEW n \in Nat, get_addr_from_source_line(f, n)
      PROVE  LookupInv'
  BY <1>1, <1>4 DEF get_addr_from_source_line, Call, LookupInv, TypeOK, SearchInv, ScanInv,
                    SearchBrackets, ScanFindsFirst, Searched, Scanned
<1> QED
  BY <1>2, <1>3, <1>4, QueriesAssumption DEF Lookup

(* A turn of the binary search narrows it, and its end returns what the    *)
(* loop invariant says of the last row left.                               *)
LEMMA SearchSteps == ASSUME LookupInv, SearchTurn \/ SearchEnd PROVE LookupInv'
<1>1. TypeOK /\ Count \in Nat /\ Count' = Count /\ arg \in Nat
  BY RowTypes DEF LookupInv, TypeOK, SearchTurn, SearchEnd, Count
<1>2. \A k : row(k)' = row(k)
  BY DEF SearchTurn, SearchEnd, row
<1>3. caller \in {"step_in", "where"} /\ at = "search" /\ SearchInv
  BY DEF LookupInv, SearchInv, SearchTurn, SearchEnd
<1>4. CASE SearchTurn
  <2>1. low <= mid /\ mid <= high /\ mid \in 0 .. Count - 1 /\ row(mid).addr \in Nat
    BY <1>1, <1>3, <1>4, RowTypes DEF SearchTurn, SearchInv, mid
  <2>3. CASE row(mid).addr > arg /\ high' = mid - 1 /\ UNCHANGED low
    <3>1. SearchInv'
      BY <1>1, <1>2, <1>3, <1>4, <2>1, <2>3 DEF SearchTurn, SearchInv
    <3> QED
      BY <1>1, <1>3, <1>4, <2>1, <2>3, <3>1
         DEF SearchTurn, LookupInv, TypeOK, ScanInv, SearchBrackets, ScanFindsFirst, Searched, Scanned
  <2>4. CASE row(mid).addr <= arg /\ low' = mid + 1 /\ UNCHANGED high
    <3>1. SearchInv'
      BY <1>1, <1>2, <1>3, <1>4, <2>1, <2>4 DEF SearchTurn, SearchInv
    <3> QED
      BY <1>1, <1>3, <1>4, <2>1, <2>4, <3>1
         DEF SearchTurn, LookupInv, TypeOK, ScanInv, SearchBrackets, ScanFindsFirst, Searched, Scanned
  <2> QED
    BY <1>4, <2>3, <2>4 DEF SearchTurn
<1>5. CASE SearchEnd
  <2>1. low = high + 1
    BY <1>1, <1>3, <1>5 DEF SearchEnd, SearchInv
  <2>2. TypeOK' /\ SearchInv' /\ ScanInv' /\ ScanFindsFirst'
    BY <1>1, <1>3, <1>5 DEF SearchEnd, Return, LookupInv, TypeOK, SearchInv, ScanInv,
                            ScanFindsFirst, Scanned
  <2>3. SearchBrackets'
    <3>1. CASE high < 0
      <4>1. high = -1 /\ (Count > 0 => row(0).addr > arg)
        BY <1>1, <1>3, <3>1 DEF SearchInv
      <4>2. res' # "OK" /\ arg' = arg
        BY <1>1, <1>5, <3>1 DEF SearchEnd, Return, TypeOK
      <4> QED
        BY <1>1, <1>2, <4>1, <4>2 DEF SearchBrackets
    <3>2. CASE high >= 0 /\ dwarf' = "OK"
      <4>1. res' = "OK" /\ index' = high /\ arg' = arg
        BY <1>1, <1>5, <3>2 DEF SearchEnd, Return, TypeOK
      <4>2. row(high).addr <= arg /\ high < Count /\ (high + 1 < Count => row(high + 1).addr > arg)
        <5>1. low - 1 = high /\ low > 0
          BY <1>1, <2>1, <3>2 DEF TypeOK
        <5> QED
          BY <1>1, <1>3, <5>1 DEF SearchInv
      <4> QED
        BY <1>1, <1>2, <4>1, <4>2 DEF SearchBrackets
    <3>3. CASE high >= 0 /\ dwarf' = "failed"
      BY <3>3 DEF SearchBrackets, Searched
    <3> QED
      BY <1>1, <1>5, <3>1, <3>2, <3>3 DEF SearchEnd, Return, TypeOK
  <2> QED
    BY <2>2, <2>3 DEF LookupInv
<1> QED
  BY <1>4, <1>5

(* A turn of the scan passes one row, or returns it.                       *)
LEMMA ScanSteps == ASSUME LookupInv, ScanTurn \/ ScanEnd PROVE LookupInv'
<1>1. TypeOK /\ Count \in Nat /\ Count' = Count
  BY RowTypes DEF LookupInv, TypeOK, ScanTurn, ScanEnd, Count
<1>2. \A k : Matches(k)' <=> Matches(k)
  BY DEF ScanTurn, ScanEnd, row, Matches
<1>3. /\ at = "scan" /\ caller = "break" /\ i \in 0 .. Count
      /\ dwarf = "OK" => \A k \in 0 .. i - 1 : ~Matches(k)
  BY <1>1 DEF LookupInv, TypeOK, ScanInv, ScanTurn, ScanEnd
<1>4. CASE ScanTurn /\ i' = i + 1 /\ UNCHANGED <<at, low, high, res, index>>
  <2>1. /\ i' <= Count /\ dwarf' \in {"OK", "failed"}
        /\ dwarf' = "OK" => \A k \in 0 .. i' - 1 : ~Matches(k)
    BY <1>1, <1>3, <1>4, RowTypes DEF ScanTurn, TypeOK, Matches, Return
  <2> QED
    BY <1>1, <1>2, <1>3, <1>4, <2>1
       DEF ScanTurn, LookupInv, TypeOK, SearchInv, ScanInv, SearchBrackets, ScanFindsFirst,
           Searched, Scanned
<1>5. CASE ScanTurn /\ Return("OK", i, dwarf) /\ Matches(i)
  <2>1. ScanFindsFirst'
    BY <1>1, <1>2, <1>3, <1>5 DEF ScanTurn, Return, ScanFindsFirst, Scanned
  <2> QED
    BY <1>1, <1>3, <1>5, <2>1
       DEF ScanTurn, Return, LookupInv, TypeOK, SearchInv, ScanInv, SearchBrackets, Searched
<1>6. CASE ScanTurn /\ Return("OK", i, "failed")
  BY <1>1, <1>3, <1>6
     DEF ScanTurn, Return, LookupInv, TypeOK, SearchInv, ScanInv, SearchBrackets, ScanFindsFirst,
         Searched, Scanned
<1>7. CASE ScanEnd
  <2>1. ScanFindsFirst'
    BY <1>1, <1>2, <1>3, <1>7 DEF ScanEnd, Return, ScanFindsFirst, Scanned
  <2> QED
    BY <1>1, <1>3, <1>7, <2>1
       DEF ScanEnd, Return, LookupInv, TypeOK, SearchInv, ScanInv, SearchBrackets, Searched
<1> QED
  BY <1>4, <1>5, <1>6, <1>7 DEF ScanTurn, Matches

(* A lookup that fails promises nothing.                                   *)
LEMMA FailureStep == ASSUME LookupInv, LookupFails PROVE LookupInv'
BY DEF LookupFails, Return, LookupInv, TypeOK, SearchInv, ScanInv, SearchBrackets, ScanFindsFirst,
       Searched, Scanned

(* In a table in address order, the bracket that the search returns        *)
(* settles every row.                                                      *)
LEMMA BracketIsLast == ASSUME LookupInv PROVE SearchFindsLast
<1> SUFFICES ASSUME Searched, AddressOrder,
                    NEW k \in 0 .. Count - 1
             PROVE  IF res = "OK" THEN row(k).addr <= arg <=> k <= index ELSE row(k).addr > arg
  BY DEF SearchFindsLast
<1>1. Count \in Nat /\ arg \in Nat /\ index \in Nat
      /\ \A j \in 0 .. Count - 1 : row(j).addr \in Nat
  BY RowTypes DEF LookupInv, TypeOK
<1>2. ASSUME NEW j \in 0 .. Count - 1, NEW l \in 0 .. Count - 1, j < l
      PROVE  row(j).addr <= row(l).addr
  BY <1>1, <1>2 DEF AddressOrder, row
<1>3. CASE res = "OK"
  <2>1. /\ index < Count
        /\ row(index).addr <= arg
        /\ index + 1 < Count => row(index + 1).addr > arg
    BY <1>3 DEF LookupInv, SearchBrackets
  <2>2. CASE k <= index
    BY <1>1, <1>2, <1>3, <2>1, <2>2
  <2>3. CASE k > index
    <3>1. index + 1 < Count /\ index + 1 \in 0 .. Count - 1
      BY <1>1, <2>3
    <3>2. row(index + 1).addr <= row(k).addr
      BY <1>1, <1>2, <2>3, <3>1
    <3> QED
      BY <1>1, <1>3, <2>1, <2>3, <3>1, <3>2
  <2> QED
    BY <1>1, <2>2, <2>3
<1>4. CASE res # "OK"
  <2>1. 0 \in 0 .. Count - 1 /\ row(0).addr > arg
    BY <1>1, <1>4 DEF LookupInv, SearchBrackets
  <2>2. k = 0 \/ row(0).addr <= row(k).addr
    BY <1>1, <1>2, <2>1
  <2> QED
    BY <1>1, <1>4, <2>1, <2>2
<1> QED
  BY <1>3, <1>4

(* In a file whose rows are in line order, the first match is a row of the *)
(* line asked for if there is one.                                         *)
LEMMA FirstIsOwn == ASSUME LookupInv PROVE ScanFindsLine
<1> DEFINE rows == {k \in 0 .. Count - 1 : row(k).file = file /\ row(k).line >= arg}
           own  == {k \in rows : row(k).line = arg}
<1> SUFFICES ASSUME Scanned, LineOrder
             PROVE  /\ own # {} => res = "OK" /\ index \in own /\ \A k \in own : index <= k
                    /\ rows = {} => res = "NO_ENTRY"
                    /\ res = "OK" => index \in rows
  BY DEF ScanFindsLine
<1>1. /\ Count \in Nat /\ index \in Nat /\ arg \in Nat
      /\ \A k \in 0 .. Count - 1 : row(k).line \in Nat
  BY RowTypes DEF LookupInv, TypeOK
<1>2. CASE res = "OK"
  <2>1. index < Count /\ Matches(index) /\ \A k \in 0 .. index - 1 : ~Matches(k)
    BY <1>2 DEF LookupInv, ScanFindsFirst
  <2>2. index \in rows
    BY <1>1, <2>1 DEF Matches
  <2>3. ASSUME NEW k \in own PROVE index <= k /\ row(index).line = arg
    <3>1. Matches(k) /\ k \in 0 .. Count - 1 /\ row(k).line = arg
      BY <2>3 DEF Matches
    <3>2. index <= k
      BY <1>1, <2>1, <3>1
    <3>3. k = index \/ (index + 1 \in 1 .. Count /\ k + 1 \in 1 .. Count /\ index + 1 < k + 1)
      BY <1>1, <2>1, <3>1, <3>2
    <3>4. row(index).line <= row(k).line
      BY <1>1, <2>1, <3>1, <3>2, <3>3 DEF LineOrder, Matches, row
    <3>5. row(index).line \in Nat /\ row(index).line >= arg
      BY <1>1, <2>2
    <3> QED
      BY <1>1, <3>1, <3>2, <3>4, <3>5
  <2> QED
    BY <1>2, <2>2, <2>3
<1>3. CASE res # "OK"
  <2>1. res = "NO_ENTRY" /\ \A k \in 0 .. Count - 1 : ~Matches(k)
    BY <1>3 DEF LookupInv, ScanFindsFirst
  <2>2. rows = {}
    BY <2>1 DEF Matches
  <2> QED
    BY <1>3, <2>1, <2>2
<1> QED
  BY <1>2, <1>3

LEMMA LookupInvariant == Spec => []LookupInv
<1>1. Init => LookupInv
  BY DEF Init, LookupInv, TypeOK, SearchInv, ScanInv, SearchBrackets, ScanFindsFirst, Searched,
         Scanned
<1>2. LookupInv /\ [Next]_vars => LookupInv'
  <2>1. ASSUME LookupInv, UNCHANGED vars PROVE LookupInv'
    BY <2>1 DEF vars, LookupInv, TypeOK, SearchInv, ScanInv, SearchBrackets, ScanFindsFirst,
                Searched, Scanned, Matches, row, Count
  <2> QED
    BY <2>1, LookupCalled, SearchSteps, ScanSteps, FailureStep DEF Next, Loop
<1> QED
  BY <1>1, <1>2, PTL DEF Spec

(* For every line table and address the binary search reads only rows that *)
(* exist, returns a row whose address brackets the one asked for, and the  *)
(* last such row of a sorted table.                                        *)
THEOREM SearchCorrect == Spec => [](ReadsInTable /\ SearchBrackets /\ SearchFindsLast)
<1>1. LookupInv => ReadsInTable
  BY RowTypes DEF LookupInv, TypeOK, SearchInv, ReadsInTable, mid
<1>2. LookupInv => SearchBrackets /\ SearchFindsLast
  BY BracketIsLast DEF LookupInv
<1> QED
  BY <1>1, <1>2, LookupInvariant, PTL

(* In every table that has the file's rows in line order the scan returns  *)
(* the first row of the line asked for, if the line has a row, nothing if  *)
(* the line is behind the file's last, and never an earlier line.          *)
THEOREM ScanCorrect == Spec => []ScanFindsLine
<1>1. LookupInv => ScanFindsLine
  BY FirstIsOwn DEF LookupInv
<1> QED
  BY <1>1, LookupInvariant, PTL
=============================================================================
