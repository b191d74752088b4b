------------------------- MODULE MCCompilationUnits -------------------------
(***************************************************************************)
(* Every list of up to MaxUnits units whose ranges touch, are missing or   *)
(* cannot be read, for checking CompilationUnits.                          *)
(***************************************************************************)
EXTENDS CompilationUnits, SequencesExt

CONSTANT MaxUnits

Ranges == {<<"OK", 0, 2>>, <<"OK", 2, 4>>, <<"NO_ENTRY", 0, 0>>, <<"ERROR", 0, 0>>}
Texts  == {t \in Status \X Paths : t[1] = "OK" \/ t[2] = CHOOSE q \in Paths : TRUE}
Sound  == {[head |-> "OK", pcs |-> r[1], low |-> r[2], high |-> r[3], text |-> t[1], path |-> t[2]] :
             r \in Ranges, t \in Texts}
Units  == Sound \cup {[u EXCEPT !.head = "ERROR"] : u \in {v \in Sound : v.pcs = "ERROR" /\ v.text = "ERROR"}}
AllUnitLists == SeqOf(Units, MaxUnits)
=============================================================================
