---------------------------- MODULE MCLineTable -----------------------------
(***************************************************************************)
(* Every line table of up to MaxRows rows, in address order or not, with     *)
(* repeated addresses and lines, for checking LineTable.                   *)
(***************************************************************************)
EXTENDS LineTable, SequencesExt

CONSTANTS MaxRows, RowAddrs, RowLines

AllTables == SeqOf([addr: RowAddrs, line: RowLines, file: Files], MaxRows)
=============================================================================
