----------------------------- MODULE MCCmdLine ------------------------------
(***************************************************************************)
(* Every line of up to MaxLength characters, two letters for words, for    *)
(* checking CmdLine with a buffer of a few bytes.                          *)
(***************************************************************************)
EXTENDS CmdLine

CONSTANT MaxLength

AllLines == SeqOf(Letters \cup {" ", ";"}, MaxLength)
Quit     == <<"q">>
Known    == {<<"a">>}
=============================================================================
