----------------------------- MODULE MCSession ------------------------------
(***************************************************************************)
(* Small programs, line tables and breakpoint sites for checking Session.  *)
(* Words are two bytes long and the instructions of the programs one to    *)
(* three, so that a word covers the end of one instruction and the start   *)
(* of the next, as the eight-byte words of x86-64 do.                      *)
(***************************************************************************)
EXTENDS SessionInvariant

Go(n, t)   == [len |-> n, op |-> "go", to |-> t]
Call(n, t) == [len |-> n, op |-> "call", to |-> {t}]
Ret        == [len |-> 1, op |-> "ret", to |-> {}]
Halt       == [len |-> 2, op |-> "exit", to |-> {}]

(* main: 0 go, 2 call f, 5 branch, 7 exit; f: 9 call g, 12 go, 13 ret;     *)
(* g: 14 go, 15 ret.  back is where the branch at 5 leads besides 7.       *)
Program3(back) ==
  [a \in {0, 2, 5, 7, 9, 12, 13, 14, 15} |->
     CASE a = 0  -> Go(2, {2})
       [] a = 2  -> Call(3, 9)
       [] a = 5  -> Go(2, back \cup {7})
       [] a = 7  -> Halt
       [] a = 9  -> Call(3, 14)
       [] a = 12 -> Go(1, {13})
       [] a = 14 -> Go(1, {15})
       [] a \in {13, 15} -> Ret]

LoopProgram     == Program3({2})
StraightProgram == Program3({})
Functions3 == {[low |-> 0, high |-> 9], [low |-> 9, high |-> 14], [low |-> 14, high |-> 16]}
SpacedLines == <<0, 5, 5, 7, 9, 12, 14>>
CloseLines  == <<0, 5, 7, 9, 12, 13, 14>>

(* main: 0 call r, 3 exit; r: 5 branch, 7 call r, 10 ret.                  *)
RecursiveProgram ==
  [a \in {0, 3, 5, 7, 10} |->
     CASE a = 0  -> Call(3, 5)
       [] a = 3  -> Halt
       [] a = 5  -> Go(2, {7, 10})
       [] a = 7  -> Call(3, 5)
       [] a = 10 -> Ret]

(* main: 0 call f, 2 exit; f: 4 go, 5 ret.                                 *)
TinyProgram ==
  [a \in {0, 2, 4, 5} |->
     CASE a = 0 -> Call(2, 4)
       [] a = 2 -> Halt
       [] a = 4 -> Go(1, {5})
       [] a = 5 -> Ret]
TinyFunctions == {[low |-> 4, high |-> 6]}
TinyLines     == <<0, 4>>
=============================================================================
