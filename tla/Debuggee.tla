------------------------------ MODULE Debuggee ------------------------------
(***************************************************************************)
(* What the debugger sees of its child process through ptrace(2): words of *)
(* memory, and a program whose instructions the processor fetches from     *)
(* that memory.  None of this is code of the repository; it is modelled    *)
(* from the way debugger.c uses PTRACE_PEEKDATA, PTRACE_POKEDATA,          *)
(* PTRACE_CONT and PTRACE_SINGLESTEP.                                      *)
(*                                                                         *)
(* A byte is abstracted to what tells it apart: "code" is the byte that    *)
(* the program itself has at that address, "int3" is 0xcc written by the   *)
(* debugger and "zero" is 0x00 written by the debugger.                    *)
(***************************************************************************)
EXTENDS Integers, Sequences

CONSTANTS
  WordSize,  \* bytes that one PEEKDATA or POKEDATA moves (8 on x86-64)
  MemSize,   \* the mapped addresses are 0 .. MemSize - 1
  Program,   \* [instruction address -> [len, op, to]]
  Entry,     \* the instruction at which execve leaves the child stopped
  MaxDepth   \* bound: return addresses that fit on the child's stack

Mem   == 0 .. MemSize - 1
Byte  == {"code", "int3", "zero"}
Word  == [0 .. WordSize - 1 -> Byte]
Insns == DOMAIN Program
Ops   == {"go", "call", "ret", "exit"}

ASSUME WordAssumption == WordSize \in Nat \ {0}
ASSUME MemAssumption == MemSize \in Nat \ {0}
ASSUME DepthAssumption == MaxDepth \in Nat
ASSUME ProgramAssumption ==
  /\ Insns \subseteq Mem
  /\ \A i \in Insns : /\ Program[i].len \in Nat \ {0}
                      /\ i + Program[i].len <= MemSize
                      /\ Program[i].op \in Ops
                      /\ Program[i].to \subseteq Insns
ASSUME EntryAssumption == Entry \in Insns

(* The return addresses that the program's call instructions push.         *)
ReturnSites == {i + Program[i].len : i \in {j \in Insns : Program[j].op = "call"}}

(* A call is followed by an instruction, and instructions do not overlap.  *)
ASSUME LayoutAssumption ==
  /\ ReturnSites \subseteq Insns
  /\ \A i, j \in Insns : i < j => i + Program[i].len <= j
-----------------------------------------------------------------------------
(* PTRACE_PEEKDATA and PTRACE_POKEDATA fail with EIO when part of the word *)
(* is not mapped.                                                          *)
Mapped(a) == a \in Mem /\ a + WordSize - 1 \in Mem

Peek(m, a) == [i \in 0 .. WordSize - 1 |-> m[a + i]]

Poke(m, a, w) ==
  [x \in Mem |-> IF x \in a .. a + WordSize - 1 THEN w[x - a] ELSE m[x]]

(* The bytes of the instruction at p are the program's own.                *)
Intact(m, p) ==
  /\ p \in Insns
  /\ \A x \in p .. p + Program[p].len - 1 : m[x] = "code"

(* Where executing the intact instruction at p may leave the program       *)
(* counter and the stack of return addresses; an empty set means that the  *)
(* process ends (exit, a return from the outermost frame, or an exhausted  *)
(* stack).                                                                 *)
Outcomes(p, s) ==
  LET i == Program[p] IN
    CASE i.op = "go"   -> {<<t, s>> : t \in i.to}
      [] i.op = "call" -> IF Len(s) < MaxDepth
                          THEN {<<t, <<p + i.len>> \o s>> : t \in i.to}
                          ELSE {}
      [] i.op = "ret"  -> IF s = <<>> THEN {} ELSE {<<Head(s), Tail(s)>>}
      [] i.op = "exit" -> {}
=============================================================================
