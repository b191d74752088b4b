---------------------------- MODULE Breakpoints -----------------------------
(***************************************************************************)
(* The breakpoint functions of debugger.c as operators on the debuggee's   *)
(* memory and on the breakpoint table (the hashmap keyed by mem_addr).     *)
(* The C functions keep their names; the error returns of ptrace are the   *)
(* business of the callers, which test Mapped first.                       *)
(***************************************************************************)
EXTENDS Debuggee

Breakpoint ==
  [mem_addr: Int, saved_data: Word, enabled: BOOLEAN, temporary_enable: BOOLEAN]

ZeroWord == [i \in 0 .. WordSize - 1 |-> "zero"]

make_breakpoint(memAddr) ==
  [mem_addr |-> memAddr, saved_data |-> ZeroWord,
   enabled |-> FALSE, temporary_enable |-> FALSE]

(* temporary_enable is assigned to itself, so the destination keeps its    *)
(* own.                                                                    *)
copy_breakpoint(dest, src) ==
  [src EXCEPT !.temporary_enable = dest.temporary_enable]

(* The function returns KEY_NOT_EXISTS when the table has no entry and 0   *)
(* when it has one; KEY_NOT_EXISTS is 0, so callers cannot tell, and they  *)
(* all go on with the record.  (copy_breakpoint falls off its end without  *)
(* a value when the entry exists: whatever it returns, the result is 0.)   *)
KEY_NOT_EXISTS == 0

get_breakpoint_at_addr(table, memAddr) ==
  IF memAddr \in DOMAIN table
  THEN copy_breakpoint(make_breakpoint(memAddr), table[memAddr])
  ELSE make_breakpoint(memAddr)

(* In a mutant: the record stays in the table.                             *)
KeepsRecord(table, b) == table

save_breakpoint(table, b) ==
  [a \in DOMAIN table \cup {b.mem_addr} |-> IF a = b.mem_addr THEN b ELSE table[a]]

delete_breakpoint(table, b) ==
  [a \in DOMAIN table \ {b.mem_addr} |-> table[a]]

(* Mutants of enable_breakpoint: the rest of the word is lost; the word is *)
(* read back after int3 is in it; or the flag is not set.                  *)
LosesWord(m, b) == Poke(m, b.mem_addr, [ZeroWord EXCEPT ![0] = "int3"])
SavesInt3(m, b) ==
  [b EXCEPT !.saved_data = [Peek(m, b.mem_addr) EXCEPT ![0] = "int3"], !.enabled = TRUE]
StaysDisabled(m, b) == [b EXCEPT !.saved_data = Peek(m, b.mem_addr)]

(* enable_breakpoint writes two things: the text and the record.           *)
armed_text(m, b) ==
  Poke(m, b.mem_addr, [Peek(m, b.mem_addr) EXCEPT ![0] = "int3"])

enabled_record(m, b) ==
  [b EXCEPT !.saved_data = Peek(m, b.mem_addr), !.enabled = TRUE]

(* disable_breakpoint writes back the whole saved word, whatever the       *)
(* record's enabled flag says.                                             *)
disable_breakpoint(m, b) == Poke(m, b.mem_addr, b.saved_data)
=============================================================================
