----------------------------- MODULE Registers ------------------------------
(***************************************************************************)
(* The register file of the stopped debuggee and the reg command.  A       *)
(* register is its place in the enum REGISTER; registers.c maps names and  *)
(* DWARF numbers to it.  Words are Width bits wide.                        *)
(***************************************************************************)
EXTENDS Integers, SequencesExt

CONSTANTS
  Width,    \* bits of a word, 64 in the code
  Options,  \* the words typed for the action and for the mode
  Args,     \* the tokens typed for the register
  Values    \* the tokens typed for the value

(* A token is a name, or a numeral in its digits; Absent is no token.      *)
Name(n)        == [name |-> n, sign |-> 1, digits |-> <<>>]
Numeral(s, ds) == [name |-> "none", sign |-> s, digits |-> ds]
Absent         == [name |-> "absent", sign |-> 1, digits |-> <<>>]

ASSUME WidthAssumption == Width \in Nat \ {0, 1}

ASSUME TokensAssumption ==
  \A t \in Args \cup Values : t.sign \in {1, -1} /\ t.digits \in Seq(Nat)

(* 2^n, by the recursion that the proofs unfold.                           *)
Power(n) == LET p[k \in 0 .. n] == IF k = 0 THEN 1 ELSE 2 * p[k - 1] IN p[n]
Modulus  == Power(Width)
Half     == Power(Width - 1)

UWORD   == 0 .. Modulus - 1
Word(n) == n % Modulus
WORD(w) == IF w < Half THEN w ELSE w - Modulus

VARIABLES
  regs,   \* the registers of the debuggee
  alive,  \* is there still a debuggee?
  reply,  \* what the last command has printed or returned
  wrote   \* the last write to a named register (for the properties)

regVars == <<regs, alive, reply, wrote>>

registerAbbr == <<"r15", "r14", "r13", "r12", "rbp", "rbx", "r11", "r10", "r9", "r8",
  "rax", "rcx", "rdx", "rsi", "rdi", "orig_rax", "rip", "cs", "eflags", "rsp", "ss",
  "fs_base", "gs_base", "ds", "es", "fs", "gs">>

NUM_REGISTERS == Len(registerAbbr)
REGISTER      == 0 .. NUM_REGISTERS - 1

DWARFMappings == <<15, 14, 13, 12, 6, 3, 11, 10, 9, 8, 0, 2, 1, 4, 5, -1, -1, 51, 49, 7, 52,
  58, 59, 53, 50, 54, 55>>

NO_SUCH_REGISTER == 1

(* The first register whose entry in the table is x.                       *)
Lookup(table, x) ==
  IF \E k \in 1 .. NUM_REGISTERS : table[k] = x
  THEN (CHOOSE k \in 1 .. NUM_REGISTERS : table[k] = x /\ \A j \in 1 .. k - 1 : table[j] # x) - 1
  ELSE NO_SUCH_REGISTER

abbr_to_reg(t)   == Lookup(registerAbbr, t.name)
DW_to_reg(n)     == Lookup(DWARFMappings, n)
get_register(r)  == r \in REGISTER
rip              == abbr_to_reg(Name("rip"))
-----------------------------------------------------------------------------
(* strtol: the numeral's value in the base.  A token that is not used up   *)
(* is refused.                                                             *)
IsNumeral(t, base) == t.digits # <<>> /\ \A k \in DOMAIN t.digits : t.digits[k] < base
strtol(t, base)    ==
  LET v[k \in 0 .. Len(t.digits)] == IF k = 0 THEN 0 ELSE v[k - 1] * base + t.digits[k] IN
    t.sign * v[Len(t.digits)]

(* strtoll: the nearest WORD.                                              *)
strtoll(t) ==
  LET n == strtol(t, 10) IN
    IF n < -Half THEN -Half ELSE IF n >= Half THEN Half - 1 ELSE n

match_register_option(w) == IF w \in {"read", "write", "s", "d", "a"} THEN w ELSE "invalid"

Refused == [is |-> "refused", value |-> 0]
Done    == [is |-> "done", value |-> 0]
None    == [mode |-> "none", arg |-> Absent, value |-> 0]

(* The registers that the mode and the token may stand for.  reg is not    *)
(* initialised, and only two of the modes assign it.                       *)
Named(mode, t, base) ==
  CASE mode = "s" -> {abbr_to_reg(t)}
    [] mode = "d" -> IF IsNumeral(t, base) THEN {DW_to_reg(strtol(t, base))} ELSE {}
    [] OTHER      -> 0 .. NUM_REGISTERS

print_registers == [is |-> "all", value |-> 0]

(* The base in which read takes a DWARF number, and the one of write.      *)
BaseRead  == 16
BaseWrite == 10

(* reg read.  A register that is refused is one of those in the last case. *)
ReadRegister(mode, arg) ==
  /\ \/ mode = "a" /\ reply' = IF arg = Absent THEN print_registers ELSE Refused
     \/ mode # "a" /\ arg = Absent /\ reply' = Refused
     \/ /\ mode # "a" /\ arg # Absent
        /\ \E r \in Named(mode, arg, BaseRead) :
             reply' = IF r # NO_SUCH_REGISTER /\ get_register(r)
                      THEN [is |-> "value", value |-> regs[r]] ELSE Refused
     \/ /\ mode = "d" /\ arg # Absent /\ Named(mode, arg, BaseRead) = {}
        /\ reply' = Refused
  /\ UNCHANGED <<regs, wrote>>

(* In a mutant: the changed copy is not written.                           *)
SetsNothing(r, v) == regs' = regs

(* set_reg_value reads all registers, changes one and writes all.          *)
set_reg_value(r, v) == regs' = IF get_register(r) THEN [regs EXCEPT ![r] = v] ELSE regs

(* The registers whose values the kernel checks: it may keep the old one.  *)
Checked == {r \in REGISTER : registerAbbr[r + 1] \in
              {"cs", "eflags", "ss", "fs_base", "gs_base", "ds", "es", "fs", "gs"}}

(* reg write.  What set_reg_value returns is not looked at: the command    *)
(* is done even when the kernel refuses the value, or when the debuggee    *)
(* has gone in the meantime.                                               *)
WriteRegister(mode, arg, value) ==
  \/ /\ arg # Absent /\ IsNumeral(value, 10)
     /\ \E r \in Named(mode, arg, BaseWrite) \ {NO_SUCH_REGISTER} :
          \/ /\ set_reg_value(r, Word(strtoll(value)))
             /\ wrote' = IF mode \in {"s", "d"}
                         THEN [mode |-> mode, arg |-> arg, value |-> Word(strtoll(value))] ELSE None
             /\ UNCHANGED alive
          \/ alive' = "no" /\ wrote' = None /\ UNCHANGED regs
          \/ r \in Checked /\ wrote' = None /\ UNCHANGED <<regs, alive>>
     /\ reply' = Done
  \/ /\ \/ arg = Absent
        \/ ~IsNumeral(value, 10)
        \/ Named(mode, arg, BaseWrite) = {}
        \/ NO_SUCH_REGISTER \in Named(mode, arg, BaseWrite)
     /\ reply' = Refused
     /\ UNCHANGED <<regs, alive, wrote>>

(* The command: PTRACE_GETREGS fails when there is no debuggee.            *)
handle_register(action, mode, arg, value) ==
  LET a == match_register_option(action)
      m == match_register_option(mode) IN
    \/ /\ a \notin {"read", "write"} \/ m = "invalid" \/ alive = "no"
       /\ reply' = Refused
       /\ UNCHANGED <<regs, alive, wrote>>
    \/ /\ alive = "yes" /\ m # "invalid" /\ a = "read"
       /\ ReadRegister(m, arg) /\ UNCHANGED alive
    \/ /\ alive = "yes" /\ m # "invalid" /\ a = "write"
       /\ WriteRegister(m, arg, value)

RegisterCommand ==
  \E action, mode \in Options, arg \in Args, value \in Values :
    handle_register(action, mode, arg, value)

(* SIGKILL ends the debuggee at any time.                                  *)
Killed == alive = "yes" /\ alive' = "no" /\ UNCHANGED <<regs, reply, wrote>>

RegistersTypeOK ==
  /\ regs \in [REGISTER -> UWORD]
  /\ alive \in {"yes", "no"}
  /\ reply \in [is: {"refused", "done", "value", "all"}, value: UWORD]
  /\ wrote \in [mode: {"none", "s", "d"}, arg: Args \cup {Absent}, value: UWORD]

RegistersInit ==
  /\ regs = [r \in REGISTER |-> Word(r)]
  /\ alive = "yes"
  /\ reply = Done
  /\ wrote = None
=============================================================================
