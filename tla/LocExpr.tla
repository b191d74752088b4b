------------------------------ MODULE LocExpr -------------------------------
(***************************************************************************)
(* The evaluation of a variable's location: get_var_location chooses an    *)
(* entry of its location list, evaluate_expr runs the entry's expression   *)
(* on a stack machine, and parse_opcode is one step of the machine.  The   *)
(* debuggee is stopped meanwhile; its registers are those of Registers,    *)
(* which the user may change between two evaluations.                      *)
(***************************************************************************)
EXTENDS Registers

CONSTANTS
  StackSize,      \* EXPR_STACK_SIZE, 256 in the code
  UnsignedRange,  \* the values of a Dwarf_Unsigned, 2^64 in the code
  Memory,         \* the words of the debuggee that can be read
  Frame,          \* frame_base, load_address, caller_sp and obj_addr
  Scenarios       \* a location list, h_initial, and how many reg commands come first

(* An operation is its name with operands a and b.                         *)
Op(o)       == [op |-> o, a |-> 0, b |-> 0]
Op1(o, a)   == [op |-> o, a |-> a, b |-> 0]
Entry(lo, hi, e) == [lo |-> lo, hi |-> hi, expr |-> e]

(* The operand of pick is a byte.                                          *)
Operation == {o \in [op: STRING, a: Int, b: Int] : o.op = "pick" => o.a >= 0}

ASSUME ScenariosAssumption ==
  /\ StackSize \in Nat \ {0}
  /\ DOMAIN Memory \subseteq UWORD /\ \A w \in DOMAIN Memory : Memory[w] \in UWORD
  /\ Frame \in [frame_base: Int, load_address: Int, caller_sp: Int, obj_addr: Int]
  /\ \A s \in Scenarios : /\ s.locs \in Seq([lo: Nat, hi: Nat, expr: Seq(Operation)])
                           /\ s.initial \in {0, 1} /\ s.commands \in Nat

(* An operation is of at most nine bytes; all offsets are far from 2^64.   *)
ASSUME RangeAssumption ==
  /\ UnsignedRange \in Nat
  /\ \A s \in Scenarios : \A k \in DOMAIN s.locs :
       LET e == s.locs[k].expr IN
         9 * Len(e) + 2 <= UnsignedRange /\ \A j \in DOMAIN e : -UnsignedRange <= e[j].a

VARIABLES
  locs,    \* the variable's location list
  initial, \* loc_info.h_initial
  budget,  \* the commands that may still come before the evaluation
  at,      \* "prompt", "entry", "run" or "done"
  i,       \* the operation that is next, or the entry that is looked at
  expr,    \* the expression of the entry looked at last
  stack,   \* op_stack, up to stack_top
  result   \* what evaluate_expr has returned

evalVars == <<locs, initial, budget, at, i, expr, stack, result>>
vars     == <<regVars, evalVars>>

LocInit ==
  /\ RegistersInit
  /\ \E s \in Scenarios : locs = s.locs /\ initial = s.initial /\ budget = s.commands
  /\ at = "prompt"
  /\ i = 1
  /\ expr = <<>>
  /\ stack = <<>>
  /\ result = Done
-----------------------------------------------------------------------------
(* What parse_opcode returns: NEXT_OP, one of the negative results, which  *)
(* go on to the next operation as well, an error, or nothing because the   *)
(* operation has ended the debugger.  skip is *bytes.                      *)
Goes(s, bytes) == {[res |-> "next", stack |-> s, skip |-> bytes]}
Fails          == {[res |-> "error", stack |-> stack, skip |-> 0]}
Crashes        == {[res |-> "crash", stack |-> stack, skip |-> 0]}

(* In a mutant: the limit of the stack is not tested.                      *)
PushesAlways(s, v) == Goes(Append(s, v), 0)

push_expr_tkn(s, v) == IF Len(s) = StackSize THEN Fails ELSE Goes(Append(s, v), 0)

(* pop_stack_top: the topmost n values are Top(1), ..., Top(n).            *)
Top(k)     == stack[Len(stack) + 1 - k]
Popped(n)  == SubSeq(stack, 1, Len(stack) - n)
Pops(n, R) == IF Len(stack) < n THEN Fails ELSE R

(* The bits of words.                                                      *)
Bit(w, k)    == (w \div Power(k)) % 2 = 1
WithBits(on) ==
  LET sum[k \in 0 .. Width] == IF k = 0 THEN 0 ELSE sum[k - 1] + (IF k - 1 \in on THEN Power(k - 1) ELSE 0) IN
    sum[Width]

(* C's division of WORDs, which truncates.                                 *)
Abs(n)     == IF n < 0 THEN -n ELSE n
Quot(n, m) == IF (n < 0) = (m < 0) THEN Abs(n) \div Abs(m) ELSE -(Abs(n) \div Abs(m))
Truth(p)   == IF p THEN 1 ELSE 0

(* In a mutant: the operands the other way round.                          *)
UBINOPSwapped(o, c, b) == CASE o = "minus" -> b - c [] o = "plus" -> c + b [] OTHER -> 0

(* The binary operations, for c below b.                                   *)
UBINOP(o, c, b) ==
  CASE o = "and"   -> WithBits({k \in 0 .. Width - 1 : Bit(c, k) /\ Bit(b, k)})
    [] o = "or"    -> WithBits({k \in 0 .. Width - 1 : Bit(c, k) \/ Bit(b, k)})
    [] o = "xor"   -> WithBits({k \in 0 .. Width - 1 : Bit(c, k) # Bit(b, k)})
    [] o = "plus"  -> c + b
    [] o = "minus" -> c - b
    [] o = "mul"   -> c * b
    [] o = "mod"   -> c % b

SBINOP(o, c, b) ==
  CASE o = "eq" -> Truth(c = b)
    [] o = "ne" -> Truth(c # b)
    [] o = "lt" -> Truth(c < b)
    [] o = "le" -> Truth(c <= b)
    [] o = "gt" -> Truth(c > b)
    [] o = "ge" -> Truth(c >= b)

UBinary == {"and", "or", "xor", "plus", "minus", "mul", "mod"}
SBinary == {"eq", "ne", "lt", "le", "gt", "ge"}

(* SIGFPE: a division by zero, or of the least WORD by -1.                 *)
Traps(o, c, b) ==
  \/ o \in {"div", "mod"} /\ b = 0
  \/ o = "div" /\ WORD(b) = -1 /\ WORD(c) = -Half

parse_op_div(c, b) == Quot(WORD(c), WORD(b))

(* parse_op_shl shifts to the right and parse_op_shr to the left.          *)
parse_op_shl(c, b)  == IF b >= Width THEN 0 ELSE c \div Power(b)
parse_op_shr(c, b)  == IF b >= Width THEN 0 ELSE c * Power(b)
parse_op_shra(c, b) ==
  IF b >= Width THEN 0
  ELSE IF WORD(c) < 0 THEN -(Word(-WORD(c)) \div Power(b)) ELSE c \div Power(b)

Binary(o, c, b) ==
  CASE o \in UBinary -> UBINOP(o, c, b)
    [] o \in SBinary -> SBINOP(o, WORD(c), WORD(b))
    [] o = "div"     -> parse_op_div(c, b)
    [] o = "shl"     -> parse_op_shl(c, b)
    [] o = "shr"     -> parse_op_shr(c, b)
    [] o = "shra"    -> parse_op_shra(c, b)

Unary(o, a, b) ==
  CASE o = "neg" -> -WORD(b)
    [] o = "not" -> -b - 1
    [] o = "abs" -> Abs(WORD(b))
    [] o = "plus_uconst" -> b + a

BinaryOps == UBinary \cup SBinary \cup {"div", "shl", "shr", "shra"}
UnaryOps  == {"neg", "not", "abs", "plus_uconst"}

(* The operations that push a value.  breg takes the DWARF number for the  *)
(* place in the enum and leaves its offset out; bregx adds to a word that  *)
(* is not initialised; deref_size pushes its operand.                      *)
Pushed(o) ==
  CASE o.op \in {"const", "lit", "deref_size", "reg", "regx"} -> {o.a}
    [] o.op = "addr"  -> {o.a + Frame.load_address}
    [] o.op = "fbreg" -> {o.a + Frame.frame_base}
    [] o.op = "breg"  -> {regs[r] : r \in {o.a} \cap REGISTER}
    [] o.op = "bregx" -> IF get_register(o.a) THEN UWORD ELSE {}
    [] o.op = "push_object_address" -> {Frame.obj_addr}
    [] o.op = "call_frame_cfa"      -> {Frame.caller_sp}

Pushes == {"const", "lit", "deref_size", "reg", "regx", "addr", "fbreg", "breg", "bregx",
           "push_object_address", "call_frame_cfa"}

(* parse_op_deref: it reads nothing when the debuggee has gone.            *)
parse_op_deref ==
  Pops(1, IF alive = "yes" /\ Top(1) \in DOMAIN Memory
          THEN Goes(Append(Popped(1), Memory[Top(1)]), 0) ELSE Fails)

(* In a mutant: the operand of bra stays on the stack.                     *)
BraKeeps(n) == Pops(1, Goes(stack, IF Top(1) # 0 THEN n ELSE 0))

parse_op_dup     == Pops(1, push_expr_tkn(stack, Top(1)))
parse_op_swap    == Pops(2, Goes(Popped(2) \o <<Top(1), Top(2)>>, 0))
parse_op_rot     == Pops(3, Goes(Popped(3) \o <<Top(1), Top(3), Top(2)>>, 0))
parse_op_pick(n) == IF n >= Len(stack) THEN Fails ELSE push_expr_tkn(stack, Top(n + 1))
parse_op_bra(n)  == Pops(1, Goes(Popped(1), IF Top(1) # 0 THEN n ELSE 0))

parse_opcode(o) ==
  CASE o.op \in Pushes   -> IF Pushed(o) = {} THEN Fails
                            ELSE UNION {push_expr_tkn(stack, Word(v)) : v \in Pushed(o)}
    [] o.op \in UnaryOps -> Pops(1, Goes(Append(Popped(1), Word(Unary(o.op, o.a, Top(1)))), 0))
    [] o.op \in BinaryOps ->
         Pops(2, IF Traps(o.op, Top(2), Top(1)) THEN Crashes
                 ELSE Goes(Append(Popped(2), Word(Binary(o.op, Top(2), Top(1)))), 0))
    [] o.op = "deref" -> parse_op_deref
    [] o.op = "dup"   -> parse_op_dup
    [] o.op = "drop"  -> Pops(1, Goes(Popped(1), 0))
    [] o.op = "over"  -> parse_op_pick(1)
    [] o.op = "pick"  -> parse_op_pick(o.a)
    [] o.op = "swap"  -> parse_op_swap
    [] o.op = "rot"   -> parse_op_rot
    [] o.op = "skip"  -> Goes(stack, o.a)
    [] o.op = "bra"   -> parse_op_bra(o.a)
    [] o.op \in {"nop", "stack_value", "implicit_value", "implicit_pointer"} -> Goes(stack, 0)
    [] OTHER -> Fails   \* a piece, and what is unimplemented or invalid

(* The offset of operation k from the start of the expression.             *)
OpSize(o) ==
  CASE o.op \in {"skip", "bra", "bregx"} -> 3
    [] o.op \in {"const", "plus_uconst", "pick", "fbreg", "breg", "regx", "deref_size"} -> 2
    [] o.op = "addr" -> 9
    [] OTHER -> 1

Offset(k) ==
  LET sum[j \in 1 .. k] == IF j = 1 THEN 0 ELSE sum[j - 1] + OpSize(expr[j - 1]) IN sum[k]

(* Offsets are Dwarf_Unsigned.                                             *)
Dwarf_Unsigned(n) == n % UnsignedRange

(* In a mutant: the offset counts from the start of the branch.            *)
NoBranchSize == 0

(* The bytes of a branch that offsets are counted from.                    *)
BranchSize == 2
Behind(j)  == Dwarf_Unsigned(Offset(j) - (Offset(i) + BranchSize))

(* Where the loops of evaluate_expr come to rest after a branch.  At the   *)
(* branch itself Behind is a huge number: a branch forward stays there.    *)
Landing(skip) ==
  IF skip > 0
  THEN Min({j \in i .. Len(expr) : Behind(j) >= skip \/ j = Len(expr)})
  ELSE Max({j \in 1 .. i : Behind(j) <= Dwarf_Unsigned(skip) \/ j = 1})
-----------------------------------------------------------------------------
Return(r)   == at' = "done" /\ result' = r
ErrorResult == [is |-> "error", value |-> 0]
Crash       == [is |-> "crash", value |-> 0]

Command == at = "prompt" /\ budget > 0 /\ RegisterCommand /\ budget' = budget - 1
           /\ UNCHANGED <<locs, initial, at, i, expr, stack, result>>

(* init_loc_info and the head of get_var_location, which pushes the flag   *)
(* h_initial and not the value.                                            *)
Locate ==
  /\ at = "prompt"
  /\ \/ alive = "no" /\ Return(ErrorResult) /\ UNCHANGED stack
     \/ /\ alive = "yes"
        /\ at' = "entry"
        /\ stack' = IF initial # 0 THEN <<initial>> ELSE <<>>
        /\ UNCHANGED result
  /\ UNCHANGED <<regVars, locs, initial, budget, i, expr>>

pc == Word(regs[rip] - Frame.load_address)

(* In a mutant: the entry begins after lopc.                               *)
CoversBehind(e) == e.lo < pc /\ e.hi >= pc

(* The loop over the entries.  hipc counts as inside; when no entry has    *)
(* the pc, the last one is evaluated.                                      *)
Covers(e) == e.lo <= pc /\ e.hi >= pc

ChooseEntry ==
  /\ at = "entry"
  /\ \/ /\ i <= Len(locs)
        /\ expr' = locs[i].expr
        /\ IF Covers(locs[i]) THEN at' = "run" /\ i' = 1 ELSE i' = i + 1 /\ UNCHANGED at
        /\ UNCHANGED result
     \/ /\ i > Len(locs)
        /\ at' = "run" /\ i' = 1
        /\ UNCHANGED <<expr, result>>
  /\ UNCHANGED <<regVars, locs, initial, budget, stack>>

(* One turn of evaluate_expr's loop.                                       *)
RunOp ==
  /\ at = "run" /\ i <= Len(expr)
  /\ \E out \in parse_opcode(expr[i]) :
       \/ /\ out.res = "next"
          /\ stack' = out.stack
          /\ i' = IF out.skip = 0 THEN i + 1 ELSE Landing(out.skip)
          /\ UNCHANGED <<at, result>>
       \/ out.res = "error" /\ Return(ErrorResult) /\ UNCHANGED <<i, stack>>
       \/ out.res = "crash" /\ Return(Crash) /\ UNCHANGED <<i, stack>>
  /\ UNCHANGED <<regVars, locs, initial, budget, expr>>

(* The top is the result.  That it may be a register's number has been     *)
(* forgotten: the switch looks at what pop_stack_top has returned.         *)
EndOfExpr ==
  /\ at = "run" /\ i > Len(expr)
  /\ Return(IF stack = <<>> THEN ErrorResult ELSE [is |-> "value", value |-> Top(1)])
  /\ stack' = IF stack = <<>> THEN stack ELSE Popped(1)
  /\ UNCHANGED <<regVars, locs, initial, budget, i, expr>>

(* Libdwarf fails to read the location list, an entry or an operation.     *)
LibdwarfFails ==
  /\ at = "prompt" \/ (at = "entry" /\ i <= Len(locs)) \/ (at = "run" /\ i <= Len(expr))
  /\ Return(ErrorResult)
  /\ UNCHANGED <<regVars, locs, initial, budget, i, expr, stack>>

Evaluate == Locate \/ ChooseEntry \/ RunOp \/ EndOfExpr

Next == Command \/ Evaluate \/ LibdwarfFails \/ (Killed /\ at \in {"prompt", "run"} /\ UNCHANGED evalVars)
        \/ (at = "done" /\ UNCHANGED vars)

Spec == LocInit /\ [][Next]_vars

(* The debugger is one thread and evaluates without waiting; nothing makes *)
(* libdwarf fail.                                                          *)
FairSpec == Spec /\ WF_vars(Evaluate)

TypeOK ==
  /\ RegistersTypeOK
  /\ initial \in {0, 1} /\ budget \in Nat
  /\ at \in {"prompt", "entry", "run", "done"}
  /\ i \in Nat
  /\ stack \in Seq(UWORD) /\ Len(stack) <= StackSize
  /\ result.is \in {"done", "value", "error", "crash"} /\ result.value \in UWORD
-----------------------------------------------------------------------------
(* The DWARF standard's meaning of the operations (2.5.1), the top of the  *)
(* stack first, for the operations that parse_opcode agrees on.            *)
Straight == {"const", "lit", "addr", "fbreg", "deref", "dup", "drop", "over", "pick", "swap", "rot",
             "nop", "stack_value", "call_frame_cfa"} \cup UnaryOps
            \cup (BinaryOps \ {"shl", "shr", "shra"})

(* n divided by m, rounded towards zero, by what a quotient is.            *)
Quotient(n, m) ==
  CHOOSE q \in -Half .. Half : LET r == n - q * m IN Abs(r) < Abs(m) /\ (r = 0 \/ (r < 0) = (n < 0))

(* A word is the set of its bits.                                          *)
Bitset(w)  == {k \in 0 .. Width - 1 : w % Power(k + 1) >= Power(k)}
OfBits(on) == CHOOSE w \in UWORD : Bitset(w) = on

(* entry is the second of the two operands, top the topmost.               *)
DwarfBinary(o, entry, top) ==
  CASE o = "and"   -> OfBits(Bitset(entry) \cap Bitset(top))
    [] o = "or"    -> OfBits(Bitset(entry) \cup Bitset(top))
    [] o = "xor"   -> OfBits((Bitset(entry) \cup Bitset(top)) \ (Bitset(entry) \cap Bitset(top)))
    [] o = "plus"  -> Word(WORD(entry) + WORD(top))
    [] o = "minus" -> CHOOSE d \in UWORD : Word(d + top) = entry
    [] o = "mul"   -> Word(WORD(entry) * WORD(top))
    [] o = "div"   -> Word(Quotient(WORD(entry), WORD(top)))
    [] o = "mod"   -> CHOOSE r \in 0 .. top - 1 : \E q \in UWORD : q * top + r = entry
    [] o = "eq"    -> Truth(entry = top)
    [] o = "ne"    -> Truth(entry # top)
    [] o = "lt"    -> Truth(WORD(top) - WORD(entry) > 0)
    [] o = "le"    -> Truth(WORD(top) - WORD(entry) >= 0)
    [] o = "gt"    -> Truth(WORD(entry) - WORD(top) > 0)
    [] o = "ge"    -> Truth(WORD(entry) - WORD(top) >= 0)

DwarfUnary(o, a, top) ==
  CASE o = "neg" -> CHOOSE n \in UWORD : Word(n + top) = 0
    [] o = "not" -> OfBits((0 .. Width - 1) \ Bitset(top))
    [] o = "abs" -> IF top < Half THEN top ELSE Modulus - top
    [] o = "plus_uconst" -> Word(top + a)

DwarfStep(o, s) ==
  CASE o.op \in {"const", "lit"}  -> <<Word(o.a)>> \o s
    [] o.op = "addr"              -> <<Word(Frame.load_address + o.a)>> \o s
    [] o.op = "fbreg"             -> <<Word(Frame.frame_base + o.a)>> \o s
    [] o.op = "call_frame_cfa"    -> <<Word(Frame.caller_sp)>> \o s
    [] o.op = "deref"             -> <<Memory[s[1]]>> \o Tail(s)
    [] o.op = "dup"               -> <<s[1]>> \o s
    [] o.op = "over"              -> <<s[2]>> \o s
    [] o.op = "pick"              -> <<s[o.a + 1]>> \o s
    [] o.op = "drop"              -> Tail(s)
    [] o.op = "swap"              -> [s EXCEPT ![1] = s[2], ![2] = s[1]]
    [] o.op = "rot"               -> [s EXCEPT ![1] = s[2], ![2] = s[3], ![3] = s[1]]
    [] o.op \in {"nop", "stack_value"} -> s
    [] o.op \in UnaryOps          -> <<DwarfUnary(o.op, o.a, s[1])>> \o Tail(s)
    [] o.op \in BinaryOps         -> <<DwarfBinary(o.op, s[2], s[1])>> \o Tail(Tail(s))

DwarfStack ==
  LET after[k \in 0 .. Len(expr)] == IF k = 0 THEN <<>> ELSE DwarfStep(expr[k], after[k - 1])
  IN  after[Len(expr)]

(* The value of an expression without branches, registers, shifts,         *)
(* deref_size and push_object_address, and with nothing on the stack at    *)
(* first, is the one that DWARF defines.                                   *)
MatchesDwarf ==
  result.is = "value" /\ initial = 0 /\ (\A k \in DOMAIN expr : expr[k].op \in Straight)
    => result.value = Head(DwarfStack)

(* Of entries that contain the pc, the first is evaluated, unless the pc   *)
(* is the end of one before it.                                            *)
Inside(k) == locs[k].lo <= pc /\ pc < locs[k].hi

EntryCoversPc ==
  \A k \in DOMAIN locs :
    /\ at = "run" /\ Inside(k)
    /\ \A j \in 1 .. k - 1 : ~Inside(j) /\ locs[j].hi # pc
    => expr = locs[k].expr

(* The loop ends when no skip, and no branch back, is in the expression.   *)
(* A bra forward is carried out again and again until its operand is 0 or  *)
(* the stack is empty.                                                     *)
Terminating == \A k \in DOMAIN expr : expr[k].op # "skip" /\ (expr[k].op = "bra" => expr[k].a >= 0)

EvaluationEnds == (at = "run" /\ Terminating) ~> (at = "done")

(* A branch back, taken, comes to rest on its target or on the operation   *)
(* before it, or it stays at the first one.                                *)
Target(a) == {k \in 1 .. Len(expr) : Offset(k) = Offset(i) + 3 + a}

BackwardBranchIsNear ==
  [][at = "run" /\ i <= Len(expr) /\ RunOp /\ at' = "run" /\ expr[i].op \in {"skip", "bra"} /\ expr[i].a < -2
     /\ (expr[i].op = "bra" => Top(1) # 0)
       => \A k \in Target(expr[i].a) : i' \in {k, k - 1}]_vars

(* What reg has written is what reg reads next, by the same name or the    *)
(* same one-digit number.                                                  *)
ReadsBack ==
  [][alive = "yes" /\ wrote.mode \in {"s", "d"} /\ Len(wrote.arg.digits) <= 1
     /\ handle_register("read", wrote.mode, wrote.arg, Absent)
       => reply' = [is |-> "value", value |-> wrote.value]]_vars
=============================================================================
