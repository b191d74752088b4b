-------------------------- MODULE SessionInvariant --------------------------
(***************************************************************************)
(* The inductive invariants behind the safety properties of Session, each  *)
(* with the conditions under which it holds: IInv for what the text of the *)
(* child is, LooseInv for where finish and next stop.                      *)
(***************************************************************************)
EXTENDS Session

(* The addresses at which the debugger may ever write.                     *)
Addresses == Sites \cup LineAddrs \cup ReturnSites

(* What the user, the line table and the program must respect for the      *)
(* breakpoints to work: they are set at instructions; no two of them, and  *)
(* no return address, lie in one word; a breakpoint is not enabled twice   *)
(* and not disabled without having been set; and signals other than        *)
(* SIGTRAP do not come together with finish, next or a write to rip.  Each *)
(* condition is needed: see the README for what happens without it.        *)
Disciplined ==
  /\ \A a \in Sites \cup LineAddrs : Mapped(a) => a \in Insns
  /\ \A a, b \in Addresses : a < b => a + WordSize <= b
  /\ Inputs \cap {"reenable", "disable_absent"} = {}
  /\ MaxSignals = 0 \/ Inputs \cap {"finish", "next", "setpc"} = {}

(* The child can still be resumed.                                         *)
Live == run \in {"stopped", "running", "stepping"}

(* Where int3 is meant to be: at the table's breakpoints and at step_out's *)
(* own, except for the one that is being stepped over.                     *)
Planted ==
  (DOMAIN bps \cup {ret.mem_addr}) \ (IF at = "over" THEN {over.mem_addr} ELSE {})

(* A signal has left the breakpoint at pc disarmed.                        *)
Interrupted(x) ==
  at = "idle" /\ nsig > 0 /\ x = pc /\ x \in DOMAIN bps /\ mem[x] = "code"

TextInv ==
  \A x \in Mem : mem[x] = (IF x \in Planted THEN "int3" ELSE "code") \/ Interrupted(x)

(* The saved words are the program's own text.                             *)
TableInv ==
  \A a \in DOMAIN bps :
    /\ Mapped(a)
    /\ bps[a].enabled
    /\ \A i \in 0 .. WordSize - 1 : bps[a].saved_data[i] = "code"

OverInv ==
  at = "over" => /\ over.mem_addr \in DOMAIN bps
                 /\ run # "running"
                 /\ run = "stepping" \/ sig = "signal" => pc = over.mem_addr

(* step_out's breakpoint is there exactly while finish or next let the     *)
(* child run, and its saved word has an int3 exactly when the table has    *)
(* a breakpoint at the same address.                                       *)
RetInv ==
  /\ ret.mem_addr # -1 <=> cmd \in {"finish", "next"} /\ at \in {"over", "run"}
  /\ ret.mem_addr # -1 =>
       /\ Mapped(ret.mem_addr)
       /\ ret.mem_addr \in ReturnSites
       /\ \A i \in 0 .. WordSize - 1 :
            ret.saved_data[i] =
              IF i = 0 /\ ret.mem_addr \in DOMAIN bps THEN "int3" ELSE "code"

PlaceInv ==
  /\ NextInsn \in Insns
  /\ stack \in Seq(ReturnSites)
  /\ sig = "trap" => NextInsn \in Planted

ControlInv ==
  /\ at = "step" => cmd = "step"
  /\ at = "arm" => cmd = "next"
  /\ at = "run" => cmd # "step" /\ run # "stepping" /\ sig # "trace"
  /\ sig = "signal" => nsig > 0
  /\ MaxSignals = 0 \/ (cmd \notin {"finish", "next"} /\ at # "arm")

(* What the proofs carry from step to step.                                *)
IInv ==
  /\ TypeOK
  /\ TakesTurns
  /\ Live => TextInv /\ TableInv /\ OverInv /\ RetInv /\ PlaceInv /\ ControlInv
-----------------------------------------------------------------------------
(* A program without recursion: its functions have levels, calls go down,  *)
(* and everything else stays on the level of its function or below it.     *)
(* rip is set, if at all, to where no function is called any more.         *)
Layered(level) ==
  /\ level \in [Insns -> Nat]
  /\ \A i \in Insns :
       LET p == Program[i] IN
         /\ p.op = "go" => \A t \in p.to : level[t] <= level[i]
         /\ p.op = "call" => /\ level[i + p.len] <= level[i]
                             /\ \A t \in p.to : level[t] < level[i + p.len]
  /\ "setpc" \in Inputs => \A v \in RipValues, r \in ReturnSites : level[v] < level[r]

(* On the stack of such a program no function occurs twice.                *)
StackRises(level) ==
  /\ \A k \in DOMAIN stack : level[NextInsn] < level[stack[k]]
  /\ \A j, k \in DOMAIN stack : j < k => level[stack[j]] < level[stack[k]]

(* The frame in which finish or next was typed is still there, with the    *)
(* return address that has the breakpoint; or the program has just         *)
(* returned from it.                                                       *)
Inside   == /\ from.depth >= 1 /\ Len(stack) >= from.depth
            /\ stack[Len(stack) - from.depth + 1] = ret.mem_addr
Returned == Len(stack) < from.depth /\ NextInsn = ret.mem_addr /\ run # "stepping"
-----------------------------------------------------------------------------
(* The lines of a function may be a few bytes apart.  Stepping over one of *)
(* them then writes back a word that may lack the int3 of the next ones,   *)
(* and breakpoints are lost; but none appears where there was none.  What  *)
(* finish and next need is less than Disciplined: that no site of the user *)
(* lies in the word that begins at another address, and that every         *)
(* function begins at a line.                                              *)
Uncrowded ==
  /\ \A a \in Sites \cup LineAddrs : Mapped(a) => a \in Insns
  /\ \A a \in Addresses, s \in Sites : a < s => a + WordSize <= s
  /\ \A f \in Functions : f.low \in LineAddrs
  /\ Inputs \cap {"reenable", "disable_absent"} = {}
  /\ MaxSignals = 0

(* int3 is nowhere but in P, in a text and in a saved word.                *)
Marks(m, P) == \A x \in Mem : m[x] = "code" \/ (m[x] = "int3" /\ x \in P)

MarksWord(b, P) ==
  \A i \in 0 .. WordSize - 1 :
    b.saved_data[i] = "code" \/ (b.saved_data[i] = "int3" /\ b.mem_addr + i \in P)

(* That is in the text at breakpoints of the table and at step_out's; in   *)
(* saved words only at breakpoints of the table, and never at their own.   *)
MarkedText == Marks(mem, DOMAIN bps \cup {ret.mem_addr})

MarkedTable ==
  \A a \in DOMAIN bps :
    Mapped(a) /\ bps[a].enabled /\ bps[a].saved_data[0] = "code" /\ MarksWord(bps[a], DOMAIN bps)

MarkedRet ==
  /\ ret.mem_addr # -1 <=> cmd \in {"finish", "next"} /\ at \in {"over", "run"}
  /\ ret.mem_addr # -1 => ret.mem_addr \in ReturnSites /\ MarksWord(ret, DOMAIN bps)

MarkedPlace ==
  /\ at = "over" => over.mem_addr \in DOMAIN bps
  /\ NextInsn \in Insns
  /\ stack \in Seq(ReturnSites)
  /\ sig = "trap" => mem[NextInsn] = "int3"

(* While next arms lines, they are those of the function it was typed in.  *)
ArmsOwnLines ==
  cmd = "next" =>
    /\ DOMAIN bps \subseteq from.table \cup OwnLines(from.pc)
    /\ at = "arm" => \E f \in Functions :
         /\ f.low <= from.pc /\ from.pc < f.high /\ high = f.high
         /\ \A i \in DOMAIN Lines : i >= line => Lines[i] >= f.low

(* Unless the int3 at the return address has been lost, the child has not  *)
(* gone on in the caller.                                                  *)
KeepsReturn ==
  /\ cmd = "next" /\ at = "arm" => from.depth = Len(stack)
  /\ ret.mem_addr # -1 /\ ret.mem_addr \notin DOMAIN bps =>
       Inside \/ Returned \/ mem[ret.mem_addr] = "code"

Marked == MarkedText /\ MarkedTable /\ MarkedRet /\ MarkedPlace /\ ControlInv /\ ArmsOwnLines

LooseInv == TypeOK /\ TakesTurns /\ (Live => Marked)
=============================================================================
