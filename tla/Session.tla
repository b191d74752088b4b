------------------------------ MODULE Session -------------------------------
(***************************************************************************)
(* A debugging session: the read-eval loop of run_debugger with the        *)
(* commands that change the state of the debuggee or of the breakpoint     *)
(* table (break, continue, step, finish, next, reg write, exit),           *)
(* interleaved with the debuggee's own execution and with signals.         *)
(*                                                                         *)
(* A command is split where the debugger blocks in waitpid: between two    *)
(* calls of waitpid the debuggee is stopped and nothing but a SIGKILL can  *)
(* interfere, so the code in between is one action.  The read-only         *)
(* commands (where, backtrace, var, peek, reg read) change nothing here.   *)
(***************************************************************************)
EXTENDS Breakpoints

CONSTANTS
  Sites,      \* addresses that the user names in break commands
  Lines,      \* the line table: addresses in increasing order, some repeated
  Functions,  \* the subprograms, [low, high] with high exclusive
  RipValues,  \* values that the user writes to rip
  MaxTimes,   \* bound: the largest argument of step
  MaxSignals, \* bound: the signals other than SIGTRAP that the debuggee gets
  Inputs      \* the kinds of input that the environment produces

LineAddrs == {Lines[i] : i \in DOMAIN Lines}

ASSUME InputAssumption ==
  Inputs \subseteq {"break", "reenable", "disable_absent", "continue", "step",
                    "finish", "next", "setpc", "exit", "kill"}
ASSUME SitesAssumption == Sites \subseteq Int
ASSUME LinesAssumption ==
  /\ Lines \in Seq(Int)
  /\ \A i, j \in DOMAIN Lines : i < j => Lines[i] <= Lines[j]
ASSUME FunctionsAssumption == Functions \subseteq [low: Int, high: Int]
ASSUME RipAssumption == RipValues \subseteq Insns
ASSUME BoundAssumption == MaxTimes \in Nat /\ MaxSignals \in Nat

VARIABLES
  mem,    \* the debuggee's text as PTRACE_PEEKDATA returns it
  pc,     \* the debuggee's rip
  stack,  \* the return addresses on the debuggee's stack, innermost first
  run,    \* what the kernel does with the debuggee
  sig,    \* what the stop that waitpid has not yet reported is due to
  nsig,   \* signals delivered so far
  bps,    \* dbg->breakpoints
  cmd,    \* the command being handled
  at,     \* where in its handler the debugger is
  over,   \* the local breakpoint of step_over_breakpoint
  ret,    \* the local breakpoint of step_out
  times,  \* the local times of handle_step
  line,   \* the local i of step_in's loops (an index in Lines)
  high,   \* the local high_pc of step_in
  res,    \* the result of the last command
  from    \* history: where the command being handled started

debuggee == <<pc, stack, run, sig, nsig>>
locals   == <<over, ret, times, line, high>>
vars     == <<mem, debuggee, bps, cmd, at, locals, res, from>>

NoBreakpoint == make_breakpoint(-1)
Nowhere      == [pc |-> 0, depth |-> 0, table |-> {}]

(* The read-eval loop runs until a command returns DEBUGEE_EXITED or the   *)
(* user types exit (or ends the input).                                    *)
Open == res \notin {"exited", "closed"}
Prompt == at = "idle" /\ Open

(* ptrace requests succeed: the child is in a ptrace stop.  "killed" is a  *)
(* child that was killed in a stop and that waitpid has not reaped.        *)
Traced == run = "stopped"
-----------------------------------------------------------------------------
Starts == [pc: Int, depth: Nat, table: SUBSET (Sites \cup LineAddrs)]

TypeOK ==
  /\ mem \in [Mem -> Byte]
  /\ pc \in Int
  /\ stack \in Seq(Insns)
  /\ run \in {"stopped", "running", "stepping", "dead", "killed", "detached"}
  /\ sig \in {"none", "trap", "trace", "signal"}
  /\ nsig \in 0 .. MaxSignals
  /\ DOMAIN bps \subseteq Sites \cup LineAddrs
  /\ bps \in [DOMAIN bps -> Breakpoint]
  /\ \A a \in DOMAIN bps : bps[a].mem_addr = a
  /\ cmd \in {"none", "continue", "step", "finish", "next"}
  /\ at \in {"idle", "arm", "over", "step", "run"}
  /\ over \in Breakpoint
  /\ ret \in Breakpoint
  /\ times \in 0 .. MaxTimes
  /\ line \in Nat
  /\ at = "arm" => line > 0
  /\ high \in Int
  /\ res \in {"OK", "err", "exited", "closed"}
  /\ from \in Starts

(* run_debugger has waited for the stop that follows execve.               *)
Init ==
  /\ mem = [a \in Mem |-> "code"]
  /\ pc = Entry
  /\ stack = <<>>
  /\ run = "stopped"
  /\ sig = "none"
  /\ nsig = 0
  /\ bps = [a \in {} |-> NoBreakpoint]
  /\ cmd = "none"
  /\ at = "idle"
  /\ over = NoBreakpoint
  /\ ret = NoBreakpoint
  /\ times = 0
  /\ line = 0
  /\ high = 0
  /\ res = "OK"
  /\ from = Nowhere
-----------------------------------------------------------------------------
(* The debuggee and its environment.                                       *)

Stop(s) == run' = "stopped" /\ sig' = s

(* One instruction.  int3 stops the child behind its byte.  Text that is   *)
(* neither int3 nor the program's own instruction decodes to something     *)
(* else: it faults, or it goes on anywhere.                                *)
Execute ==
  /\ run \in {"running", "stepping"}
  /\ \/ /\ mem[pc] = "int3"
        /\ Stop("trap")
        /\ pc' = pc + 1
        /\ UNCHANGED stack
     \/ /\ Intact(mem, pc)
        /\ Outcomes(pc, stack) = {}
        /\ run' = "dead"
        /\ UNCHANGED <<pc, stack, sig>>
     \/ /\ Intact(mem, pc)
        /\ \E o \in Outcomes(pc, stack) : pc' = o[1] /\ stack' = o[2]
        /\ \/ run = "stepping" /\ Stop("trace")
           \/ run = "running" /\ UNCHANGED <<run, sig>>
     \/ /\ mem[pc] # "int3"
        /\ ~Intact(mem, pc)
        /\ UNCHANGED stack
        /\ \/ Stop("signal") /\ UNCHANGED pc
           \/ run = "stepping" /\ Stop("trace") /\ pc' \in Insns
           \/ run = "running" /\ UNCHANGED <<run, sig>> /\ pc' \in Insns
  /\ UNCHANGED <<mem, nsig, bps, cmd, at, locals, res, from>>

(* A signal other than SIGTRAP is about to be delivered: a ptrace stop     *)
(* before the next instruction.                                            *)
Signal ==
  /\ nsig < MaxSignals
  /\ run \in {"running", "stepping"}
  /\ Stop("signal")
  /\ nsig' = nsig + 1
  /\ UNCHANGED <<mem, pc, stack, bps, cmd, at, locals, res, from>>

(* SIGKILL ends the child even in a ptrace stop.  If it was running, the   *)
(* next waitpid can only report the end.                                   *)
Kill ==
  /\ "kill" \in Inputs
  /\ \/ run \in {"running", "stepping"} /\ run' = "dead"
     \/ run = "stopped" /\ run' = "killed"
  /\ UNCHANGED <<mem, pc, stack, sig, nsig, bps, cmd, at, locals, res, from>>
-----------------------------------------------------------------------------
(* How a handler starts and ends.                                          *)

Here == [pc |-> pc, depth |-> Len(stack), table |-> DOMAIN bps]

Start(c) ==
  /\ Prompt
  /\ cmd' = c
  /\ from' = Here

Done(r) ==
  /\ cmd' = "none"
  /\ at' = "idle"
  /\ over' = NoBreakpoint
  /\ ret' = NoBreakpoint
  /\ times' = 0
  /\ line' = 0
  /\ high' = 0
  /\ from' = Nowhere
  /\ res' = r

(* A command that returns r without having touched the child.              *)
Refuse(r) == Prompt /\ Done(r) /\ UNCHANGED <<mem, debuggee, bps>>

(* In a mutant: the function returns instead of waiting.                   *)
DoesNotWait(m, b) ==
  /\ mem' = disable_breakpoint(m, b)
  /\ over' = b
  /\ at' = "idle"
  /\ run' = "stepping"

(* step_over_breakpoint up to its waitpid, when there is a breakpoint to   *)
(* step over.                                                              *)
StepOver(m, b) ==
  /\ mem' = disable_breakpoint(m, b)
  /\ over' = b
  /\ at' = "over"
  /\ run' = "stepping"

(* In a mutant: PTRACE_SINGLESTEP where PTRACE_CONT belongs.               *)
StepsInstead(m) ==
  LET b == get_breakpoint_at_addr(bps, pc) IN
    \/ b.enabled /\ StepOver(m, b)
    \/ ~b.enabled /\ mem' = m /\ at' = "run" /\ run' = "stepping" /\ UNCHANGED over

(* step_over_breakpoint and then debug_continue, up to the next waitpid.   *)
StepOverAndContinue(m) ==
  LET b == get_breakpoint_at_addr(bps, pc) IN
    \/ b.enabled /\ StepOver(m, b)
    \/ ~b.enabled /\ mem' = m /\ at' = "run" /\ run' = "running" /\ UNCHANGED over

(* In a mutant: times is decremented twice.                                *)
DecrementsTwice(m, p, n) ==
  LET b == get_breakpoint_at_addr(bps, p) IN
    /\ \/ b.enabled /\ StepOver(m, b)
       \/ /\ ~b.enabled
          /\ mem' = m
          /\ over' = NoBreakpoint
          /\ at' = "step"
          /\ run' = "stepping"
    /\ times' = n - 2

(* One turn of handle_step's loop with n > 0 steps to go and the child at  *)
(* p, up to the next waitpid.                                              *)
StepTurn(m, p, n) ==
  LET b == get_breakpoint_at_addr(bps, p) IN
    /\ \/ b.enabled /\ StepOver(m, b)
       \/ /\ ~b.enabled
          /\ mem' = m
          /\ over' = NoBreakpoint
          /\ at' = "step"
          /\ run' = "stepping"
    /\ times' = n - 1
-----------------------------------------------------------------------------
(* break enable: the loop's own lookup, enable_breakpoint and              *)
(* save_breakpoint.  The record of an already enabled breakpoint is        *)
(* enabled once more.                                                      *)
handle_breakpoint_enable(a) ==
  LET b == get_breakpoint_at_addr(bps, a) IN
    /\ Prompt
    /\ \/ /\ Traced /\ Mapped(a)
          /\ mem' = armed_text(mem, b)
          /\ bps' = save_breakpoint(bps, enabled_record(mem, b))
          /\ Done("OK")
          /\ UNCHANGED debuggee
       \/ ~(Traced /\ Mapped(a)) /\ Refuse("err")

(* break disable: a breakpoint that is not in the table is disabled with   *)
(* the record that make_breakpoint filled in.                              *)
handle_breakpoint_disable(a) ==
  LET b == get_breakpoint_at_addr(bps, a) IN
    /\ Prompt
    /\ \/ /\ Traced /\ Mapped(a)
          /\ mem' = disable_breakpoint(mem, b)
          /\ bps' = delete_breakpoint(bps, b)
          /\ Done("OK")
          /\ UNCHANGED debuggee
       \/ ~(Traced /\ Mapped(a)) /\ Refuse("err")

handle_continue ==
  \/ /\ Traced
     /\ Start("continue")
     /\ StepOverAndContinue(mem)
     /\ UNCHANGED <<pc, stack, sig, nsig, bps, ret, times, line, high, res>>
  \/ ~Traced /\ Refuse("err")

handle_step(n) ==
  \/ n = 0 /\ Refuse("OK")
  \/ n > 0 /\ ~Traced /\ Refuse("err")
  \/ /\ n > 0 /\ Traced
     /\ Start("step")
     /\ StepTurn(mem, pc, n)
     /\ UNCHANGED <<pc, stack, sig, nsig, bps, ret, line, high, res>>

(* The body of step_out in a stopped child, up to its waitpid, for the     *)
(* command c that began at o.  libunwind may fail anywhere, and steps out  *)
(* of every frame but the outermost.  The lookup's result is               *)
(* KEY_NOT_EXISTS whether or not the table has the return address, so temp *)
(* is always set: see WaitRun.                                             *)
StepOutBody(c, o) ==
  \/ /\ Done("err")
     /\ UNCHANGED <<mem, run>>
  \/ /\ stack = <<>>
     /\ Done("OK")
     /\ UNCHANGED <<mem, run>>
  \/ /\ stack # <<>>
     /\ LET b == get_breakpoint_at_addr(bps, Head(stack)) IN
          /\ Mapped(b.mem_addr)
          /\ ret' = enabled_record(mem, b)
          /\ StepOverAndContinue(armed_text(mem, b))
     /\ cmd' = c
     /\ from' = o
     /\ UNCHANGED <<times, line, high, res>>

(* finish                                                                  *)
step_out ==
  \/ /\ Traced
     /\ Prompt
     /\ StepOutBody("finish", Here)
     /\ UNCHANGED <<pc, stack, sig, nsig, bps>>
  \/ ~Traced /\ Refuse("err")

(* search_addr_in_lines: i is the last line that begins at or before a.    *)
search_addr_in_lines(a, i) ==
  /\ i \in DOMAIN Lines
  /\ Lines[i] <= a
  /\ \A j \in DOMAIN Lines : j > i => Lines[j] > a

(* The subprogram that contains pc and the index of its first line.        *)
Subprograms ==
  {s \in Functions \X DOMAIN Lines :
     s[1].low <= pc /\ pc < s[1].high /\ search_addr_in_lines(s[1].low, s[2])}

(* next, up to its first loop.  Each of the calls that find the unit, its  *)
(* lines, the subprogram and its first line may fail.                      *)
step_in ==
  \/ /\ Traced
     /\ Start("next")
     /\ \E s \in Subprograms : high' = s[1].high /\ line' = s[2]
     /\ at' = "arm"
     /\ UNCHANGED <<mem, debuggee, bps, over, ret, times, res>>
  \/ Refuse("err")

(* In a mutant: the loop runs to the end of the line table.                *)
PastTable == line > Len(Lines)

(* The loops end behind the last line of the function.                     *)
PastFunction == line <= Len(Lines) => Lines[line] >= high

(* One turn of step_in's first loop: a line that has no breakpoint gets a  *)
(* new one, saved in the table like the user's own.  dwarf_lineaddr may    *)
(* fail at any row, ptrace does in a child that is not stopped and where   *)
(* the word is not mapped.                                                 *)
Arm ==
  LET b == get_breakpoint_at_addr(bps, Lines[line])
      t == [make_breakpoint(Lines[line]) EXCEPT !.temporary_enable = TRUE] IN
    /\ at = "arm"
    /\ line <= Len(Lines)
    /\ \/ /\ ~PastFunction /\ b.enabled
          /\ line' = line + 1
          /\ UNCHANGED <<mem, bps, cmd, at, over, ret, times, high, res, from>>
       \/ /\ ~PastFunction /\ ~b.enabled /\ Traced /\ Mapped(t.mem_addr)
          /\ mem' = armed_text(mem, t)
          /\ bps' = save_breakpoint(bps, enabled_record(mem, t))
          /\ line' = line + 1
          /\ UNCHANGED <<cmd, at, over, ret, times, high, res, from>>
       \/ /\ Done("err")
          /\ UNCHANGED <<mem, bps>>
    /\ UNCHANGED debuggee

(* The end of the first loop: step_in calls step_out.                      *)
Armed ==
  /\ at = "arm"
  /\ PastFunction
  /\ \/ /\ Traced
        /\ StepOutBody("next", from)
     \/ /\ ~Traced
        /\ Done("err")
        /\ UNCHANGED <<mem, run>>
  /\ UNCHANGED <<pc, stack, sig, nsig, bps>>

(* reg write s rip: the result of set_reg_value is ignored.                *)
handle_register_write_rip(v) ==
  /\ Prompt
  /\ \/ Traced /\ pc' = v /\ Done("OK")
     \/ ~Traced /\ UNCHANGED pc /\ Done("err")
  /\ UNCHANGED <<mem, stack, run, sig, nsig, bps>>

(* exit: the loop ends and main detaches; the breakpoints stay in the text.*)
Exit ==
  /\ Prompt
  /\ res' = "closed"
  /\ run' = IF Traced THEN "detached" ELSE run
  /\ UNCHANGED <<mem, pc, stack, sig, nsig, bps, cmd, at, locals, from>>
-----------------------------------------------------------------------------
(* wait_and_handle_signal.                                                 *)

Waiting == at \in {"over", "step", "run"} /\ run \notin {"running", "stepping"}

(* In a mutant: the program counter stays behind the int3.                 *)
KeepsPc == pc

(* handle_sigtrap: the program counter is taken back to the breakpoint.    *)
handle_sigtrap == IF sig = "trap" THEN pc - 1 ELSE pc

Trapped == Waiting /\ Traced /\ sig \in {"trap", "trace"}

(* The wait fails, and with it the command: the child has ended, or was    *)
(* killed between waitpid and the next ptrace request, or has a signal     *)
(* that is not SIGTRAP (and that PTRACE_CONT will suppress).               *)
WaitFails ==
  /\ Waiting
  /\ \/ run \in {"dead", "killed"} /\ Done("exited") /\ UNCHANGED sig
     \/ run = "killed" /\ Done("err") /\ UNCHANGED sig
     \/ Traced /\ sig = "signal" /\ Done("err") /\ sig' = "none"
  /\ UNCHANGED <<mem, pc, stack, run, nsig, bps>>

(* In a mutant: the breakpoint is not enabled again, or not disabled.      *)
LeavesText == mem

(* step_over_breakpoint enables its copy of the record again.              *)
Rearmed == armed_text(mem, over)

(* step_over_breakpoint returns to handle_command, step_out or handle_step.*)
WaitOver ==
  LET m == Rearmed IN
    /\ Trapped
    /\ at = "over"
    /\ pc' = handle_sigtrap
    /\ sig' = "none"
    /\ \/ /\ cmd # "step"
          /\ mem' = m
          /\ run' = "running"
          /\ at' = "run"
          /\ over' = NoBreakpoint
          /\ UNCHANGED <<cmd, ret, times, line, high, res, from>>
       \/ /\ cmd = "step" /\ times > 0
          /\ StepTurn(m, pc', times)
          /\ UNCHANGED <<cmd, ret, line, high, res, from>>
       \/ /\ cmd = "step" /\ times = 0
          /\ mem' = m
          /\ Done("OK")
          /\ UNCHANGED run
    /\ UNCHANGED <<stack, nsig, bps>>

(* handle_step after a plain single step.                                  *)
WaitStep ==
  /\ Trapped
  /\ at = "step"
  /\ pc' = handle_sigtrap
  /\ sig' = "none"
  /\ \/ /\ times > 0
        /\ StepTurn(mem, pc', times)
        /\ UNCHANGED <<cmd, ret, line, high, res, from>>
     \/ /\ times = 0
        /\ Done("OK")
        /\ UNCHANGED <<mem, run>>
  /\ UNCHANGED <<stack, nsig, bps>>

(* step_out disables its breakpoint; step_in's second loop then skips      *)
(* every line, because each lookup returns KEY_NOT_EXISTS.                 *)
Released == IF cmd = "continue" THEN mem ELSE disable_breakpoint(mem, ret)

(* In a mutant: a child that has met a breakpoint is sent on.              *)
GoesOn ==
  /\ Trapped
  /\ at = "run"
  /\ pc' = handle_sigtrap
  /\ sig' = "none"
  /\ run' = "running"
  /\ UNCHANGED <<mem, stack, nsig, bps, cmd, at, locals, res, from>>

(* After PTRACE_CONT.  In step_in's second loop dwarf_lineaddr may fail.   *)
WaitRun ==
  /\ Trapped
  /\ at = "run"
  /\ pc' = handle_sigtrap
  /\ sig' = "none"
  /\ mem' = Released
  /\ \/ Done("OK")
     \/ cmd = "next" /\ Done("err")
  /\ UNCHANGED <<stack, run, nsig, bps>>
-----------------------------------------------------------------------------
EnableSites  == IF "reenable" \in Inputs THEN Sites ELSE Sites \ DOMAIN bps
DisableSites == IF "disable_absent" \in Inputs THEN Sites ELSE Sites \cap DOMAIN bps

User ==
  \/ "break" \in Inputs /\ \E a \in EnableSites : handle_breakpoint_enable(a)
  \/ "break" \in Inputs /\ \E a \in DisableSites : handle_breakpoint_disable(a)
  \/ "continue" \in Inputs /\ handle_continue
  \/ "step" \in Inputs /\ \E n \in 0 .. MaxTimes : handle_step(n)
  \/ "finish" \in Inputs /\ step_out
  \/ "next" \in Inputs /\ step_in
  \/ "setpc" \in Inputs /\ \E v \in RipValues : handle_register_write_rip(v)
  \/ "exit" \in Inputs /\ Exit

Handler == Arm \/ Armed \/ WaitFails \/ WaitOver \/ WaitStep \/ WaitRun

(* The session is over.                                                    *)
Closed == ~Open /\ UNCHANGED vars

Next == User \/ Handler \/ Execute \/ Signal \/ Kill \/ Closed

Spec == Init /\ [][Next]_vars

(* The debugger is never preempted for ever and neither is a child that    *)
(* the kernel runs; nothing is assumed of the user or of signals.          *)
FairSpec == Spec /\ WF_vars(Handler) /\ WF_vars(Execute)
-----------------------------------------------------------------------------
(* Correctness.                                                            *)

Idle == at = "idle" /\ run = "stopped"

(* The debugger and the child take turns.  The debugger blocks in waitpid  *)
(* only when it has resumed the child or the child's stop is still to be   *)
(* reported, so waitpid returns; and it prompts or pokes only at a child   *)
(* that is stopped with no stop left to report, and prompts only between   *)
(* commands.                                                               *)
TakesTurns ==
  /\ at \in {"over", "step", "run"} /\ run = "stopped" => sig # "none"
  /\ run \in {"running", "stepping"} => at \in {"over", "step", "run"} /\ sig = "none"
  /\ at \in {"idle", "arm"} /\ run = "stopped" => sig = "none"
  /\ at = "idle" <=> cmd = "none"

(* Every breakpoint of the table is in the child's text whenever the user  *)
(* has the prompt.  The one exception is the breakpoint at pc after a      *)
(* signal has cut step_over_breakpoint short, between its disable and its  *)
(* enable (debugger.c:562-573).                                            *)
BreakpointsArmed ==
  Idle => \A a \in DOMAIN bps : mem[a] = "int3" \/ (a = pc /\ nsig > 0)

(* Whenever the user has the prompt, the text outside the breakpoints of   *)
(* the table is the program's own: no int3 of finish, next or of a deleted *)
(* breakpoint, and no word written back by disable_breakpoint, is left.    *)
NoStrayText ==
  Idle => \A a \in Mem \ DOMAIN bps : mem[a] = "code"

(* The child never executes bytes that are neither int3 nor its own        *)
(* instruction: breakpoints can be set, stepped over and cleared without   *)
(* changing what the program does.                                         *)
ExecutesOwnText ==
  run \in {"running", "stepping"} => mem[pc] = "int3" \/ Intact(mem, pc)

(* A child that runs freely cannot run past an address that has a          *)
(* breakpoint in the table.                                                *)
NoMissedBreakpoint ==
  run = "running" /\ pc \in DOMAIN bps => mem[pc] = "int3"

(* continue ends, when it succeeds, at a breakpoint of the table.          *)
ContinueStopsAtBreakpoint ==
  [][cmd = "continue" /\ cmd' = "none" /\ res' = "OK" => pc' \in DOMAIN bps]_vars

(* finish ends, when it succeeds, in a caller of the function that it was  *)
(* given in, or at a breakpoint of the table on the way.                   *)
FinishReturns ==
  [][cmd = "finish" /\ cmd' = "none" /\ res' = "OK"
       => Len(stack') < from.depth \/ pc' \in DOMAIN bps]_vars

(* The lines of the function that p is in.                                 *)
OwnLines(p) ==
  {a \in LineAddrs :
     \E f \in Functions : f.low <= p /\ p < f.high /\ f.low <= a /\ a < f.high}

(* next is executed "till the next line in the current function is         *)
(* reached" (README.md:85): when it succeeds from a function with a        *)
(* caller, the child is at a line of that function, or has returned from   *)
(* it, or is at a breakpoint that was in the table before: the user's, or  *)
(* one that an earlier next has left there.                                *)
NextReachesLine ==
  [][cmd = "next" /\ at = "run" /\ cmd' = "none" /\ res' = "OK"
       => \/ pc' \in OwnLines(from.pc)
          \/ Len(stack') < from.depth
          \/ pc' \in from.table]_vars

(* Where the program is: after an int3, at the instruction that the int3   *)
(* stands for.                                                             *)
NextInsn == IF sig = "trap" THEN pc - 1 ELSE pc

(* The debugger is transparent: apart from reg write, the debuggee behaves *)
(* as the program does without a debugger.                                 *)
Bare == INSTANCE Undebugged WITH
          where <- NextInsn, calls <- stack, ended <- run \in {"dead", "killed"}
Transparent == Bare!Behaviour

(* A user who keeps typing continue gets the program to its end: no stop   *)
(* of the debugger's own making repeats for ever.                          *)
ContinuingEnds ==
  []<><<handle_continue>>_vars => <>(res = "exited")

(* Every command comes back to the prompt.                                 *)
PromptReturns == at # "idle" ~> at = "idle"
-----------------------------------------------------------------------------
(* What the repository's comments and README say, and the code does not    *)
(* do.                                                                     *)

(* step_over_breakpoint "Disables breakpoint ->  Steps over once ->        *)
(* Enables breakpoint" (debugger.h:179): at the prompt every breakpoint is *)
(* enabled again.                                                          *)
StepOverRearms == Idle => \A a \in DOMAIN bps : mem[a] = "int3"

(* "Set or unset breakpoints" is what break does (README.md:61), and       *)
(* continue continues "upto some breakpoint" (README.md:69): one that      *)
(* break has set, not one that next has left behind.                       *)
ContinueStopsAtUserBreakpoint ==
  [][cmd = "continue" /\ cmd' = "none" /\ res' = "OK"
       => pc' \in DOMAIN bps /\ ~bps[pc'].temporary_enable]_vars
=============================================================================
