# A verification development of VDebugger

VDebugger (`src/debugger/`) is a command-line debugger for x86-64 Linux. It
forks the debuggee, traces it with ptrace(2), sets breakpoints by writing
`int3` into its text, and reads DWARF with libdwarf and the stack with
libunwind. This directory holds TLA+ models of its parts, the TLC runs that
check them on small instances, and TLAPS proofs of what matters most for every
instance.

## The system

| Part | Source | State | Operations | Talks to |
|---|---|---|---|---|
| process start-up | `main.c`, `debugger.c:21-160` | the fork, the maps, the `Debugger` | fork, PT_TRACE_ME, personality, execvp; new_debugger, run_debugger's first wait | the kernel; hands over to the session |
| breakpoint table | `debugger.c:320-407` | hashmap of `Breakpoint`, words of text | make, get, save, delete, enable, disable | the debuggee's memory |
| session | `debugger.c:53-124, 199-318, 410-814` | the table, the debuggee's registers and text | break, continue, step, finish, next, reg write, exit; wait_and_handle_signal | the debuggee, which runs and gets signals by itself |
| command line | `cmdline.c`, `debugger.c:142-197` | one buffer with a read and a write position | poll, parse, tokens, dispatch | the user; the handlers take tokens from the buffer |
| line table lookups | `dwarf_info.c:226-378, 450-487` | none between calls | binary search by address, scan by line | `next`, `where line`, `break ... line` |
| unit lookups | `dwarf_info.c:36-130, 380-448` | libdwarf's position in the units | by address, by file | every DWARF command |
| subprogram lookup | `dwarf_info.c:132-216` | handles of DIEs | recursive search | `next`, `where func`, `backtrace`, `var` |
| location expressions | `loc_expr.c`, `debugger.c:1095-1278` | a stack of words | choice of a location list's entry, the DWARF operations and branches | `var`; the debuggee's registers and memory |
| registers | `registers.c`, `debugger.c:410-528` | none; the debuggee's registers | names and DWARF numbers to fields, reg read and write | the debuggee; location expressions |
| variables | `dwarf_info.c:489-652`, `debugger.c:965-1093, 1280-1580` | handles of DIEs, a text of 256 bytes | lookup by name, walks over parameters and members, printing | subprogram lookup, location expressions |
| where, backtrace, peek | `debugger.c:822-962, 1588-1608` | none | print | libdwarf, libunwind |

What is hard here is not a single function but the order of things. The
debuggee runs, stops and dies on its own schedule. A command has several
steps with a wait between them, and each wait may end in a way that the
command did not expect. A breakpoint's saved word is a copy that others may
outdate. Libdwarf and the command buffer keep state from one call to the next.
`PROJECT.json` lists each such hazard at its line.

What makes the parts correct:

- **start-up**: the first prompt is for the traced debuggee after its exec,
  with its load address;
- **breakpoints and session**: table and text agree at every prompt; only the
  program's own instructions are executed; no breakpoint is run past; a
  command ends where it says; the debuggee behaves as without a debugger; every
  command returns, and continuing makes progress;
- **command line**: a handler gets the words typed since the last `;`, and
  nothing from the buffer's past;
- **lookups**: they read inside the table, return an entry that holds what was
  asked for, find one if there is one, give back the handles that they take for
  themselves, and return;
- **location expressions and registers**: an expression has the value that
  DWARF defines, the entry is the one for the pc, evaluation ends and stays in
  its stack, and a register reads as it was written;
- **variables**: the variable that is found is visible at the pc, every
  parameter is listed, a value is printed as a whole and inside its buffer, and
  every handle is given back once. The code keeps to the last only in part: the
  properties below say which handles it forgets and which it frees twice.

## The modules

### Session: `Debuggee`, `Breakpoints`, `Session`, `Undebugged`

`Debuggee` is the child as ptrace shows it: bytes of text that are `code` (the
program's own), `int3` or `zero` (written by the debugger), word-sized peeks
and pokes, and a program of instructions with lengths. It is external: modelled
from the requests that `debugger.c` makes. `Breakpoints` has the functions of
`debugger.c:320-389` under their own names; `enable_breakpoint` has two results
and so two operators, `armed_text` and `enabled_record`. Two facts of the code
are kept with care: `KEY_NOT_EXISTS` is 0 and equals success, and
`copy_breakpoint` assigns `temporary_enable` to itself.

`Session` is the read-eval loop with the commands. A handler is split into
actions where it blocks in waitpid, because only there can the debuggee move;
the locals that live across a wait (`over`, `ret`, `times`, `line`, `high`) are
variables. `handle_continue`, `handle_step`, `step_out`, `step_in` and so on
begin a command up to its first wait; `WaitOver`, `WaitStep` and `WaitRun` are
what follows a wait that succeeds, `WaitFails` one that does not. `Arm` is one
turn of step_in's first loop, so that a SIGKILL may come between two turns. Each
call of libdwarf in step_in and in its loops may fail, and ends the command. The
history variable `from` has the place, the depth of the stack and the table when
a command began. `Execute`, `Signal` and `Kill` are the environment. `Execute`
fetches the instruction from the text as it is: damaged text faults or continues
anywhere. `res = "exited"` and `res = "closed"` end the loop.

The constant `Inputs` selects what the environment does, so that each run asks
one question. `reenable` and `disable_absent` are the two careless uses of
break. Registers other than rip, `where`, `backtrace`, `peek`, `var` and
`reg read` change none of this state; the values of registers are in `Registers`.

`Undebugged` is the abstract specification: the program by itself, with a place,
a stack of return addresses and an end, plus the redirection that `reg write`
makes. `Session` implements it under the mapping in `Bare`: the place is pc,
or pc - 1 while the stop after an `int3` has not been handled.

`SessionInvariant` holds two inductive invariants, each with the conditions under
which it holds: `IInv` under `Disciplined`, which says exactly what the text is,
and `LooseInv` under `Uncrowded`, which lets the lines of a function be a few bytes
apart, as they are in real tables, and says only where an int3 may be. finish and
next need no more than the second, and `Layered`, a program without recursion.

### Startup

The child (`TraceMe`, `Personality`, `Exec`) and the parent (`main_fork`,
`get_load_address`, `init_dwarf`, `init_unw`, `run_debugger`) as two processes.
Results that the code ignores are free choices. Reading an unassigned pointer
is a choice between NULL, which run_debugger tests for, and `undefined`. Its
state `prompt` is where `Session` starts.

### CmdLine

One buffer of `Size` bytes plus the NUL that new_buffer puts behind it, and
run_debugger's two loops. Characters are letters, blank and `;`. A handler is
a number of calls of `next_token` (`HandlerReads`) and a return; what it does
with the tokens is `Session`. `cmnd` starts with any value of `Garbage`,
because the code tests it before it assigns it. The history variables `text`,
`argv`, `drained`, `overflow` and `why` record what was typed and handed out.

### LineTable, CompilationUnits, DieTree

`LineTable` has one action per turn of a loop: `SearchTurn` and `SearchEnd` of
the binary search, `ScanTurn` and `ScanEnd` of the scan, `LookupFails` for any
call of libdwarf that fails or has no entry. The scan does not look at whether
dwarf_lineno had one: `line_no` is then uninitialised, and the row is skipped or
taken. The iterator that is not freed there (`dwarf_info.c:365`) is not
followed. Rows are counted from 0 as in C (`row(k)`). The operator
`search_addr_in_lines` of `Session` is what `SearchFindsLast` shows of this loop
on tables in address order.

`CompilationUnits` keeps libdwarf's position in the units as `cursor`, a
variable that outlives a lookup. `AddrTurn` and `FileTurn` are one turn of the
two loops. What `merge_and_check_path` compares is the unit's `path`. A unit
whose header cannot be read (`head`) makes dwarf_next_cu_header_e fail
(`NoHeader`), which is taken to leave the position where it was, one further, or
at the beginning.

`DieTree` unrolls get_sub_prog_die_in_die_from_addr into a stack of frames,
with the set `live` of handles that have not been deallocated. `Visit` is a turn
of the loop down to the recursive call, `Sibling` the rest of it, `Fail` the way
of DW_DLV_ERROR up through the calls. Any call of libdwarf may fail. It has no
specification of its own: `Variables` runs it as its first phase.

### Registers, LocExpr

`Registers` has the enum, the two tables of `registers.c` as sequences in the
enum's order, and the reg command from its tokens on. A token is a name or the
digits of a numeral with a sign, so that the two bases are modelled by what
they do. `Named` is the set of registers that a token may stand for: `reg` is
not initialised in mode `a`, so there it is any number. `Checked` registers are
those for which the kernel may refuse a value; a SIGKILL may come between the
two ptrace calls of set_reg_value.

`LocExpr` extends it: after some reg commands the expression of a location list
is evaluated. `Locate` is init_loc_info with the head of get_var_location,
`ChooseEntry` a turn of its loop, `RunOp` a turn of evaluate_expr's, `EndOfExpr`
what follows, and `LibdwarfFails` any call of libdwarf that fails.
`parse_opcode` is an operator from an operation to the set of its outcomes: the
next stack and the bytes to skip, an error, or a crash. A word is `Width` bits
wide (`Power` and `Modulus` compute its range, `WithBits` a word from its bits);
`UnsignedRange` stands for 2^64. `Landing` is where the loops over offsets come
to rest, with the unsigned comparison of `debugger.c:1228` and `:1240`; `OpSize`
is DWARF's encoding. The operations prefixed `Dwarf` state the standard's
meaning independently of the code (quotients by CHOOSE, bits as sets), for
`MatchesDwarf`.

### Variables

The var command in phases: `FindSubprogram` is `DieTree`'s search; `FrameBase`
what follows it; `get_local_var_from_name`, `AfterCall` and `NextSibling` the
recursion over blocks, as a stack `calls`; `Found` the return to
handle_get_local_var. `WalkOn` and `WalkTag` are get_formal_params and
get_data_members, which have the same text but for a tag, with the handle that
they keep between two calls. `Parameter` and `Member` are the bodies of the two
loops over them, `Type` is a turn of sprint_variable_die_val, and `Printed` the
return of a value to the loop it belongs to. A struct inside a struct is one
more element of `walks`. The text is a sequence of pieces (brace, name, value of
a type at an address) with room for `Capacity`. A handle that is used or freed
after it has been freed does not stop the model: `faults` records it, and the
properties say when it happens. `live` has the handles of subprograms, blocks
and variables, which somebody means to give back. Of the handles of types, of
the attributes of offsets and of members, only the ones that are forgotten are
counted, in `lost`. Whether a location can be evaluated is a free choice here;
the attribute and the list that get_var_location leaves behind when the
evaluation fails (`debugger.c:1175-1177`) are not counted.

### MC modules

`MCSession` defines small programs (main calling f calling g, with or without a
loop; a recursive one; a tiny one), their functions and line tables.
`MCDisciplined` adds `ASSUME Disciplined`, `Uncrowded` for the run without
signals, and the levels of its program, so that TLC confirms that the constants
of its runs meet the assumptions of the theorems. `MCLineTable`,
`MCCompilationUnits`, `MCLocExpr`, `MCVariables` and `MCCmdLine` enumerate small
inputs.

Definitions introduced by "In a mutant" are variants of the definition next to
them, as a plausible bug would make it; `PROJECT.json` pairs each with a
property that tells the two apart. They are used nowhere else.

## The runs

| Run | Shows |
|---|---|
| session_calm | IInv, NoStrayText, ExecutesOwnText, NoMissedBreakpoint, where continue, finish and next stop (NextReachesLine: at a line of the function next was typed in, after the return from it, or at a breakpoint that was in the table when it began), and the refinement Transparent, for a careful user without signals |
| session_signals | breakpoints are armed although signals interrupt commands; commands return, and continuing ends a program without loops |
| session_careless | types and TakesTurns with every input there is |
| startup | the first prompt, in every interleaving; start-up settles |
| lines | the two loops over the line table: the last row at or before an address, the first row of a line, and that they end |
| units | any sequence of unit lookups, with units that cannot be read among them |
| locations | every operation of loc_expr.c on every pair of four-bit words, branches, location lists, and reg before it |
| var | the subprogram search in every tree of four DIEs, every tree of blocks of that size, structs, nested and recursive types; which handles are given back, forgotten and freed twice |
| repl | two lines of up to four characters through a buffer of four bytes |

The runs that expect a violation state what a comment or the README of the
repository says and show that the code does otherwise:

| Run | Property | What happens |
|---|---|---|
| session_interrupted | StepOverRearms | a signal during the step over a breakpoint leaves it disabled |
| session_next_leaves | ContinueStopsAtUserBreakpoint | next's breakpoints stay in the table, and continue stops at them |
| startup_race | LoadAddressIsDebuggee | the maps are read before the exec |

### What lies outside the passing runs

The constants of session_calm and session_signals exclude uses that break their
properties. TLC shows each when the constant is changed in MCDisciplined_calm.cfg
and the module is MCSession, which does not assume the discipline:

| Change of the constants | Violated | Why |
|---|---|---|
| `"reenable"` in Inputs | NoStrayText | a second enable saves the int3 of the first as the original text (`debugger.c:368`) |
| `"disable_absent"` in Inputs | NoStrayText | disabling nothing writes the zeros of a fresh record over the program (`debugger.c:382`) |
| `Sites = {12, 13}` | BreakpointsArmed | disabling a breakpoint restores a word from before its neighbour was enabled (`debugger.c:382`) |
| `Lines <- CloseLines` | NoMissedBreakpoint | the same, among the breakpoints that next sets; FinishReturns and NextReachesLine still hold, and are proved of such tables |
| `MaxSignals = 1` with `"finish"` | ContinueStopsAtBreakpoint | a signal during finish leaves an int3 that is in no table (`debugger.c:798`) |
| `Program <- RecursiveProgram`, `MemSize = 13`, `MaxDepth = 3`, `Sites = {10}`, `RipValues = {}` | FinishReturns | finish meets the return of an inner activation (`debugger.c:798`) |
| `RipValues = {5}` | FinishReturns | the user has moved rip into another function |

NextReachesLine is about a next that has waited with the child running (`at =
"run"`). From a function without a caller step_out returns at once, and next has
succeeded with its lines armed and the child where it was (`StepOutBody`). A
breakpoint that an earlier next has left in the table counts as one that was
there before: session_next_leaves shows that it stays.

The properties of locations and var say under which conditions the code does
what it should. Without the condition TLC shows:

| Condition left out of | What happens |
|---|---|
| TopLevelIsFound: a subprogram directly below the unit | the recursion (`dwarf_info.c:193`) begins with the children of the first child, so every second level of the tree is skipped, although `dwarf_info.h:46` promises "the DIE of the sub-program whose low_pc and high_pc contain addr_offset in the given CU" |
| HandlesAreReturned: at most one subprogram has the address | the handle of the first match is leaked when a second one takes its place |
| LosesOnePerType: that none is lost | a base type or a struct is handed to a function that does not free it (`debugger.c:1316-1322`), and of every member the attribute of its offset stays (`debugger.c:1451`) or, for an unknown form, the member (`:1494`) |
| LosesOnePerType: a command that succeeds | an error loses the member at hand of every struct that is left (`Member`, `Printed`) |
| FindsFirstVisible: every block has a range | a block without one ends the walk over its siblings (`dwarf_info.c:607`) |
| FindsFirstVisible: no block ends at the pc | the end of a block counts as inside, although that of a unit does not (`dwarf_info.c:76`), so a variable of a block that the pc has just left is found (`OutOfRange`) |
| ScanFindsLine: a line that has rows, or is behind the last | for a blank line `dwarf_info.h:97-99` promises DW_DLV_NO_ENTRY, "if line_num is blank in source file"; `ScanTurn` returns the first row of a later line |
| ScanFindsLine: rows in line order | the first row that is not before the line is taken, which may be of a later line than one behind it |
| FindsFirstVisible: the first, not the innermost | a variable of an inner block is not found if a namesake of the block around it comes before |
| DanglesIfFirst: it does happen | a variable that is the first child of its block is used after its handle has been freed (`dwarf_info.c:627`) |
| FreedTwiceIfTrailing: it does happen | children that are not parameters behind the last parameter, as local variables are, make the walk free a handle twice (`dwarf_info.c:520`); the property says so of the list that is walked, at the step that ends the walk |
| PrintsWholeValue: members have a name and a constant offset | they are read at the base of the struct, at an uninitialised address, or printing stops and reports success (`debugger.c:1451-1494`) |
| MatchesDwarf: the operations in `Straight` | shl shifts right and shr left, breg takes the DWARF number for a place in the enum, a variable in a register evaluates to the register's number (`loc_expr.c:246-281, 478-512`, `debugger.c:1253`) |
| MatchesDwarf: initial = 0 | the flag h_initial is pushed and not the value (`debugger.c:1119`) |
| EntryCoversPc: no entry before it ends at the pc | the end of a range counts as inside (`debugger.c:1166`) |
| EvaluationEnds: no skip, no branch back | a skip forward is carried out for ever (`debugger.c:1229`) |
| ReadsBack: numbers of one digit | read takes them in base 16 and write in base 10 (`debugger.c:443, 463`) |

The README of the repository (`src/README.md`) differs from the code in these
commands: `reg set` (:118) is `reg write`; r14 (:126) can be neither read nor
written, because its place in the enum is NO_SUCH_REGISTER (`registers.h:4`);
`var get& local` (:167) prints the value, not the address.

Other things that the models show and no property forbids: a child that is
killed while it is stopped is not noticed by continue, which fails with a ptrace
error (`handle_continue`); a failed new_debugger is ignored and run_debugger
gets a pointer that was never assigned (`parent = "undefined"` in Startup);
get_cu_from_addr returns DW_DLV_NO_ENTRY when it has found the unit, and after a
lookup that failed the next one begins in the middle of the units (`AddrTurn`);
cmnd is tested before it is assigned, so the loop may end before its first
prompt (`poll_input`).

### Bounds

- `WordSize = 2` with instructions of one to three bytes: a word covers the end
  of one instruction and the start of the next, as eight bytes do on x86-64.
- `MemSize` 17 or 7; site 16 lies at the end of memory, so that its word is not
  mapped and ptrace fails.
- `MaxDepth` 2 (1 in session_careless): a caller of a caller.
- `MaxTimes` 2: a step that goes around its loop, over a breakpoint and without.
- `MaxSignals` 0 to 2: one that interrupts and one that meets what is left.
- line tables of up to four rows, with repeated and unordered addresses and
  lines, queries before, between, at and behind them;
- two units with touching, missing or unreadable ranges and headers; libdwarf's
  position is then at the beginning, in the middle or at the end;
- four DIEs in the search of the subprogram and of a variable: three levels and
  a sibling, enough for a nested frame that returns to a caller with siblings
  left; seven for types: a struct of two members, or one inside another, and a
  pointer of a struct to itself;
- room for 12 pieces of text: a struct of two members fits, one that contains
  itself does not;
- words of four bits, a stack of four and expressions of up to five operations:
  every pair of operands of every operation, overflow and underflow of the
  stack, branches over and onto each other;
- two entries of a location list in every order around the pc;
- two reg commands before an evaluation: a write and what is read after it;
- a buffer of four bytes and two lines of up to four characters: overflow,
  commands over two lines and several commands in one.

Nothing is symmetric: addresses are ordered and letters name commands.

### Fairness

`Session`: weak fairness of the debugger's handlers and of the execution of a
debuggee that the kernel has resumed; nothing of the user, signals or SIGKILL.
`ContinuingEnds` assumes in its own statement that the user goes on typing
continue. `Startup`: both processes are scheduled; a debuggee that nobody traces
need not end. `CompilationUnits` has no fairness: that its walks end follows from
libdwarf's list being finite, and says nothing of this code. The other lookups
and the loop of `CmdLine` are code of one thread, and
a handler's return is `PromptReturns`; nobody need type. In `LocExpr` fairness
is of the evaluation alone: a failure of libdwarf is never what ends a loop.

Deadlock is looked for in every run. The stuttering step of a session that is
over (`Closed` and its like) stands for the debugger having ended.

## The proofs

| Module | Theorem | Statement |
|---|---|---|
| SessionProofs | TypeCorrect | `Spec => []TypeOK` |
| | TurnsCorrect | `Spec => []TakesTurns` |
| SessionSafetyProofs | Invariance | `Spec => []IInv`, assuming Disciplined |
| | ArmedCorrect | BreakpointsArmed, assuming Disciplined, as the next three rows |
| | TextIsClean, OwnTextCorrect, NoMissCorrect | NoStrayText, ExecutesOwnText, NoMissedBreakpoint |
| | ContinueCorrect | ContinueStopsAtBreakpoint |
| | TransparencyCorrect | `Spec => Transparent` |
| | LooseInvariance | `Spec => []LooseInv`, assuming Uncrowded |
| | FinishCorrect, NextCorrect | FinishReturns, NextReachesLine, assuming Uncrowded and a program without recursion |
| StartupProofs | StartupCorrect | PromptMeansDebuggee, LoadAddressKnown |
| LineTableProofs | SearchCorrect | ReadsInTable, SearchBrackets, SearchFindsLast |
| | ScanCorrect | ScanFindsLine |
| CompilationUnitsProofs | AnswersCorrect | AnswersAreHolders |
| | RewindCorrect | WalkRewinds |
| | LookupsFind | FindsHolder |
| CmdLineProofs | TokensCorrect | TokensFresh |
| | CommandCorrect | CommandAsTyped |
| VariablesProofs | SubprogramCorrect | SubprogramIsUsable |
| | HandlesCorrect | HandlesAreReturned |
| | LossCorrect | LosesOnePerType |
| | DanglesCorrect | DanglesIfFirst |
| | FreedTwiceCorrect | FreedTwiceIfTrailing |
| | ListingCorrect | ParametersAreListed |
| | FirstCorrect | FindsFirstVisible |
| | TextCorrect | PrintsWholeValue |
| | OverrunCorrect | OverrunsIfTooLong |
| LocExprProofs | TypesCorrect | TypeOK |
| | EntryCorrect | EntryCoversPc |
| | ReadsBackCorrect | ReadsBack |
| | BranchCorrect | BackwardBranchIsNear |
| | DwarfCorrect | MatchesDwarf |

They hold for every value of the constants that meets the named assumptions of
its module: every program, memory and word size, line table, list of units,
tree of DIEs, buffer size, expression and bound. What these assumptions ask for:

- `WordAssumption`, `MemAssumption`, `DepthAssumption`, `ProgramAssumption`,
  `EntryAssumption` and `LayoutAssumption` of Debuggee: the kinds of its
  constants; the instructions of a program lie in its memory and do not overlap,
  and a call is followed by an instruction.
- `InputAssumption`, `SitesAssumption`, `LinesAssumption`,
  `FunctionsAssumption`, `RipAssumption` and `BoundAssumption` of Session: kinds
  again; the rows that next uses are in the order of their addresses.
  TypeCorrect and TurnsCorrect assume nothing of the user. Most of the others of
  Session assume `Disciplined`: breakpoints at instructions, no two addresses
  that the debugger writes within one word, no second enable and no disable of
  an absent breakpoint, and no signals together with finish, next or a write to
  rip. The table above has what happens without each of these conditions.
- LooseInvariance, FinishCorrect and NextCorrect assume `Uncrowded` instead:
  lines and sites are instructions, no site of the user's lies inside the word
  of another address, every function begins at a line, neither of the careless
  uses of break, no signals. Lines may be a few bytes apart, and so may return
  addresses and lines. FinishCorrect and NextCorrect also assume
  `Layered(level)` for some `level`: a call goes to a function of a lower level,
  everything else stays or goes down, and rip is written only to where no frame
  waits on the same level or below. Without it finish goes wrong in recursion
  and with a rip that the user has moved elsewhere, as the table shows.
- `DiesAssumption` and `TreesAssumption` of DieTree: a unit has finitely many
  DIEs, and they are numbered in the order of the file, as DWARF stores them: a
  parent comes before its children, and what comes between the two is below the
  parent. `CommandsAssumption` of Variables: a command is given for one of these
  trees.
- `WidthAssumption` and `TokensAssumption` of Registers: words have at least two
  bits, and the digits of a numeral are natural numbers.
- `ScenariosAssumption` and `RangeAssumption` of LocExpr: memory and frame hold
  words and addresses, the operand of pick is a byte, and `UnsignedRange`, which
  is 2^64 in the code, is larger than any expression is long.
- The assumptions of Startup, LineTable, CompilationUnits and CmdLine give
  kinds: rows, units, a nonempty buffer, letters that are no separators.

### Session

BreakpointsArmed and the others are not inductive: they speak of the prompt, and
between two prompts the text is deliberately different. `IInv` says what the
text is at every moment. `TextInv`: int3 is exactly at the table's addresses and
at finish's own, less the one being stepped over. `TableInv`: the saved words
are the program's. `OverInv` and `RetInv`: which breakpoints are in flight, and
what the word that finish has saved contains, which has an int3 in it just when
the table has a breakpoint at the return address. `PlaceInv`: the debuggee
is at an instruction, and behind an int3 only if it was planted. `ControlInv`
ties the place in a handler to its command. The key lemma is that a poke of one
word at one of the debugger's addresses changes no byte at another of them
and none of the program's except its first, which is where the spacing is used.
The proof that `Next` preserves `IInv` has a lemma for each action.

The refinement follows from `IInv`: when the debuggee executes, it executes
int3 (a stutter) or its own intact instruction (a step of the abstract program),
and every step of the debugger leaves the mapped place alone, since pc is taken
back in the same step in which the stop is consumed.

FinishReturns and NextReachesLine need less of the text and more of the stack.
Where the lines of a function are closer than a word, the int3 of some of them
gets lost: stepping over one writes back a word from before the next was armed.
`LooseInv` is what remains. `MarkedText` and `MarkedTable`: an int3 is nowhere,
neither in the text nor in a saved word that will be written to it, but at
addresses of the table and at finish's own, so that whatever stops the child is
one of these. `MarkedPlace`: it stops at an instruction. `ArmsOwnLines`: while
next is under way the table has nothing but what it had before and lines of the
function that next was typed in.

`KeepsReturn` says of the stack: while finish or next waits, the frame it was
typed in is still there (`Inside`) with the return address that has the
breakpoint, or the program has just returned from it (`Returned`), or the int3
at the return address has been overwritten, so that it stops nobody. That finish
could also stop in between is what recursion does, where the same address is
reached from an inner activation. `StackRises` excludes it: the levels of the
return addresses rise from the program's place outwards, so the place and the
address of a frame that is still there differ. The stop is then at a breakpoint
of the table or after the return.

### Start-up and lookups

StartupCorrect carries which image's base has been read. SearchCorrect carries
the classical invariant of the binary search, for every table: the row before
`low` begins at or before the address and the row behind `high` after it, and
for tables in address order these extend to all the rows on their side. ScanCorrect
carries that no row that has been passed is a match, and needs the order of
the file's rows for what lies behind the answer.

The invariant of CompilationUnits ties the answer so far to libdwarf's cursor.
`FoundInv`: it is a holder of what is looked for that the walk has passed.
`ErrorInv`: an error comes from a unit that cannot be read, and ends the walk.
`LastInv`: in an executable that can be read the cursor is at the beginning between
two lookups, and the answer so far is the last holder passed, so that a walk which
ends with a holder behind it has an answer. WalkRewinds is part of the invariant,
and the only reason why the next lookup begins at the first unit.

### Command line

TokensFresh and CommandAsTyped relate the bytes of the buffer to a history of
what was typed. `BufferInv` says that the byte behind the buffer stays NUL, that
nothing is read beyond the write position, and that, once a `;` has ended a
command, the command ends in a NUL of its own or fills the buffer. `LayoutInv`
describes the memory: from the read position on the buffer holds the words that
are still to be handed out, each ended by a NUL, in the order in which they were
typed, and the word list of the command is what was handed out followed by
these. A lemma for each of the three writes (a letter, a blank, a `;`) shows how
it extends that layout, and one for next_token how it shortens it.

### Variables and DieTree

One invariant, `VarInv`, with a part for each phase of the command. In the
search, `CallsNest` says that the frames are a path down the tree. Every frame's
die is behind all the dies that have been visited (`InDocumentOrder`), and a
handle is live only if a frame, an answer or a walk holds it, and once
(`HandleIsRight`). In the lookup of a variable `BlocksNest` does the same for
the recursion over blocks, whose calls free their child before they return, and
says which handle is the one that dangles. In the walks `WalkIsRight` says which
die each of the two loops has reached and which handle it keeps, `Gone` which
handles it has given back, and `Names` that the names listed are those of the
parameters up to there.

FirstCorrect adds `FirstInv`, for trees in which every block has a range and
every variable a name. The lemmas before it give the order of the document its
meaning: the dies below a die are those between it and the next die that is not
below it, so that the recursion's steps (to the first child, to the sibling,
back) skip nothing. `BlocksAreOpen`: the blocks of the active calls contain the
pc. `NothingPassed`: no visible variable lies before the place that the walk has
reached, and a variable that has been returned is itself visible. A block whose
range does not contain the pc is skipped as a whole, and nothing in it is
visible.

TextCorrect and OverrunCorrect add `TextInv`, for every tree of types and every
depth of structs in structs. The first half is about the reference text alone:
`Text` unwinds the parts of a value (a value of a type, or what is left of a struct
from one of its members on) level by level. A part that is not cut short at a level
has the same text at all later ones, and as long as the levels go on to add such
parts there are at least as many of them as levels; so `Depth`, the number of parts,
is enough, and the last level gives every part that does not contain itself the text
made of those of its own parts (`UncutCloses`, `WholeTexts`). The second half is
`Balance`: the text so far, the text of what is being printed, and what each of the
structs that wait has left, joined in this order, are the whole text. When a member
begins, its struct begins to wait (`MemberBegins`); when its value has been printed,
the struct is what is being printed again (`Resumes`); everything that is written
moves from the second share to the first (`Advances`). `Separated` says that the
last piece is an open brace exactly as long as no member of the struct has been
printed, which is what the comma is decided by. Where the code prints something else
than the whole text (an error that closes a struct, a member whose place is not
known) only the lengths still add up, and they are all that OverrunCorrect needs.

`HandlesAreReturned` is the sum of all of this at the end, which is why it could
not be proved phase by phase. `LossInv` is the count of what is forgotten: as
long as a local variable is printed, `lost` is what the pieces written so far
make it. FreedTwiceCorrect adds `NextIsRight`, which says when a walk has a
`next_die` of this very call.

### Location expressions and registers

`LocInv` says that registers and the elements of the stack are words whatever an
operation computes, that the stack has no more than EXPR_STACK_SIZE elements,
that the positions in the list and in the expression are inside them, and that
no entry passed by contains the pc. A register read returns what is `HeldBy` the
register that the token stands for, and the invariant follows the last write to
it through the tokens of both bases. For the branches, the offsets of operations
grow by at least 1 and at most 9 bytes each, as DWARF encodes them, and the
loops over offsets rest on a position where the unsigned comparison changes; the
theorem says how far from the branch's target that may be.

`MatchesDwarf` compares a run of the evaluator with one of the standard's. The
invariant is that of `DwarfInv`: as long as the operations are those on which
the two agree, there is a sequence of the standard's stacks, one after each
operation carried out so far, and the last one mirrors `stack` (`Alongside`); at
the end it is the solution of the recursion in `DwarfStack`. One step of it is
`StepMirrors`, which goes through the operations. The arithmetic under it is
proved for every width: a word is the set of its bits and is told apart by them
(`SameBits`, `BitsOfSum`, `ComplementBits`), the quotient of `Quot` is the only
one that truncates (`QuotMeans`), and sums, differences and products are those
of the signed numbers up to multiples of the modulus (`UBinaryMeans`,
`UnaryMeans`).

### What the prover needs

No theorem of induction is used that takes an operator. Induction over the
natural numbers, over the positions of a sequence or over a tree is done by the
least counterexample, from a lemma that every set of naturals that is
not empty has a least element. A recursive function of the model
is a CHOOSE of a function with its equation; the lemmas named Solvable,
Recursion, Affine and the like show that such a function exists, and the
equation follows.

Only model-checked: the liveness properties (CommandEnds, PromptReturns,
ContinuingEnds, LookupReturns of the line table, EvaluationEnds, LineIsConsumed,
StartupSettles), because fairness is out of the prover's reach. Proved but not
repeated in a run, because what the runs check includes them: BreakpointsArmed
for a careful user, LoadAddressKnown, ReadsInTable and SearchBrackets. The type
invariants of LineTable, Startup, CompilationUnits, CmdLine and Variables are
parts of the proved invariants.

## Not modelled

- The characters of a printed value: its size, its encoding and its base.
- The options of break and where, and the printing.
- The iterators, attributes and location lists that lookups leave allocated when
  libdwarf fails.
- where, backtrace and peek, which keep no state and print what libdwarf,
  libunwind and ptrace return.
- Which values libunwind gives for the caller's frame; the stack pointer of the
  caller is a constant of LocExpr.
- Allocation failures; the handling of a failed PTRACE_GETREGS in the middle of
  a handler other than through a SIGKILL.
- Signals the debuggee handles itself: PTRACE_CONT with signal 0 suppresses them.
- Threads and children of the debuggee, which the debugger does not follow.

## Plan

Done, in this order: Debuggee, Breakpoints, Session with its invariant, its
proofs and its refinement; Startup; LineTable; CompilationUnits; DieTree;
CmdLine; Registers; LocExpr; Variables, which took DieTree in. The session came
first because everything else serves it.

Done since: the invariants and theorems of every part but start-up, which had
them, and of the session those of finish and next; and with MatchesDwarf,
PrintsWholeValue and OverrunsIfTooLong every invariant that a run checks.

Next:

- A composition of CmdLine and Session: several commands in a line across the
  debuggee's end.
