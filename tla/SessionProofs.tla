--------------------------- MODULE SessionProofs ----------------------------
(***************************************************************************)
(* What holds of Session for every program, line table and set of inputs.  *)
(***************************************************************************)
EXTENDS SessionInvariant, TLAPS

-----------------------------------------------------------------------------
(* The operators on text and records keep their types.                     *)

(* Reading a mapped word gives a word.                                     *)
LEMMA PeekType ==
  ASSUME NEW m \in [Mem -> Byte], NEW a \in Int, Mapped(a)
  PROVE  Peek(m, a) \in Word
BY WordAssumption, MemAssumption DEF Mapped, Peek, Word, Mem

(* Writing a word gives text.                                              *)
LEMMA PokeType ==
  ASSUME NEW m \in [Mem -> Byte], NEW a \in Int, NEW w \in Word
  PROVE  Poke(m, a, w) \in [Mem -> Byte]
BY WordAssumption, MemAssumption DEF Poke, Word, Mem

(* Arming a breakpoint writes one byte, whatever the word around it.       *)
LEMMA ArmedText ==
  ASSUME NEW m \in [Mem -> Byte], NEW b \in Breakpoint
  PROVE  armed_text(m, b) = [x \in Mem |-> IF x = b.mem_addr THEN "int3" ELSE m[x]]
<1> DEFINE a == b.mem_addr
           w == [Peek(m, a) EXCEPT ![0] = "int3"]
<1>1. a \in Int
  BY DEF Breakpoint
<1>2. ASSUME NEW i \in 0 .. WordSize - 1 PROVE w[i] = IF i = 0 THEN "int3" ELSE m[a + i]
  BY <1>1, <1>2 DEF Peek
<1>3. ASSUME NEW x \in Mem
      PROVE  (IF x \in a .. a + WordSize - 1 THEN w[x - a] ELSE m[x])
               = IF x = a THEN "int3" ELSE m[x]
  <2>1. x \in Int
    BY MemAssumption DEF Mem
  <2>2. CASE x \in a .. a + WordSize - 1
    <3>1. x - a \in 0 .. WordSize - 1 /\ a + (x - a) = x /\ (x - a = 0 <=> x = a)
      BY <1>1, <2>1, <2>2, WordAssumption
    <3> HIDE DEF w
    <3> QED
      BY <1>2, <2>2, <3>1
  <2>3. CASE x \notin a .. a + WordSize - 1
    BY <1>1, <2>1, <2>3, WordAssumption
  <2> QED
    BY <2>2, <2>3
<1>4. armed_text(m, b) = [x \in Mem |-> IF x \in a .. a + WordSize - 1 THEN w[x - a] ELSE m[x]]
  BY DEF armed_text, Poke
<1> HIDE DEF a, w
<1> QED
  BY <1>3, <1>4 DEF a

(* The text in which enable_breakpoint has planted int3 is text.           *)
LEMMA ArmedTextType ==
  ASSUME NEW m \in [Mem -> Byte], NEW b \in Breakpoint
  PROVE  armed_text(m, b) \in [Mem -> Byte]
BY ArmedText DEF Byte

(* The text into which disable_breakpoint has written is text.             *)
LEMMA DisabledTextType ==
  ASSUME NEW m \in [Mem -> Byte], NEW b \in Breakpoint
  PROVE  disable_breakpoint(m, b) \in [Mem -> Byte]
BY PokeType DEF disable_breakpoint, Breakpoint

(* make_breakpoint yields a breakpoint record.                             *)
LEMMA FreshType ==
  ASSUME NEW a \in Int
  PROVE  make_breakpoint(a) \in Breakpoint
BY DEF make_breakpoint, Breakpoint, ZeroWord, Word, Byte

(* So does the record that stands for an unset local.                      *)
LEMMA NoBreakpointType == NoBreakpoint \in Breakpoint
BY FreshType DEF NoBreakpoint

(* enable_breakpoint keeps the record's shape and address.                 *)
LEMMA EnabledType ==
  ASSUME NEW m \in [Mem -> Byte], NEW b \in Breakpoint, Mapped(b.mem_addr)
  PROVE  /\ enabled_record(m, b) \in Breakpoint
         /\ enabled_record(m, b).mem_addr = b.mem_addr
<1>1. Peek(m, b.mem_addr) \in Word
  BY PeekType DEF Breakpoint
<1> QED
  BY <1>1 DEF enabled_record, Breakpoint

(* What the lookup returns: a copy of the entry, or a fresh record.        *)
LEMMA Lookup ==
  ASSUME NEW table, table \in [DOMAIN table -> Breakpoint], NEW a \in Int
  PROVE  LET b == get_breakpoint_at_addr(table, a) IN
           /\ b \in Breakpoint
           /\ a \notin DOMAIN table => b = make_breakpoint(a)
           /\ a \in DOMAIN table => /\ b.mem_addr = table[a].mem_addr
                                   /\ b.saved_data = table[a].saved_data
                                   /\ b.enabled = table[a].enabled
<1>1. CASE a \in DOMAIN table
  <2>1. table[a] \in Breakpoint /\ make_breakpoint(a).temporary_enable \in BOOLEAN
    BY <1>1 DEF make_breakpoint
  <2>2. get_breakpoint_at_addr(table, a)
          = [table[a] EXCEPT !.temporary_enable = make_breakpoint(a).temporary_enable]
    BY <1>1 DEF get_breakpoint_at_addr, copy_breakpoint
  <2> QED
    BY <1>1, <2>1, <2>2 DEF Breakpoint
<1>2. CASE a \notin DOMAIN table
  BY <1>2, FreshType DEF get_breakpoint_at_addr
<1> QED
  BY <1>1, <1>2
-----------------------------------------------------------------------------
(* Type correctness.                                                       *)

LocalsOK ==
  /\ cmd \in {"none", "continue", "step", "finish", "next"}
  /\ at \in {"idle", "arm", "over", "step", "run"}
  /\ over \in Breakpoint
  /\ ret \in Breakpoint
  /\ times \in 0 .. MaxTimes
  /\ line \in Nat
  /\ at = "arm" => line > 0
  /\ high \in Int
  /\ res \in {"OK", "err", "exited", "closed"}
  /\ from \in Starts

TableOK ==
  /\ DOMAIN bps \subseteq Sites \cup LineAddrs
  /\ bps \in [DOMAIN bps -> Breakpoint]
  /\ \A a \in DOMAIN bps : bps[a].mem_addr = a

DebuggeeOK ==
  /\ pc \in Int
  /\ stack \in Seq(Insns)
  /\ run \in {"stopped", "running", "stepping", "dead", "killed", "detached"}
  /\ sig \in {"none", "trap", "trace", "signal"}
  /\ nsig \in 0 .. MaxSignals

(* TypeOK in four parts: each action disturbs only some of them.           *)
LEMMA TypeParts ==
  TypeOK <=> mem \in [Mem -> Byte] /\ DebuggeeOK /\ TableOK /\ LocalsOK
BY DEF TypeOK, DebuggeeOK, TableOK, LocalsOK

(* The same, of the next state.                                            *)
LEMMA TypePartsPrime ==
  TypeOK' <=> mem' \in [Mem -> Byte] /\ DebuggeeOK' /\ TableOK' /\ LocalsOK'
BY DEF TypeOK, DebuggeeOK, TableOK, LocalsOK

(* Addresses that come from the line table, the user or the program are    *)
(* integers.                                                               *)
LEMMA AddressTypes ==
  /\ LineAddrs \subseteq Int
  /\ Insns \subseteq Int
  /\ Sites \subseteq Int
  /\ Insns \subseteq Mem
BY LinesAssumption, ProgramAssumption, SitesAssumption, MemAssumption DEF LineAddrs, Mem

(* A handler's return leaves well-typed locals.                            *)
LEMMA DoneType ==
  ASSUME NEW r \in {"OK", "err", "exited"}, Done(r)
  PROVE  LocalsOK'
BY NoBreakpointType, BoundAssumption DEF Done, LocalsOK, Nowhere, Starts

(* A command that changes nothing keeps the types.                         *)
LEMMA RefuseType ==
  ASSUME TypeOK, NEW r \in {"OK", "err", "exited"}, Refuse(r)
  PROVE  TypeOK'
<1>1. LocalsOK'
  BY DoneType DEF Refuse
<1>2. DebuggeeOK' /\ TableOK' /\ mem' \in [Mem -> Byte]
  BY TypeParts DEF Refuse, DebuggeeOK, TableOK, debuggee
<1> QED
  BY <1>1, <1>2, TypePartsPrime

(* The pieces from which the handlers are made.                            *)
LEMMA StepOverType ==
  ASSUME NEW m \in [Mem -> Byte], NEW b \in Breakpoint, StepOver(m, b)
  PROVE  /\ mem' \in [Mem -> Byte]
         /\ over' \in Breakpoint
         /\ at' = "over"
         /\ run' = "stepping"
BY DisabledTextType DEF StepOver

(* The start of continue and of step_out's last part keeps the types.      *)
LEMMA StepOverAndContinueType ==
  ASSUME TypeOK, NEW m \in [Mem -> Byte], StepOverAndContinue(m)
  PROVE  /\ mem' \in [Mem -> Byte]
         /\ over' \in Breakpoint
         /\ at' \in {"over", "run"}
         /\ run' \in {"stepping", "running"}
<1>1. get_breakpoint_at_addr(bps, pc) \in Breakpoint
  BY Lookup DEF TypeOK
<1> QED
  BY <1>1, StepOverType DEF StepOverAndContinue, TypeOK

(* A turn of handle_step's loop keeps the types.                           *)
LEMMA StepTurnType ==
  ASSUME TypeOK, NEW m \in [Mem -> Byte], NEW p \in Int, NEW n \in 1 .. MaxTimes,
         StepTurn(m, p, n)
  PROVE  /\ mem' \in [Mem -> Byte]
         /\ over' \in Breakpoint
         /\ at' \in {"over", "step"}
         /\ run' = "stepping"
         /\ times' \in 0 .. MaxTimes
<1>1. get_breakpoint_at_addr(bps, p) \in Breakpoint
  BY Lookup DEF TypeOK
<1>2. n - 1 \in 0 .. MaxTimes
  BY BoundAssumption
<1> QED
  BY <1>1, <1>2, StepOverType, NoBreakpointType DEF StepTurn

(* The history variable gets a place.                                      *)
LEMMA HereType ==
  ASSUME TypeOK PROVE Here \in Starts
BY DEF TypeOK, Here, Starts

(* step_out's body keeps the types.                                        *)
LEMMA StepOutType ==
  ASSUME TypeOK, NEW c \in {"finish", "next"}, NEW o \in Starts,
         StepOutBody(c, o)
  PROVE  mem' \in [Mem -> Byte] /\ LocalsOK' /\ (run' = run \/ run' \in {"stepping", "running"})
<1>1. CASE Done("err") /\ UNCHANGED <<mem, run>>
  BY <1>1, DoneType DEF TypeOK
<1>2. CASE Done("OK") /\ UNCHANGED <<mem, run>>
  BY <1>2, DoneType DEF TypeOK
<1>3. CASE /\ stack # <<>>
           /\ Mapped(get_breakpoint_at_addr(bps, Head(stack)).mem_addr)
           /\ ret' = enabled_record(mem, get_breakpoint_at_addr(bps, Head(stack)))
           /\ StepOverAndContinue(armed_text(mem, get_breakpoint_at_addr(bps, Head(stack))))
           /\ cmd' = c
           /\ from' = o
           /\ UNCHANGED <<times, line, high, res>>
  <2> DEFINE b == get_breakpoint_at_addr(bps, Head(stack))
  <2>1. Head(stack) \in Int
    BY <1>3, AddressTypes DEF TypeOK
  <2>2. b \in Breakpoint
    BY <2>1, Lookup DEF TypeOK
  <2>3. armed_text(mem, b) \in [Mem -> Byte] /\ ret' \in Breakpoint
    BY <1>3, <2>2, ArmedTextType, EnabledType DEF TypeOK
  <2> QED
    BY <1>3, <2>3, StepOverAndContinueType DEF TypeOK, LocalsOK
<1> QED
  BY <1>1, <1>2, <1>3 DEF StepOutBody

(* Executing an intact instruction goes to an instruction, with return     *)
(* addresses of calls on the stack.                                        *)
LEMMA OutcomeTypes ==
  ASSUME NEW p \in Insns, NEW S, ReturnSites \subseteq S, NEW s \in Seq(S), S \subseteq Insns,
         NEW o \in Outcomes(p, s)
  PROVE  o[1] \in Insns /\ o[2] \in Seq(S)
<1> DEFINE i == Program[p]
<1>1. i.op \in Ops /\ i.to \subseteq Insns
  BY ProgramAssumption
<1>2. CASE i.op = "go"
  BY <1>1, <1>2 DEF Outcomes
<1>3. CASE i.op = "call"
  <2>1. p + i.len \in S
    BY <1>3 DEF ReturnSites
  <2>2. o \in {<<t, <<p + i.len>> \o s>> : t \in i.to}
    BY <1>3 DEF Outcomes
  <2>3. <<p + i.len>> \o s \in Seq(S)
    BY <2>1
  <2>4. PICK t \in i.to : o = <<t, <<p + i.len>> \o s>>
    BY <2>2
  <2> QED
    BY <1>1, <2>3, <2>4
<1>4. CASE i.op = "ret"
  <2>1. s # <<>> /\ o = <<Head(s), Tail(s)>>
    BY <1>4 DEF Outcomes
  <2>2. Head(s) \in S /\ Tail(s) \in Seq(S)
    BY <2>1
  <2> QED
    BY <2>1, <2>2
<1>5. CASE i.op = "exit"
  BY <1>5 DEF Outcomes
<1> QED
  BY <1>1, <1>2, <1>3, <1>4, <1>5 DEF Ops

(* An instruction of the debuggee keeps the types.                         *)
LEMMA ExecuteType == TypeOK /\ Execute => TypeOK'
<1> SUFFICES ASSUME TypeOK, Execute PROVE TypeOK'
  OBVIOUS
<1>1. mem' \in [Mem -> Byte] /\ TableOK' /\ LocalsOK'
  BY TypeParts DEF Execute, TableOK, LocalsOK, locals
<1>2. run' \in {"stopped", "running", "stepping", "dead"} /\ sig' \in {"none", "trap", "trace", "signal"} /\ nsig' \in 0 .. MaxSignals
  BY DEF Execute, Stop, TypeOK
<1>3. pc' \in Int /\ stack' \in Seq(Insns)
  <2>1. CASE \E o \in Outcomes(pc, stack) : Intact(mem, pc) /\ pc' = o[1] /\ stack' = o[2]
    <3>1. PICK o \in Outcomes(pc, stack) : Intact(mem, pc) /\ pc' = o[1] /\ stack' = o[2]
      BY <2>1
    <3>2. pc \in Insns /\ stack \in Seq(Insns) /\ ReturnSites \subseteq Insns
      BY <3>1, LayoutAssumption DEF Intact, TypeOK
    <3>3. o[1] \in Insns /\ o[2] \in Seq(Insns)
      BY <3>2, OutcomeTypes
    <3> QED
      BY <3>1, <3>3, AddressTypes
  <2>2. CASE stack' = stack /\ (pc' = pc + 1 \/ pc' = pc \/ pc' \in Insns)
    BY <2>2, AddressTypes DEF TypeOK
  <2> QED
    BY <2>1, <2>2 DEF Execute
<1> QED
  BY <1>1, <1>2, <1>3, TypePartsPrime DEF DebuggeeOK

(* Signals, a SIGKILL and exit keep the types.                             *)
LEMMA EnvironmentType == TypeOK /\ (Signal \/ Kill \/ Exit) => TypeOK'
<1> SUFFICES ASSUME TypeOK, Signal \/ Kill \/ Exit PROVE TypeOK'
  OBVIOUS
<1>1. mem' \in [Mem -> Byte] /\ TableOK' /\ LocalsOK'
  BY TypeParts DEF Signal, Kill, Exit, TableOK, LocalsOK, locals
<1>2. DebuggeeOK'
  BY BoundAssumption DEF Signal, Kill, Exit, Traced, Stop, TypeOK, DebuggeeOK
<1> QED
  BY <1>1, <1>2, TypePartsPrime

(* Saving a record of an address that the user or the line table names,    *)
(* and deleting one.                                                       *)
LEMMA SaveType ==
  ASSUME TableOK, NEW b \in Breakpoint, b.mem_addr \in Sites \cup LineAddrs,
         bps' = save_breakpoint(bps, b)
  PROVE  TableOK'
BY DEF TableOK, save_breakpoint

(* delete_breakpoint keeps the table well typed.                           *)
LEMMA DeleteType ==
  ASSUME TableOK, NEW b, bps' = delete_breakpoint(bps, b)
  PROVE  TableOK'
BY DEF TableOK, delete_breakpoint

(* break enable and break disable keep the types.                          *)
LEMMA BreakType ==
  ASSUME TypeOK, NEW a \in Sites,
         handle_breakpoint_enable(a) \/ handle_breakpoint_disable(a)
  PROVE  TypeOK'
<1> DEFINE b == get_breakpoint_at_addr(bps, a)
<1>1. b \in Breakpoint
  BY Lookup, SitesAssumption DEF TypeOK
<1>2. CASE Refuse("err")
  BY <1>2, RefuseType
<1>3. CASE /\ Mapped(a)
           /\ mem' = armed_text(mem, b)
           /\ bps' = save_breakpoint(bps, enabled_record(mem, b))
           /\ Done("OK") /\ UNCHANGED debuggee
  <2>1. b.mem_addr = a
    BY Lookup, SitesAssumption DEF TypeOK, make_breakpoint
  <2>2. TableOK'
    BY <1>1, <1>3, <2>1, EnabledType, SaveType, TypeParts
  <2>3. mem' \in [Mem -> Byte] /\ DebuggeeOK' /\ LocalsOK'
    BY <1>1, <1>3, ArmedTextType, DoneType, TypeParts DEF debuggee, DebuggeeOK
  <2> QED
    BY <2>2, <2>3, TypePartsPrime
<1>4. CASE /\ mem' = disable_breakpoint(mem, b)
           /\ bps' = delete_breakpoint(bps, b)
           /\ Done("OK") /\ UNCHANGED debuggee
  <2>1. TableOK'
    BY <1>4, DeleteType, TypeParts
  <2>2. mem' \in [Mem -> Byte] /\ DebuggeeOK' /\ LocalsOK'
    BY <1>1, <1>4, DisabledTextType, DoneType, TypeParts DEF debuggee, DebuggeeOK
  <2> QED
    BY <2>1, <2>2, TypePartsPrime
<1> QED
  BY <1>2, <1>3, <1>4 DEF handle_breakpoint_enable, handle_breakpoint_disable

(* continue keeps the types.                                               *)
LEMMA ContinueType == TypeOK /\ handle_continue => TypeOK'
<1> SUFFICES ASSUME TypeOK, handle_continue PROVE TypeOK'
  OBVIOUS
<1>1. CASE Refuse("err")
  BY <1>1, RefuseType
<1>2. CASE /\ Start("continue") /\ StepOverAndContinue(mem)
           /\ UNCHANGED <<pc, stack, sig, nsig, bps, ret, times, line, high, res>>
  <2>1. mem \in [Mem -> Byte]
    BY DEF TypeOK
  <2>2. mem' \in [Mem -> Byte] /\ DebuggeeOK' /\ LocalsOK'
    BY <1>2, <2>1, StepOverAndContinueType, HereType DEF Start, TypeOK, DebuggeeOK, LocalsOK
  <2>3. TableOK'
    BY <1>2 DEF TypeOK, TableOK
  <2> QED
    BY <2>2, <2>3, TypePartsPrime
<1> QED
  BY <1>1, <1>2 DEF handle_continue

(* step keeps the types.                                                   *)
LEMMA StepType ==
  ASSUME TypeOK, NEW n \in 0 .. MaxTimes, handle_step(n)
  PROVE  TypeOK'
<1>1. CASE Refuse("OK") \/ Refuse("err")
  BY <1>1, RefuseType
<1>2. CASE /\ n > 0 /\ Start("step") /\ StepTurn(mem, pc, n)
           /\ UNCHANGED <<pc, stack, sig, nsig, bps, ret, line, high, res>>
  <2>1. mem \in [Mem -> Byte] /\ pc \in Int /\ n \in 1 .. MaxTimes
    BY <1>2, BoundAssumption DEF TypeOK
  <2>2. mem' \in [Mem -> Byte] /\ DebuggeeOK' /\ LocalsOK'
    BY <1>2, <2>1, StepTurnType, HereType DEF Start, TypeOK, DebuggeeOK, LocalsOK
  <2>3. TableOK'
    BY <1>2 DEF TypeOK, TableOK
  <2> QED
    BY <2>2, <2>3, TypePartsPrime
<1> QED
  BY <1>1, <1>2 DEF handle_step

(* finish keeps the types.                                                 *)
LEMMA FinishType == TypeOK /\ step_out => TypeOK'
<1> SUFFICES ASSUME TypeOK, step_out PROVE TypeOK'
  OBVIOUS
<1>1. CASE Refuse("err")
  BY <1>1, RefuseType
<1>2. CASE StepOutBody("finish", Here) /\ UNCHANGED <<pc, stack, sig, nsig, bps>>
  BY <1>2, StepOutType, HereType, TypePartsPrime DEF TypeOK, DebuggeeOK, TableOK
<1> QED
  BY <1>1, <1>2 DEF step_out

(* next, up to its first loop, keeps the types.                            *)
LEMMA NextType == TypeOK /\ step_in => TypeOK'
<1> SUFFICES ASSUME TypeOK, step_in PROVE TypeOK'
  OBVIOUS
<1>1. CASE Refuse("err")
  BY <1>1, RefuseType
<1>2. CASE /\ Start("next")
           /\ \E s \in Subprograms : high' = s[1].high /\ line' = s[2]
           /\ at' = "arm"
           /\ UNCHANGED <<mem, debuggee, bps, over, ret, times, res>>
  <2>1. PICK s \in Subprograms : high' = s[1].high /\ line' = s[2]
    BY <1>2
  <2>2. high' \in Int /\ line' \in Nat /\ line' > 0
    BY <2>1, FunctionsAssumption, LinesAssumption DEF Subprograms
  <2>3. LocalsOK'
    BY <1>2, <2>2, HereType DEF Start, TypeOK, LocalsOK
  <2>4. mem' \in [Mem -> Byte] /\ DebuggeeOK' /\ TableOK'
    BY <1>2, TypeParts DEF DebuggeeOK, TableOK, debuggee
  <2> QED
    BY <2>3, <2>4, TypePartsPrime
<1> QED
  BY <1>1, <1>2 DEF step_in

(* reg write keeps the types.                                              *)
LEMMA SetRipType ==
  ASSUME TypeOK, NEW v \in RipValues, handle_register_write_rip(v)
  PROVE  TypeOK'
<1>1. LocalsOK'
  BY DoneType DEF handle_register_write_rip
<1>2. mem' \in [Mem -> Byte] /\ DebuggeeOK' /\ TableOK'
  BY RipAssumption, AddressTypes DEF handle_register_write_rip, TypeOK, DebuggeeOK, TableOK
<1> QED
  BY <1>1, <1>2, TypePartsPrime

(* The loop of step_in stays inside the line table.                        *)
LEMMA ArmingLine ==
  ASSUME TypeOK, at = "arm", line <= Len(Lines)
  PROVE  line \in DOMAIN Lines
BY LinesAssumption DEF TypeOK

(* A turn of step_in's first loop keeps the types.                         *)
LEMMA ArmType == TypeOK /\ Arm => TypeOK'
<1> SUFFICES ASSUME TypeOK, Arm PROVE TypeOK'
  OBVIOUS
<1> DEFINE t == [make_breakpoint(Lines[line]) EXCEPT !.temporary_enable = TRUE]
<1>1. DebuggeeOK'
  BY TypeParts DEF Arm, DebuggeeOK, debuggee
<1>2. CASE line' = line + 1 /\ UNCHANGED <<mem, bps, cmd, at, over, ret, times, high, res, from>>
  BY <1>1, <1>2, TypePartsPrime DEF TypeOK, TableOK, LocalsOK
<1>3. CASE Done("err") /\ UNCHANGED <<mem, bps>>
  BY <1>1, <1>3, DoneType, TypePartsPrime DEF TypeOK, TableOK
<1>4. CASE /\ at = "arm" /\ line <= Len(Lines) /\ ~get_breakpoint_at_addr(bps, Lines[line]).enabled
           /\ Mapped(t.mem_addr)
           /\ mem' = armed_text(mem, t)
           /\ bps' = save_breakpoint(bps, enabled_record(mem, t))
           /\ line' = line + 1
           /\ UNCHANGED <<cmd, at, over, ret, times, high, res, from>>
  <2>1. Lines[line] \in LineAddrs /\ Lines[line] \in Int
    BY <1>4, LinesAssumption, ArmingLine DEF LineAddrs
  <2>2. t \in Breakpoint /\ t.mem_addr = Lines[line]
    BY <2>1, FreshType DEF make_breakpoint, Breakpoint
  <2>3. TableOK'
    BY <1>4, <2>1, <2>2, EnabledType, SaveType, TypeParts
  <2>4. mem' \in [Mem -> Byte]
    BY <1>4, <2>2, ArmedTextType DEF TypeOK
  <2>5. LocalsOK'
    BY <1>4 DEF TypeOK, LocalsOK
  <2> QED
    BY <1>1, <2>3, <2>4, <2>5, TypePartsPrime
<1> QED
  BY <1>2, <1>3, <1>4 DEF Arm

(* The end of that loop keeps the types.                                   *)
LEMMA ArmedType == TypeOK /\ Armed => TypeOK'
<1> SUFFICES ASSUME TypeOK, Armed PROVE TypeOK'
  OBVIOUS
<1>1. CASE StepOutBody("next", from)
  BY <1>1, StepOutType, TypePartsPrime DEF Armed, TypeOK, DebuggeeOK, TableOK
<1>2. CASE Done("err") /\ UNCHANGED <<mem, run>>
  BY <1>2, DoneType, TypePartsPrime DEF Armed, TypeOK, DebuggeeOK, TableOK
<1> QED
  BY <1>1, <1>2 DEF Armed

(* A wait that fails keeps the types.                                      *)
LEMMA WaitFailsType == TypeOK /\ WaitFails => TypeOK'
<1> SUFFICES ASSUME TypeOK, WaitFails PROVE TypeOK'
  OBVIOUS
<1>1. LocalsOK'
  BY DoneType DEF WaitFails
<1>2. mem' \in [Mem -> Byte] /\ DebuggeeOK' /\ TableOK'
  BY DEF WaitFails, TypeOK, DebuggeeOK, TableOK
<1> QED
  BY <1>1, <1>2, TypePartsPrime

(* The end of step_over_breakpoint keeps the types.                        *)
LEMMA WaitOverType == TypeOK /\ WaitOver => TypeOK'
<1> SUFFICES ASSUME TypeOK, WaitOver PROVE TypeOK'
  OBVIOUS
<1> DEFINE m == armed_text(mem, over)
<1>1. m \in [Mem -> Byte] /\ pc' \in Int
  BY ArmedTextType DEF TypeOK, WaitOver, Rearmed, handle_sigtrap
<1>2. TableOK' /\ stack' \in Seq(Insns) /\ nsig' \in 0 .. MaxSignals /\ sig' = "none"
  BY DEF WaitOver, Rearmed, TypeOK, TableOK
<1>3. CASE /\ mem' = m /\ run' = "running" /\ at' = "run" /\ over' = NoBreakpoint
           /\ UNCHANGED <<cmd, ret, times, line, high, res, from>>
  BY <1>1, <1>2, <1>3, NoBreakpointType, TypePartsPrime DEF TypeOK, DebuggeeOK, LocalsOK
<1>4. CASE /\ times > 0 /\ StepTurn(m, pc', times)
           /\ UNCHANGED <<cmd, ret, line, high, res, from>>
  <2>1. times \in 1 .. MaxTimes
    BY <1>4, BoundAssumption DEF TypeOK
  <2> HIDE DEF m
  <2>2. /\ mem' \in [Mem -> Byte] /\ over' \in Breakpoint /\ at' \in {"over", "step"}
        /\ run' = "stepping" /\ times' \in 0 .. MaxTimes
    BY <1>1, <1>4, <2>1, StepTurnType
  <2> QED
    BY <1>1, <1>2, <1>4, <2>2, TypePartsPrime DEF TypeOK, DebuggeeOK, LocalsOK
<1>5. CASE mem' = m /\ Done("OK") /\ UNCHANGED run
  BY <1>1, <1>2, <1>5, DoneType, TypePartsPrime DEF TypeOK, DebuggeeOK
<1> QED
  BY <1>3, <1>4, <1>5 DEF WaitOver, Rearmed

(* The end of a single step keeps the types.                               *)
LEMMA WaitStepType == TypeOK /\ WaitStep => TypeOK'
<1> SUFFICES ASSUME TypeOK, WaitStep PROVE TypeOK'
  OBVIOUS
<1>1. mem \in [Mem -> Byte] /\ pc' \in Int
  BY DEF TypeOK, WaitStep, handle_sigtrap
<1>2. TableOK' /\ stack' \in Seq(Insns) /\ nsig' \in 0 .. MaxSignals /\ sig' = "none"
  BY DEF WaitStep, TypeOK, TableOK
<1>3. CASE /\ times > 0 /\ StepTurn(mem, pc', times)
           /\ UNCHANGED <<cmd, ret, line, high, res, from>>
  <2>1. times \in 1 .. MaxTimes
    BY <1>3, BoundAssumption DEF TypeOK
  <2>2. /\ mem' \in [Mem -> Byte] /\ over' \in Breakpoint /\ at' \in {"over", "step"}
        /\ run' = "stepping" /\ times' \in 0 .. MaxTimes
    BY <1>1, <1>3, <2>1, StepTurnType
  <2> QED
    BY <1>1, <1>2, <1>3, <2>2, TypePartsPrime DEF TypeOK, DebuggeeOK, LocalsOK
<1>4. CASE Done("OK") /\ UNCHANGED <<mem, run>>
  BY <1>1, <1>2, <1>4, DoneType, TypePartsPrime DEF TypeOK, DebuggeeOK
<1> QED
  BY <1>3, <1>4 DEF WaitStep

(* The stop of a running child keeps the types.                            *)
LEMMA WaitRunType == TypeOK /\ WaitRun => TypeOK'
<1> SUFFICES ASSUME TypeOK, WaitRun PROVE TypeOK'
  OBVIOUS
<1>1. mem' \in [Mem -> Byte] /\ pc' \in Int
  BY DisabledTextType DEF TypeOK, WaitRun, Released, handle_sigtrap
<1>2. LocalsOK'
  BY DoneType DEF WaitRun, Released
<1> QED
  BY <1>1, <1>2, TypePartsPrime DEF WaitRun, Released, TypeOK, DebuggeeOK, TableOK

(* The initial state is well typed.                                        *)
LEMMA TypeInit == Init => TypeOK
<1> SUFFICES ASSUME Init PROVE TypeOK
  OBVIOUS
<1>1. mem \in [Mem -> Byte] /\ DebuggeeOK
  BY EntryAssumption, AddressTypes, BoundAssumption DEF Init, Byte, DebuggeeOK
<1>2. TableOK /\ LocalsOK
  BY NoBreakpointType, BoundAssumption DEF Init, TableOK, LocalsOK, Nowhere, Starts
<1> QED
  BY <1>1, <1>2, TypeParts

(* Every step keeps the types.                                             *)
LEMMA TypeStep == TypeOK /\ [Next]_vars => TypeOK'
<1> SUFFICES ASSUME TypeOK, [Next]_vars PROVE TypeOK'
  OBVIOUS
<1>1. CASE User
  <2>1. EnableSites \subseteq Sites /\ DisableSites \subseteq Sites
    BY DEF EnableSites, DisableSites
  <2> QED
    BY <1>1, <2>1, BreakType, ContinueType, StepType, FinishType, NextType, SetRipType,
       EnvironmentType DEF User
<1>2. CASE Handler
  BY <1>2, ArmType, ArmedType, WaitFailsType, WaitOverType, WaitStepType, WaitRunType DEF Handler
<1>3. CASE Execute \/ Signal \/ Kill
  BY <1>3, ExecuteType, EnvironmentType
<1>4. CASE UNCHANGED vars
  BY <1>4 DEF vars, debuggee, locals, TypeOK
<1> QED
  BY <1>1, <1>2, <1>3, <1>4 DEF Next, Closed

(* Every variable keeps its type, for every program, line table and set of *)
(* inputs: in particular the table is keyed by the addresses of its        *)
(* records (breakpoint_cmp), and the loop of step_in that arms the lines   *)
(* indexes the line table within its bounds.                               *)
THEOREM TypeCorrect == Spec => []TypeOK
<1>1. Init => TypeOK
  BY TypeInit
<1>2. TypeOK /\ [Next]_vars => TypeOK'
  BY TypeStep
<1> QED
  BY <1>1, <1>2, PTL DEF Spec
-----------------------------------------------------------------------------
(* Taking turns.                                                           *)

(* A command that starts leaves the debugger and the child in turn.        *)
LEMMA TurnsUser == TypeOK /\ TakesTurns /\ User => TakesTurns'
<1> SUFFICES ASSUME TypeOK, TakesTurns, User PROVE TakesTurns'
  OBVIOUS
<1>1. ASSUME NEW r, Refuse(r) PROVE TakesTurns'
  BY <1>1 DEF Refuse, Prompt, Done, debuggee, TakesTurns
<1>2. ASSUME NEW a, handle_breakpoint_enable(a) \/ handle_breakpoint_disable(a) PROVE TakesTurns'
  BY <1>1, <1>2 DEF handle_breakpoint_enable, handle_breakpoint_disable, Prompt, Done, debuggee,
                    TakesTurns
<1>3. CASE handle_continue
  BY <1>1, <1>3 DEF handle_continue, Start, Prompt, Traced, StepOverAndContinue, StepOver, TakesTurns
<1>4. ASSUME NEW n, handle_step(n) PROVE TakesTurns'
  BY <1>1, <1>4 DEF handle_step, Start, Prompt, Traced, StepTurn, StepOver, TakesTurns
<1>5. CASE step_out
  BY <1>1, <1>5 DEF step_out, StepOutBody, Prompt, Traced, Done, StepOverAndContinue, StepOver,
                    TakesTurns
<1>6. CASE step_in
  BY <1>1, <1>6 DEF step_in, Start, Prompt, Traced, debuggee, TakesTurns
<1>7. ASSUME NEW v, handle_register_write_rip(v) PROVE TakesTurns'
  BY <1>7 DEF handle_register_write_rip, Prompt, Done, TakesTurns
<1>8. CASE Exit
  BY <1>8 DEF Exit, Prompt, Traced, TakesTurns
<1> QED
  BY <1>2, <1>3, <1>4, <1>5, <1>6, <1>7, <1>8 DEF User

(* So does every further step of a handler.                                *)
LEMMA TurnsHandler == TypeOK /\ TakesTurns /\ Handler => TakesTurns'
<1> SUFFICES ASSUME TypeOK, TakesTurns, Handler PROVE TakesTurns'
  OBVIOUS
<1>1. CASE Arm
  BY <1>1 DEF Arm, Done, debuggee, TakesTurns
<1>2. CASE Armed
  BY <1>2 DEF Armed, Traced, StepOutBody, Done, StepOverAndContinue, StepOver, TakesTurns
<1>3. CASE WaitFails
  BY <1>3 DEF WaitFails, Waiting, Traced, Done, TakesTurns
<1>4. CASE WaitOver
  BY <1>4 DEF WaitOver, Rearmed, Trapped, Waiting, Traced, StepTurn, StepOver, Done, TakesTurns
<1>5. CASE WaitStep
  BY <1>5 DEF WaitStep, Trapped, Waiting, Traced, StepTurn, StepOver, Done, TakesTurns
<1>6. CASE WaitRun
  BY <1>6 DEF WaitRun, Released, Trapped, Waiting, Traced, Done, TakesTurns
<1> QED
  BY <1>1, <1>2, <1>3, <1>4, <1>5, <1>6 DEF Handler

(* And every step of the session.                                          *)
LEMMA TurnsStep == TypeOK /\ TakesTurns /\ [Next]_vars => TakesTurns'
<1> SUFFICES ASSUME TypeOK, TakesTurns, [Next]_vars PROVE TakesTurns'
  OBVIOUS
<1>1. CASE Execute \/ Signal \/ Kill
  BY <1>1 DEF Execute, Signal, Kill, Stop, TakesTurns, TypeOK
<1>2. CASE UNCHANGED vars
  BY <1>2 DEF vars, debuggee, TakesTurns
<1> QED
  BY <1>1, <1>2, TurnsUser, TurnsHandler DEF Next, Closed

(* The debugger never blocks in waitpid on a child that nobody resumed,    *)
(* and never prompts or writes text while the child runs, whatever the     *)
(* user types and whichever signals arrive.                                *)
THEOREM TurnsCorrect == Spec => []TakesTurns
<1>1. Init => TakesTurns
  BY DEF Init, TakesTurns
<1>2. TypeOK /\ TakesTurns /\ [Next]_vars => TakesTurns'
  BY TurnsStep
<1> QED
  BY <1>1, <1>2, TypeCorrect, PTL DEF Spec
=============================================================================
