------------------------ MODULE SessionSafetyProofs -------------------------
(***************************************************************************)
(* IInv is an invariant of every disciplined session, the safety           *)
(* properties of the text follow from it, and so does that the session     *)
(* implements Undebugged.  LooseInv is an invariant of every uncrowded     *)
(* session, in which lines may be a few bytes apart, and where finish and  *)
(* next stop follows from that.                                            *)
(***************************************************************************)
EXTENDS SessionProofs

Inv == TextInv /\ TableInv /\ OverInv /\ RetInv /\ PlaceInv /\ ControlInv
-----------------------------------------------------------------------------
(* Text and records in a disciplined session.                              *)

(* What the lookup of step_over_breakpoint and step_out returns.           *)
LEMMA LookupInv ==
  ASSUME TypeOK, TableInv, NEW p \in Int
  PROVE  LET b == get_breakpoint_at_addr(bps, p) IN
           /\ b \in Breakpoint
           /\ b.mem_addr = p
           /\ b.enabled <=> p \in DOMAIN bps
           /\ p \in DOMAIN bps => \A i \in 0 .. WordSize - 1 : b.saved_data[i] = "code"
<1>1. bps \in [DOMAIN bps -> Breakpoint]
  BY DEF TypeOK
<1>2. CASE p \in DOMAIN bps
  BY <1>1, <1>2, Lookup DEF TypeOK, TableInv
<1>3. CASE p \notin DOMAIN bps
  BY <1>1, <1>3, Lookup DEF make_breakpoint
<1> QED
  BY <1>2, <1>3

(* Writing back a saved word changes one byte only, when the rest of the   *)
(* word is the program's own in the record and in the text.                *)
LEMMA WriteBack ==
  ASSUME NEW m \in [Mem -> Byte], NEW b \in Breakpoint,
         \A i \in 0 .. WordSize - 1 : i # 0 => b.saved_data[i] = "code",
         \A x \in Mem : b.mem_addr < x /\ x < b.mem_addr + WordSize => m[x] = "code"
  PROVE  disable_breakpoint(m, b)
           = [x \in Mem |-> IF x = b.mem_addr THEN b.saved_data[0] ELSE m[x]]
<1> DEFINE a == b.mem_addr
           w == b.saved_data
<1>1. a \in Int
  BY DEF Breakpoint
<1>2. disable_breakpoint(m, b)
        = [x \in Mem |-> IF x \in a .. a + WordSize - 1 THEN w[x - a] ELSE m[x]]
  BY DEF disable_breakpoint, Poke
<1>3. ASSUME NEW x \in Mem
      PROVE  (IF x \in a .. a + WordSize - 1 THEN w[x - a] ELSE m[x])
               = IF x = a THEN w[0] ELSE m[x]
  <2>1. x \in Int
    BY MemAssumption DEF Mem
  <2>2. CASE x = a
    BY <1>1, <2>2, WordAssumption
  <2>3. CASE x # a /\ x \in a .. a + WordSize - 1
    <3>1. x - a \in 0 .. WordSize - 1 /\ x - a # 0 /\ a < x /\ x < a + WordSize
      BY <1>1, <2>1, <2>3, WordAssumption
    <3> QED
      BY <2>3, <3>1
  <2>4. CASE x # a /\ x \notin a .. a + WordSize - 1
    BY <2>4
  <2> QED
    BY <2>2, <2>3, <2>4
<1> HIDE DEF a, w
<1> QED
  BY <1>2, <1>3 DEF a, w

(* Every address the debugger writes at is an integer.                     *)
LEMMA AddressesInt == Addresses \subseteq Int
BY AddressTypes, LayoutAssumption DEF Addresses

(* int3 is only ever meant to be at addresses that are spaced out, and at  *)
(* the first byte of an instruction.                                       *)
LEMMA PlantedPlaces ==
  ASSUME Disciplined, TypeOK, TableInv, RetInv, NEW x \in Planted, x # -1
  PROVE  x \in Addresses /\ x \in Insns
<1>1. CASE x \in DOMAIN bps
  BY <1>1 DEF Disciplined, TypeOK, TableInv, Addresses
<1>2. CASE x = ret.mem_addr
  BY <1>2, LayoutAssumption DEF RetInv, Addresses
<1> QED
  BY <1>1, <1>2 DEF Planted

(* The rest of the word at a breakpoint is the program's own.              *)
LEMMA CleanTail ==
  ASSUME Disciplined, TypeOK, TextInv, TableInv, RetInv, NEW a \in Addresses,
         NEW x \in Mem, a < x, x < a + WordSize
  PROVE  mem[x] = "code"
<1>1. x \in Int /\ a \in Int /\ x # -1
  BY AddressesInt, MemAssumption DEF Mem
<1>2. x \notin Addresses
  BY <1>1, WordAssumption DEF Disciplined
<1>3. x \notin Planted
  BY <1>1, <1>2, PlantedPlaces
<1> QED
  BY <1>3 DEF TextInv, Interrupted

(* In the word at a breakpoint address only the first byte can be an int3. *)
LEMMA CleanWord ==
  ASSUME Disciplined, TypeOK, TextInv, TableInv, RetInv, NEW a \in Addresses, Mapped(a),
         NEW i \in 0 .. WordSize - 1
  PROVE  Peek(mem, a)[i] = IF i = 0 THEN mem[a] ELSE "code"
<1>1. a \in Int /\ a + i \in Mem
  BY AddressesInt, MemAssumption, WordAssumption DEF Mapped, Mem
<1>2. i # 0 => a < a + i /\ a + i < a + WordSize
  BY <1>1, WordAssumption
<1>3. Peek(mem, a)[i] = mem[a + i]
  BY DEF Peek
<1>4. i = 0 => a + i = a
  BY <1>1
<1> QED
  BY <1>1, <1>2, <1>3, <1>4, CleanTail

(* A child that runs has an int3 or its own instruction before it.         *)
LEMMA OwnText ==
  ASSUME Disciplined, IInv, Live, at # "idle", sig # "trap"
  PROVE  /\ pc \in Insns /\ pc \in Mem
         /\ pc \in Planted => mem[pc] = "int3"
         /\ pc \notin Planted => mem[pc] = "code" /\ Intact(mem, pc)
<1>1. TypeOK /\ TextInv /\ TableInv /\ RetInv /\ pc \in Insns /\ pc \in Mem
  BY AddressTypes DEF IInv, PlaceInv, NextInsn
<1>2. \A x \in Mem : mem[x] = IF x \in Planted THEN "int3" ELSE "code"
  BY <1>1 DEF TextInv, Interrupted
<1>3. ASSUME pc \notin Planted PROVE Intact(mem, pc)
  <2>1. Program[pc].len \in Nat \ {0} /\ pc + Program[pc].len <= MemSize /\ pc \in Int
    BY <1>1, ProgramAssumption, AddressTypes
  <2>2. ASSUME NEW x \in pc .. pc + Program[pc].len - 1 PROVE mem[x] = "code"
    <3>1. x \in Mem /\ x \in Int /\ x # -1
      BY <1>1, <2>1, MemAssumption DEF Mem
    <3>2. x \notin Planted
      <4>1. CASE x = pc
        BY <4>1, <1>3
      <4>2. CASE x # pc
        <5>1. pc < x /\ x < pc + Program[pc].len
          BY <2>1, <4>2, <3>1
        <5>2. x \notin Insns
          BY <1>1, <2>1, <3>1, <5>1, LayoutAssumption
        <5> QED
          BY <1>1, <3>1, <5>2, PlantedPlaces
      <4> QED
        BY <4>1, <4>2
    <3> QED
      BY <1>2, <3>1, <3>2
  <2> QED
    BY <1>1, <2>2 DEF Intact
<1> QED
  BY <1>1, <1>2, <1>3
-----------------------------------------------------------------------------
(* The pieces of the handlers.                                             *)

(* What a handler's return leaves behind.                                  *)
LEMMA DoneFacts ==
  ASSUME NEW r, Done(r)
  PROVE  at' = "idle" /\ cmd' = "none" /\ ret'.mem_addr = -1
BY DEF Done, NoBreakpoint, make_breakpoint

(* At the prompt and in step_in's first loop step_out has no breakpoint.   *)
LEMMA NoRet ==
  ASSUME RetInv, at \in {"idle", "arm", "step"} PROVE ret.mem_addr = -1
BY DEF RetInv

(* Stepping over the breakpoint at p writes the program's byte there.      *)
LEMMA StepOverText ==
  ASSUME Disciplined, TypeOK, TableInv, NEW m \in [Mem -> Byte], NEW p \in DOMAIN bps,
         \A x \in Mem : p < x /\ x < p + WordSize => m[x] = "code",
         StepOver(m, get_breakpoint_at_addr(bps, p))
  PROVE  /\ mem' = [x \in Mem |-> IF x = p THEN "code" ELSE m[x]]
         /\ over'.mem_addr = p
         /\ at' = "over"
         /\ run' = "stepping"
<1> DEFINE b == get_breakpoint_at_addr(bps, p)
<1>1. p \in Int
  BY AddressTypes DEF TypeOK
<1>2. /\ b \in Breakpoint /\ b.mem_addr = p
      /\ \A i \in 0 .. WordSize - 1 : b.saved_data[i] = "code"
  BY <1>1, LookupInv
<1>3. 0 \in 0 .. WordSize - 1
  BY WordAssumption
<1>4. mem' = disable_breakpoint(m, b) /\ over' = b /\ at' = "over" /\ run' = "stepping"
  BY DEF StepOver
<1> HIDE DEF b
<1> QED
  BY <1>2, <1>3, <1>4, WriteBack

(* A breakpoint of the table is an address that is spaced out.             *)
LEMMA TableAddress ==
  ASSUME TypeOK, NEW p \in DOMAIN bps PROVE p \in Addresses /\ p \in Int
BY AddressTypes DEF TypeOK, Addresses

(* The table's addresses are mapped.                                       *)
LEMMA TableMem ==
  ASSUME TableInv, NEW p \in DOMAIN bps PROVE p \in Mem
BY DEF TableInv, Mapped
-----------------------------------------------------------------------------
(* One lemma per action.                                                   *)

(* A handler that returns without having touched the child or the table.  *)
LEMMA QuietDone ==
  ASSUME IInv, Live, at \in {"idle", "arm"}, NEW r, Done(r),
         UNCHANGED <<mem, pc, stack, run, sig, nsig, bps>>
  PROVE  Inv'
<1>1. Inv /\ ret.mem_addr = -1 /\ ret'.mem_addr = -1 /\ at' = "idle" /\ cmd' = "none"
  BY DoneFacts, NoRet DEF IInv, Inv
<1>2. Planted' = Planted
  BY <1>1 DEF Planted
<1>3. TextInv' /\ TableInv' /\ PlaceInv'
  BY <1>1, <1>2 DEF Inv, TextInv, Interrupted, TableInv, PlaceInv, NextInsn
<1>4. OverInv' /\ RetInv' /\ ControlInv'
  BY <1>1 DEF Inv, OverInv, RetInv, ControlInv
<1> QED
  BY <1>3, <1>4 DEF Inv

(* A refused command preserves the invariant.                              *)
LEMMA RefuseInv ==
  ASSUME IInv, Live, NEW r, Refuse(r) PROVE Inv'
BY QuietDone DEF Refuse, Prompt, debuggee

(* break enable preserves the invariant.                                   *)
LEMMA EnableInv ==
  ASSUME Disciplined, IInv, Live, NEW a \in EnableSites, handle_breakpoint_enable(a)
  PROVE  Inv'
<1> DEFINE b == get_breakpoint_at_addr(bps, a)
<1>1. CASE Refuse("err")
  BY <1>1, RefuseInv
<1>2. CASE /\ Prompt /\ Traced /\ Mapped(a)
           /\ mem' = armed_text(mem, b)
           /\ bps' = save_breakpoint(bps, enabled_record(mem, b))
           /\ Done("OK")
           /\ UNCHANGED debuggee
  <2>1. a \in Sites /\ a \notin DOMAIN bps /\ a \in Addresses /\ a \in Int /\ a \in Mem
    BY <1>2, SitesAssumption DEF EnableSites, Disciplined, Addresses, Mapped
  <2>2. TypeOK /\ Inv /\ at = "idle" /\ ret.mem_addr = -1
    BY <1>2, NoRet DEF IInv, Inv, Prompt
  <2>3. at' = "idle" /\ cmd' = "none" /\ ret'.mem_addr = -1 /\ UNCHANGED <<pc, stack, run, sig, nsig>>
    BY <1>2, DoneFacts DEF debuggee
  <2>4. b \in Breakpoint /\ b.mem_addr = a
    BY <2>1, <2>2, LookupInv DEF Inv
  <2>5. mem' = [x \in Mem |-> IF x = a THEN "int3" ELSE mem[x]]
    BY <1>2, <2>2, <2>4, ArmedText DEF TypeOK
  <2>6. DOMAIN bps' = DOMAIN bps \cup {a}
        /\ bps'[a] = enabled_record(mem, b)
        /\ \A c \in DOMAIN bps : bps'[c] = bps[c]
    <3>1. enabled_record(mem, b).mem_addr = a
      BY <1>2, <2>2, <2>4, EnabledType DEF TypeOK
    <3> HIDE DEF b
    <3> QED
      BY <1>2, <2>1, <3>1 DEF save_breakpoint
  <2>7. mem[a] = "code"
    <3>1. a # -1
      BY <2>1, MemAssumption DEF Mem
    <3> QED
      BY <2>1, <2>2, <3>1 DEF Inv, TextInv, Planted, Interrupted
  <2>8. enabled_record(mem, b).enabled
        /\ enabled_record(mem, b).saved_data = Peek(mem, a)
    BY <2>4 DEF enabled_record, Breakpoint
  <2>9. \A i \in 0 .. WordSize - 1 : enabled_record(mem, b).saved_data[i] = "code"
    BY <1>2, <2>1, <2>2, <2>7, <2>8, CleanWord DEF Inv
  <2>10. TableInv'
    BY <1>2, <2>2, <2>6, <2>8, <2>9 DEF Inv, TableInv
  <2>11. Planted' = Planted \cup {a}
    BY <2>1, <2>2, <2>3, <2>6 DEF Planted
  <2>12. TextInv'
    BY <2>2, <2>3, <2>5, <2>6, <2>11 DEF Inv, TextInv, Interrupted
  <2>13. PlaceInv'
    BY <2>2, <2>3, <2>11 DEF Inv, PlaceInv, NextInsn
  <2>14. OverInv' /\ RetInv' /\ ControlInv'
    BY <2>2, <2>3 DEF Inv, OverInv, RetInv, ControlInv
  <2> QED
    BY <2>10, <2>12, <2>13, <2>14 DEF Inv
<1> QED
  BY <1>1, <1>2 DEF handle_breakpoint_enable

(* break disable preserves the invariant.                                  *)
LEMMA DisableInv ==
  ASSUME Disciplined, IInv, Live, NEW a \in DisableSites, handle_breakpoint_disable(a)
  PROVE  Inv'
<1> DEFINE b == get_breakpoint_at_addr(bps, a)
<1>1. CASE Refuse("err")
  BY <1>1, RefuseInv
<1>2. CASE /\ Prompt /\ Traced /\ Mapped(a)
           /\ mem' = disable_breakpoint(mem, b)
           /\ bps' = delete_breakpoint(bps, b)
           /\ Done("OK")
           /\ UNCHANGED debuggee
  <2>1. a \in DOMAIN bps
    BY DEF DisableSites, Disciplined
  <2>2. TypeOK /\ Inv /\ at = "idle" /\ ret.mem_addr = -1 /\ a \in Addresses /\ a \in Int /\ sig = "none"
    BY <1>2, <2>1, NoRet, TableAddress DEF IInv, Inv, Prompt, TakesTurns, Traced
  <2>3. at' = "idle" /\ cmd' = "none" /\ ret'.mem_addr = -1 /\ UNCHANGED <<pc, stack, run, sig, nsig>>
    BY <1>2, DoneFacts DEF debuggee
  <2>4. /\ b \in Breakpoint /\ b.mem_addr = a
        /\ \A i \in 0 .. WordSize - 1 : b.saved_data[i] = "code"
    BY <2>1, <2>2, LookupInv DEF Inv
  <2>5. \A x \in Mem : a < x /\ x < a + WordSize => mem[x] = "code"
    BY <2>2, CleanTail DEF Inv
  <2>6. mem' = [x \in Mem |-> IF x = a THEN "code" ELSE mem[x]]
    <3>1. mem \in [Mem -> Byte] /\ 0 \in 0 .. WordSize - 1
      BY <2>2, WordAssumption DEF TypeOK
    <3> HIDE DEF b
    <3> QED
      BY <1>2, <2>4, <2>5, <3>1, WriteBack
  <2>7. DOMAIN bps' = DOMAIN bps \ {a} /\ \A c \in DOMAIN bps' : bps'[c] = bps[c]
    BY <1>2, <2>4 DEF delete_breakpoint
  <2>8. TableInv'
    BY <2>2, <2>7 DEF Inv, TableInv
  <2>9. Planted' = Planted \ {a}
    BY <2>2, <2>3, <2>7, AddressTypes, TableMem, <2>1, MemAssumption DEF Planted, Mem, Inv
  <2>10. TextInv'
    BY <2>2, <2>3, <2>6, <2>7, <2>9 DEF Inv, TextInv, Interrupted
  <2>11. PlaceInv'
    BY <2>2, <2>3 DEF Inv, PlaceInv, NextInsn
  <2>12. OverInv' /\ RetInv' /\ ControlInv'
    BY <2>2, <2>3 DEF Inv, OverInv, RetInv, ControlInv
  <2> QED
    BY <2>8, <2>10, <2>11, <2>12 DEF Inv
<1> QED
  BY <1>1, <1>2 DEF handle_breakpoint_disable

(* Stepping over the breakpoint at p in a text m that has int3 at P, save  *)
(* perhaps at p itself.                                                    *)
LEMMA OverText ==
  ASSUME Disciplined, TypeOK, TableInv, NEW p \in DOMAIN bps, NEW P, NEW m \in [Mem -> Byte],
         \A x \in P \cap Mem : x \in Addresses,
         \A x \in Mem : m[x] = (IF x \in P THEN "int3" ELSE "code") \/ x = p,
         StepOver(m, get_breakpoint_at_addr(bps, p))
  PROVE  /\ over'.mem_addr = p
         /\ at' = "over" /\ run' = "stepping"
         /\ \A x \in Mem : mem'[x] = IF x \in P \ {p} THEN "int3" ELSE "code"
<1>1. p \in Addresses /\ p \in Int
  BY TableAddress
<1>2. ASSUME NEW x \in Mem, p < x, x < p + WordSize PROVE m[x] = "code"
  <2>1. x \in Int /\ x # p
    BY <1>1, <1>2, MemAssumption DEF Mem
  <2>2. x \notin Addresses
    BY <1>1, <1>2, <2>1, WordAssumption, AddressesInt DEF Disciplined
  <2> QED
    BY <2>1, <2>2
<1>3. /\ mem' = [x \in Mem |-> IF x = p THEN "code" ELSE m[x]]
      /\ over'.mem_addr = p /\ at' = "over" /\ run' = "stepping"
  BY <1>2, StepOverText
<1> QED
  BY <1>3

(* The common end of continue and finish.                                  *)
LEMMA ResumeText ==
  ASSUME Disciplined, TypeOK, TableInv, pc \in Int, NEW P, NEW m \in [Mem -> Byte],
         \A x \in P \cap Mem : x \in Addresses,
         \A x \in Mem : m[x] = (IF x \in P THEN "int3" ELSE "code") \/ (x = pc /\ x \in DOMAIN bps),
         StepOverAndContinue(m)
  PROVE  \/ /\ pc \in DOMAIN bps
            /\ over'.mem_addr = pc
            /\ at' = "over" /\ run' = "stepping"
            /\ \A x \in Mem : mem'[x] = IF x \in P \ {pc} THEN "int3" ELSE "code"
         \/ /\ pc \notin DOMAIN bps
            /\ at' = "run" /\ run' = "running"
            /\ \A x \in Mem : mem'[x] = IF x \in P THEN "int3" ELSE "code"
<1>1. get_breakpoint_at_addr(bps, pc).enabled <=> pc \in DOMAIN bps
  BY LookupInv
<1>2. CASE pc \in DOMAIN bps
  <2>1. StepOver(m, get_breakpoint_at_addr(bps, pc))
    BY <1>1, <1>2 DEF StepOverAndContinue
  <2> QED
    BY <1>2, <2>1, OverText
<1>3. CASE pc \notin DOMAIN bps
  BY <1>1, <1>3 DEF StepOverAndContinue
<1> QED
  BY <1>2, <1>3

(* One turn of handle_step's loop.                                         *)
LEMMA TurnText ==
  ASSUME Disciplined, TypeOK, TableInv, NEW p \in Int, NEW n, NEW P, NEW m \in [Mem -> Byte],
         \A x \in P \cap Mem : x \in Addresses,
         \A x \in Mem : m[x] = (IF x \in P THEN "int3" ELSE "code") \/ (x = p /\ x \in DOMAIN bps),
         StepTurn(m, p, n)
  PROVE  \/ /\ p \in DOMAIN bps
            /\ over'.mem_addr = p
            /\ at' = "over" /\ run' = "stepping"
            /\ \A x \in Mem : mem'[x] = IF x \in P \ {p} THEN "int3" ELSE "code"
         \/ /\ p \notin DOMAIN bps
            /\ at' = "step" /\ run' = "stepping"
            /\ \A x \in Mem : mem'[x] = IF x \in P THEN "int3" ELSE "code"
<1>1. get_breakpoint_at_addr(bps, p).enabled <=> p \in DOMAIN bps
  BY LookupInv
<1>2. CASE p \in DOMAIN bps
  <2>1. StepOver(m, get_breakpoint_at_addr(bps, p))
    BY <1>1, <1>2 DEF StepTurn
  <2> QED
    BY <1>2, <2>1, OverText
<1>3. CASE p \notin DOMAIN bps
  BY <1>1, <1>3 DEF StepTurn
<1> QED
  BY <1>2, <1>3

(* continue preserves the invariant.                                       *)
LEMMA ContinueInv ==
  ASSUME Disciplined, IInv, Live, handle_continue
  PROVE  Inv'
<1>1. CASE Refuse("err")
  BY <1>1, RefuseInv
<1>2. CASE /\ Traced
           /\ Start("continue")
           /\ StepOverAndContinue(mem)
           /\ UNCHANGED <<pc, stack, sig, nsig, bps, ret, times, line, high, res>>
  <2>1. /\ TypeOK /\ Inv /\ at = "idle" /\ sig = "none" /\ ret.mem_addr = -1
        /\ cmd' = "continue" /\ UNCHANGED <<pc, stack, sig, nsig, bps, ret>>
    BY <1>2, NoRet DEF IInv, Inv, Start, Prompt, TakesTurns, Traced
  <2>2. /\ mem \in [Mem -> Byte] /\ pc \in Int
        /\ \A x \in Planted \cap Mem : x \in Addresses
        /\ \A x \in Mem : \/ mem[x] = (IF x \in Planted THEN "int3" ELSE "code")
                          \/ (x = pc /\ x \in DOMAIN bps)
    <3>1. -1 \notin Mem
      BY MemAssumption DEF Mem
    <3> QED
      BY <2>1, <3>1, PlantedPlaces DEF Inv, TypeOK, TextInv, Interrupted
  <2>3. \/ /\ pc \in DOMAIN bps
           /\ over'.mem_addr = pc
           /\ at' = "over" /\ run' = "stepping"
           /\ \A x \in Mem : mem'[x] = IF x \in Planted \ {pc} THEN "int3" ELSE "code"
        \/ /\ pc \notin DOMAIN bps
           /\ at' = "run" /\ run' = "running"
           /\ \A x \in Mem : mem'[x] = IF x \in Planted THEN "int3" ELSE "code"
    <3> HIDE DEF Planted
    <3> QED
      BY <1>2, <2>1, <2>2, ResumeText DEF Inv
  <2>4. Planted' = IF at' = "over" THEN Planted \ {pc} ELSE Planted
    BY <2>1, <2>3 DEF Planted
  <2>5. TextInv'
    BY <2>3, <2>4 DEF TextInv
  <2>6. TableInv' /\ OverInv' /\ RetInv' /\ ControlInv'
    BY <2>1, <2>3 DEF Inv, TableInv, OverInv, RetInv, ControlInv
  <2>7. PlaceInv'
    BY <2>1 DEF Inv, PlaceInv, NextInsn
  <2> QED
    BY <2>5, <2>6, <2>7 DEF Inv
<1> QED
  BY <1>1, <1>2 DEF handle_continue

(* After a turn of handle_step's loop at p.                                *)
LEMMA TurnInv ==
  ASSUME Disciplined, IInv, Live, NEW p \in Insns, NEW n, NEW P, NEW m \in [Mem -> Byte],
         P \cap Mem = DOMAIN bps \cap Mem,
         \A x \in Mem : m[x] = (IF x \in P THEN "int3" ELSE "code") \/ (x = p /\ x \in DOMAIN bps),
         StepTurn(m, p, n), cmd' = "step", pc' = p, sig' = "none",
         ret.mem_addr = -1, UNCHANGED <<stack, nsig, bps, ret>>
  PROVE  Inv'
<1>1. TypeOK /\ Inv /\ p \in Int
  BY AddressTypes DEF IInv, Inv
<1>2. \A x \in P \cap Mem : x \in Addresses
  BY <1>1, TableAddress
<1>3. \/ /\ p \in DOMAIN bps
         /\ over'.mem_addr = p
         /\ at' = "over" /\ run' = "stepping"
         /\ \A x \in Mem : mem'[x] = IF x \in P \ {p} THEN "int3" ELSE "code"
      \/ /\ p \notin DOMAIN bps
         /\ at' = "step" /\ run' = "stepping"
         /\ \A x \in Mem : mem'[x] = IF x \in P THEN "int3" ELSE "code"
  BY <1>1, <1>2, TurnText DEF Inv
<1>4. -1 \notin Mem
  BY MemAssumption DEF Mem
<1>5. \A x \in Mem : x \in Planted' <=> x \in P \ (IF at' = "over" THEN {p} ELSE {})
  BY <1>3, <1>4 DEF Planted
<1>6. TextInv'
  BY <1>3, <1>5 DEF TextInv
<1>7. TableInv' /\ OverInv' /\ RetInv' /\ ControlInv'
  BY <1>1, <1>3 DEF Inv, TableInv, OverInv, RetInv, ControlInv
<1>8. PlaceInv'
  BY <1>1 DEF Inv, PlaceInv, NextInsn
<1> QED
  BY <1>6, <1>7, <1>8 DEF Inv

(* step preserves the invariant.                                           *)
LEMMA StepInv ==
  ASSUME Disciplined, IInv, Live, NEW n, handle_step(n)
  PROVE  Inv'
<1>1. CASE Refuse("OK") \/ Refuse("err")
  BY <1>1, RefuseInv
<1>2. CASE /\ Traced
           /\ Start("step")
           /\ StepTurn(mem, pc, n)
           /\ UNCHANGED <<pc, stack, sig, nsig, bps, ret, line, high, res>>
  <2>1. /\ TypeOK /\ Inv /\ at = "idle" /\ sig = "none" /\ ret.mem_addr = -1
        /\ cmd' = "step" /\ UNCHANGED <<pc, stack, sig, nsig, bps, ret>>
    BY <1>2, NoRet DEF IInv, Inv, Start, Prompt, TakesTurns, Traced
  <2>2. pc \in Insns /\ mem \in [Mem -> Byte]
    BY <2>1 DEF Inv, PlaceInv, NextInsn, TypeOK
  <2>3. Planted \cap Mem = DOMAIN bps \cap Mem
    BY <2>1, MemAssumption DEF Planted, Mem
  <2>4. \A x \in Mem : \/ mem[x] = (IF x \in Planted THEN "int3" ELSE "code")
                       \/ (x = pc /\ x \in DOMAIN bps)
    BY <2>1 DEF Inv, TextInv, Interrupted
  <2> HIDE DEF Planted
  <2> QED
    BY <1>2, <2>1, <2>2, <2>3, <2>4, TurnInv
<1> QED
  BY <1>1, <1>2 DEF handle_step

(* step_out, for finish and for next.                                      *)
LEMMA StepOutInv ==
  ASSUME Disciplined, IInv, Live, Traced, at \in {"idle", "arm"}, MaxSignals = 0,
         NEW c \in {"finish", "next"}, NEW o, StepOutBody(c, o),
         UNCHANGED <<pc, stack, sig, nsig, bps>>
  PROVE  Inv'
<1> DEFINE R == Head(stack)
           b == get_breakpoint_at_addr(bps, R)
           P == DOMAIN bps \cup {R}
<1>1. TypeOK /\ Inv /\ sig = "none" /\ ret.mem_addr = -1 /\ nsig = 0
  BY NoRet DEF IInv, Inv, TakesTurns, Traced, TypeOK
<1>2. CASE (Done("err") \/ Done("OK")) /\ UNCHANGED <<mem, run>>
  BY <1>2, QuietDone
<1>3. CASE /\ stack # <<>>
           /\ Mapped(b.mem_addr)
           /\ ret' = enabled_record(mem, b)
           /\ StepOverAndContinue(armed_text(mem, b))
           /\ cmd' = c
  <2>1. R \in ReturnSites /\ R \in Addresses /\ R \in Int
    BY <1>1, <1>3, AddressesInt DEF Inv, PlaceInv, Addresses
  <2>2. b \in Breakpoint /\ b.mem_addr = R
    BY <1>1, <2>1, LookupInv DEF Inv
  <2>3. Mapped(R) /\ R \in Mem /\ -1 \notin Mem /\ mem \in [Mem -> Byte] /\ pc \in Int
    BY <1>1, <1>3, <2>2, MemAssumption DEF Mapped, Mem, TypeOK
  <2>4. armed_text(mem, b) = [x \in Mem |-> IF x = R THEN "int3" ELSE mem[x]]
    BY <2>2, <2>3, ArmedText
  <2>5. \A x \in Mem : x \in Planted <=> x \in DOMAIN bps
    BY <1>1, <2>3 DEF Planted
  <2>6. \A x \in Mem : mem[x] = IF x \in DOMAIN bps THEN "int3" ELSE "code"
    BY <1>1, <2>5 DEF Inv, TextInv, Interrupted
  <2>7. /\ ret'.mem_addr = R
        /\ \A i \in 0 .. WordSize - 1 :
             ret'.saved_data[i] = IF i = 0 /\ R \in DOMAIN bps THEN "int3" ELSE "code"
    <3>1. ret'.mem_addr = R /\ ret'.saved_data = Peek(mem, R)
      BY <1>3, <2>2 DEF enabled_record, Breakpoint
    <3>2. ASSUME NEW i \in 0 .. WordSize - 1
          PROVE  Peek(mem, R)[i] = IF i = 0 THEN mem[R] ELSE "code"
      BY <1>1, <2>1, <2>3, CleanWord DEF Inv
    <3> QED
      BY <2>3, <2>6, <3>1, <3>2
  <2>8. \A x \in P \cap Mem : x \in Addresses
    BY <1>1, <2>1, TableAddress
  <2>9. \/ /\ pc \in DOMAIN bps
           /\ over'.mem_addr = pc
           /\ at' = "over" /\ run' = "stepping"
           /\ \A x \in Mem : mem'[x] = IF x \in P \ {pc} THEN "int3" ELSE "code"
        \/ /\ pc \notin DOMAIN bps
           /\ at' = "run" /\ run' = "running"
           /\ \A x \in Mem : mem'[x] = IF x \in P THEN "int3" ELSE "code"
    <3> DEFINE m == armed_text(mem, b)
    <3>1. m \in [Mem -> Byte]
      BY <2>2, <2>3, ArmedTextType
    <3>2. \A x \in Mem : m[x] = IF x \in P THEN "int3" ELSE "code"
      BY <2>4, <2>6
    <3>3. StepOverAndContinue(m)
      BY <1>3
    <3> HIDE DEF m, P
    <3> QED
      BY <1>1, <2>3, <2>8, <3>1, <3>2, <3>3, ResumeText DEF Inv
  <2>10. Planted' = P \ (IF at' = "over" THEN {pc} ELSE {})
    BY <2>7, <2>9 DEF Planted
  <2> HIDE DEF R, b, P
  <2>11. TextInv'
    BY <2>9, <2>10 DEF TextInv
  <2>12. TableInv' /\ OverInv' /\ ControlInv'
    BY <1>1, <1>3, <2>9 DEF Inv, TableInv, OverInv, ControlInv
  <2>13. RetInv'
    BY <1>3, <2>1, <2>3, <2>7, <2>9 DEF RetInv
  <2>14. PlaceInv'
    BY <1>1 DEF Inv, PlaceInv, NextInsn
  <2> QED
    BY <2>11, <2>12, <2>13, <2>14 DEF Inv
<1> QED
  BY <1>2, <1>3 DEF StepOutBody

(* finish preserves the invariant.                                         *)
LEMMA FinishInv ==
  ASSUME Disciplined, IInv, Live, "finish" \in Inputs, step_out
  PROVE  Inv'
<1>1. MaxSignals = 0
  BY DEF Disciplined
<1>2. CASE Refuse("err")
  BY <1>2, RefuseInv
<1>3. CASE /\ Traced /\ Prompt /\ StepOutBody("finish", Here)
           /\ UNCHANGED <<pc, stack, sig, nsig, bps>>
  BY <1>1, <1>3, StepOutInv DEF Prompt
<1> QED
  BY <1>2, <1>3 DEF step_out

(* next, up to its first loop, preserves the invariant.                    *)
LEMMA NextInv ==
  ASSUME Disciplined, IInv, Live, "next" \in Inputs, step_in
  PROVE  Inv'
<1>1. MaxSignals = 0
  BY DEF Disciplined
<1>2. CASE Refuse("err")
  BY <1>2, RefuseInv
<1>3. CASE /\ Start("next")
           /\ at' = "arm"
           /\ UNCHANGED <<mem, debuggee, bps, over, ret, times, res>>
  <2>1. /\ Inv /\ at = "idle" /\ ret.mem_addr = -1 /\ nsig = 0 /\ cmd' = "next"
        /\ UNCHANGED <<mem, pc, stack, run, sig, nsig, bps, ret>>
    BY <1>1, <1>3, NoRet DEF IInv, Inv, Start, Prompt, debuggee, TypeOK
  <2>2. Planted' = Planted
    BY <1>3, <2>1 DEF Planted
  <2>3. TextInv' /\ TableInv' /\ PlaceInv'
    BY <2>1, <2>2 DEF Inv, TextInv, Interrupted, TableInv, PlaceInv, NextInsn
  <2>4. OverInv' /\ RetInv' /\ ControlInv'
    BY <1>1, <1>3, <2>1 DEF Inv, OverInv, RetInv, ControlInv
  <2> QED
    BY <2>3, <2>4 DEF Inv
<1> QED
  BY <1>2, <1>3 DEF step_in

(* reg write preserves the invariant.                                      *)
LEMMA SetRipInv ==
  ASSUME Disciplined, IInv, Live, "setpc" \in Inputs, NEW v \in RipValues,
         handle_register_write_rip(v)
  PROVE  Inv'
<1>1. MaxSignals = 0 /\ v \in Insns
  BY RipAssumption DEF Disciplined
<1>2. CASE ~Traced /\ UNCHANGED pc /\ Done("err")
  BY <1>2, QuietDone DEF handle_register_write_rip, Prompt
<1>3. CASE Traced /\ pc' = v /\ Done("OK")
  <2>1. /\ Inv /\ at = "idle" /\ sig = "none" /\ ret.mem_addr = -1 /\ nsig = 0
        /\ at' = "idle" /\ cmd' = "none" /\ ret'.mem_addr = -1
        /\ UNCHANGED <<mem, stack, run, sig, nsig, bps>>
    BY <1>1, <1>3, NoRet, DoneFacts DEF IInv, Inv, handle_register_write_rip, Prompt, TakesTurns,
                                        Traced, TypeOK
  <2>2. Planted' = Planted
    BY <2>1 DEF Planted
  <2>3. TextInv' /\ TableInv' /\ PlaceInv'
    BY <1>1, <1>3, <2>1, <2>2 DEF Inv, TextInv, Interrupted, TableInv, PlaceInv, NextInsn
  <2>4. OverInv' /\ RetInv' /\ ControlInv'
    BY <2>1 DEF Inv, OverInv, RetInv, ControlInv
  <2> QED
    BY <2>3, <2>4 DEF Inv
<1> QED
  BY <1>2, <1>3 DEF handle_register_write_rip

(* A turn of step_in's first loop preserves the invariant.                 *)
LEMMA ArmInv ==
  ASSUME Disciplined, IInv, Live, Arm
  PROVE  Inv'
<1> DEFINE l == Lines[line]
           t == [make_breakpoint(l) EXCEPT !.temporary_enable = TRUE]
<1>1. /\ TypeOK /\ Inv /\ at = "arm" /\ line <= Len(Lines) /\ ret.mem_addr = -1
      /\ UNCHANGED <<pc, stack, run, sig, nsig>>
  BY NoRet DEF IInv, Inv, Arm, debuggee
<1>2. l \in LineAddrs /\ l \in Int /\ l \in Addresses
  BY <1>1, ArmingLine, AddressTypes DEF LineAddrs, Addresses
<1>3. CASE UNCHANGED <<mem, bps, cmd, at, over, ret, times, high, res, from>>
  BY <1>1, <1>3 DEF Inv, TextInv, Planted, Interrupted, TableInv, OverInv, RetInv, PlaceInv,
                    NextInsn, ControlInv
<1>4. CASE Done("err") /\ UNCHANGED <<mem, bps>>
  BY <1>1, <1>4, QuietDone
<1>5. CASE /\ ~get_breakpoint_at_addr(bps, l).enabled
           /\ Mapped(t.mem_addr)
           /\ mem' = armed_text(mem, t)
           /\ bps' = save_breakpoint(bps, enabled_record(mem, t))
           /\ UNCHANGED <<cmd, at, over, ret, times, high, res, from>>
  <2>1. l \notin DOMAIN bps
    BY <1>1, <1>2, <1>5, LookupInv DEF Inv
  <2>2. t \in Breakpoint /\ t.mem_addr = l
    BY <1>2, FreshType DEF make_breakpoint, Breakpoint
  <2>3. Mapped(l) /\ l \in Mem /\ l # -1 /\ mem \in [Mem -> Byte]
    BY <1>1, <1>5, <2>2, MemAssumption, SMTT(30) DEF Mapped, Mem, TypeOK
  <2> HIDE DEF t, l
  <2>4. mem' = [x \in Mem |-> IF x = l THEN "int3" ELSE mem[x]]
    BY <1>5, <2>2, <2>3, ArmedText
  <2>5. /\ enabled_record(mem, t).mem_addr = l
        /\ enabled_record(mem, t).enabled
        /\ enabled_record(mem, t).saved_data = Peek(mem, l)
    BY <2>2 DEF enabled_record, Breakpoint
  <2>6. mem[l] = "code"
    BY <1>1, <2>1, <2>3 DEF Inv, TextInv, Planted, Interrupted
  <2>7. \A i \in 0 .. WordSize - 1 : enabled_record(mem, t).saved_data[i] = "code"
    BY <1>1, <1>2, <2>3, <2>5, <2>6, CleanWord DEF Inv
  <2>8. /\ DOMAIN bps' = DOMAIN bps \cup {l}
        /\ bps'[l] = enabled_record(mem, t)
        /\ \A c \in DOMAIN bps : bps'[c] = bps[c]
    BY <1>5, <2>1, <2>5 DEF save_breakpoint
  <2>9. TableInv'
    BY <1>1, <2>3, <2>5, <2>7, <2>8 DEF Inv, TableInv
  <2>10. Planted' = Planted \cup {l}
    BY <1>1, <1>5, <2>3, <2>8 DEF Planted
  <2>11. TextInv'
    BY <1>1, <1>5, <2>4, <2>10 DEF Inv, TextInv, Interrupted
  <2>12. PlaceInv' /\ OverInv' /\ RetInv' /\ ControlInv'
    BY <1>1, <1>5, <2>10 DEF Inv, PlaceInv, NextInsn, OverInv, RetInv, ControlInv
  <2> QED
    BY <2>9, <2>11, <2>12 DEF Inv
<1> QED
  BY <1>3, <1>4, <1>5 DEF Arm

(* The end of that loop preserves the invariant.                           *)
LEMMA ArmedInv ==
  ASSUME Disciplined, IInv, Live, Armed
  PROVE  Inv'
<1>1. at = "arm" /\ MaxSignals = 0 /\ UNCHANGED <<pc, stack, sig, nsig, bps>>
  BY DEF Armed, IInv, ControlInv
<1>2. CASE Traced /\ StepOutBody("next", from)
  BY <1>1, <1>2, StepOutInv
<1>3. CASE Done("err") /\ UNCHANGED <<mem, run>>
  BY <1>1, <1>3, QuietDone
<1> QED
  BY <1>2, <1>3 DEF Armed

(* A wait that fails preserves the invariant: only a signal in             *)
(* step_over_breakpoint leaves a breakpoint disarmed.                      *)
LEMMA WaitFailsInv ==
  ASSUME Disciplined, IInv, Live, WaitFails
  PROVE  Inv'
<1>1. /\ TypeOK /\ Inv /\ at \in {"over", "step", "run"} /\ sig = "signal" /\ sig' = "none"
      /\ at' = "idle" /\ cmd' = "none" /\ ret'.mem_addr = -1
      /\ UNCHANGED <<mem, pc, stack, run, nsig, bps>>
  BY DoneFacts DEF IInv, Inv, WaitFails, Waiting, Live, Traced
<1>2. nsig > 0 /\ ret.mem_addr = -1
  BY <1>1 DEF Inv, ControlInv, RetInv, TypeOK
<1>3. at = "over" => pc = over.mem_addr /\ pc \in DOMAIN bps
  BY <1>1 DEF Inv, OverInv
<1>4. TextInv'
  BY <1>1, <1>2, <1>3 DEF Inv, TextInv, Planted, Interrupted
<1>5. TableInv' /\ PlaceInv'
  BY <1>1 DEF Inv, TableInv, PlaceInv, NextInsn
<1>6. OverInv' /\ RetInv' /\ ControlInv'
  BY <1>1 DEF Inv, OverInv, RetInv, ControlInv
<1> QED
  BY <1>4, <1>5, <1>6 DEF Inv

(* The end of step_over_breakpoint preserves the invariant.                *)
LEMMA WaitOverInv ==
  ASSUME Disciplined, IInv, Live, WaitOver
  PROVE  Inv'
<1> DEFINE m == armed_text(mem, over)
           P == DOMAIN bps \cup {ret.mem_addr}
<1>1. /\ TypeOK /\ Inv /\ at = "over" /\ pc' = NextInsn /\ sig' = "none"
      /\ UNCHANGED <<stack, nsig, bps>>
  BY DEF IInv, Inv, WaitOver, Rearmed, handle_sigtrap, NextInsn
<1>2. over \in Breakpoint /\ over.mem_addr \in DOMAIN bps /\ pc' \in Insns /\ mem \in [Mem -> Byte]
  BY <1>1 DEF Inv, OverInv, PlaceInv, TypeOK
<1>3. m = [x \in Mem |-> IF x = over.mem_addr THEN "int3" ELSE mem[x]] /\ m \in [Mem -> Byte]
  BY <1>2, ArmedText, ArmedTextType
<1>4. \A x \in Mem : m[x] = IF x \in P THEN "int3" ELSE "code"
  BY <1>1, <1>2, <1>3 DEF Inv, TextInv, Planted, Interrupted
<1>5. -1 \notin Mem
  BY MemAssumption DEF Mem
<1>6. PlaceInv'
  BY <1>1, <1>2 DEF Inv, PlaceInv, NextInsn
<1>7. CASE /\ cmd # "step"
           /\ mem' = m
           /\ run' = "running"
           /\ at' = "run"
           /\ UNCHANGED <<cmd, ret, times, line, high, res, from>>
  <2>1. Planted' = P
    BY <1>1, <1>7 DEF Planted
  <2>2. TextInv'
    BY <1>4, <1>7, <2>1 DEF TextInv
  <2>3. TableInv' /\ OverInv' /\ RetInv' /\ ControlInv'
    BY <1>1, <1>7 DEF Inv, TableInv, OverInv, RetInv, ControlInv
  <2> QED
    BY <1>6, <2>2, <2>3 DEF Inv
<1>8. CASE /\ cmd = "step"
           /\ StepTurn(m, pc', times)
           /\ UNCHANGED <<cmd, ret, line, high, res, from>>
  <2>1. ret.mem_addr = -1 /\ P \cap Mem = DOMAIN bps \cap Mem
    BY <1>1, <1>5, <1>8 DEF Inv, RetInv
  <2> DEFINE p == pc'
  <2>2. /\ p \in Insns /\ pc' = p /\ cmd' = "step" /\ sig' = "none"
        /\ UNCHANGED <<stack, nsig, bps, ret>>
    BY <1>1, <1>2, <1>8
  <2>3. StepTurn(m, p, times)
    BY <1>8
  <2> HIDE DEF m, P, p
  <2> QED
    BY <1>3, <1>4, <2>1, <2>2, <2>3, TurnInv
<1>9. CASE /\ cmd = "step"
           /\ mem' = m
           /\ Done("OK")
           /\ UNCHANGED run
  <2>1. ret.mem_addr = -1 /\ ret'.mem_addr = -1 /\ at' = "idle" /\ cmd' = "none"
    BY <1>1, <1>9, DoneFacts DEF Inv, RetInv
  <2>2. Planted' = P
    BY <1>1, <2>1 DEF Planted
  <2>3. TextInv'
    BY <1>4, <1>9, <2>2 DEF TextInv
  <2>4. TableInv' /\ OverInv' /\ RetInv' /\ ControlInv'
    BY <1>1, <2>1 DEF Inv, TableInv, OverInv, RetInv, ControlInv
  <2> QED
    BY <1>6, <2>3, <2>4 DEF Inv
<1> QED
  BY <1>7, <1>8, <1>9 DEF WaitOver, Rearmed

(* The end of a single step preserves the invariant.                       *)
LEMMA WaitStepInv ==
  ASSUME Disciplined, IInv, Live, WaitStep
  PROVE  Inv'
<1> DEFINE p == pc'
           P == DOMAIN bps \cup {ret.mem_addr}
<1>1. /\ TypeOK /\ Inv /\ at = "step" /\ pc' = NextInsn /\ sig' = "none"
      /\ UNCHANGED <<stack, nsig, bps>>
  BY DEF IInv, Inv, WaitStep, handle_sigtrap, NextInsn
<1>2. p \in Insns /\ pc' = p /\ mem \in [Mem -> Byte] /\ ret.mem_addr = -1 /\ cmd = "step"
  BY <1>1, NoRet DEF Inv, PlaceInv, ControlInv, TypeOK
<1>3. \A x \in Mem : mem[x] = IF x \in P THEN "int3" ELSE "code"
  BY <1>1 DEF Inv, TextInv, Planted, Interrupted
<1>4. CASE /\ StepTurn(mem, p, times)
           /\ UNCHANGED <<cmd, ret, line, high, res, from>>
  <2>1. P \cap Mem = DOMAIN bps \cap Mem
    BY <1>2, MemAssumption DEF Mem
  <2> HIDE DEF p, P
  <2> QED
    BY <1>1, <1>2, <1>3, <1>4, <2>1, TurnInv
<1>5. CASE Done("OK") /\ UNCHANGED <<mem, run>>
  <2>1. ret'.mem_addr = -1 /\ at' = "idle" /\ cmd' = "none"
    BY <1>5, DoneFacts
  <2>2. Planted' = P
    BY <1>1, <1>2, <2>1 DEF Planted
  <2>3. TextInv'
    BY <1>3, <1>5, <2>2 DEF TextInv
  <2>4. TableInv' /\ OverInv' /\ RetInv' /\ ControlInv'
    BY <1>1, <2>1 DEF Inv, TableInv, OverInv, RetInv, ControlInv
  <2>5. PlaceInv'
    BY <1>1, <1>2 DEF Inv, PlaceInv, NextInsn
  <2> QED
    BY <2>3, <2>4, <2>5 DEF Inv
<1> QED
  BY <1>4, <1>5 DEF WaitStep

(* The stop of a running child preserves the invariant.                    *)
LEMMA WaitRunInv ==
  ASSUME Disciplined, IInv, Live, WaitRun
  PROVE  Inv'
<1> DEFINE R == ret.mem_addr
<1>1. /\ TypeOK /\ Inv /\ at = "run" /\ pc' = NextInsn /\ sig' = "none"
      /\ at' = "idle" /\ cmd' = "none" /\ ret'.mem_addr = -1
      /\ UNCHANGED <<stack, run, nsig, bps>>
  BY DoneFacts DEF IInv, Inv, WaitRun, Released, handle_sigtrap, NextInsn
<1>2. /\ mem \in [Mem -> Byte] /\ ret \in Breakpoint /\ -1 \notin Mem
      /\ \A x \in Mem : mem[x] = IF x \in DOMAIN bps \cup {R} THEN "int3" ELSE "code"
  BY <1>1, MemAssumption DEF Inv, TextInv, Planted, Interrupted, TypeOK, Mem
<1>3. \A x \in Mem : mem'[x] = IF x \in DOMAIN bps THEN "int3" ELSE "code"
  <2>1. CASE cmd = "continue"
    <3>1. mem' = mem /\ R = -1
      BY <1>1, <2>1 DEF WaitRun, Released, Inv, RetInv
    <3> QED
      BY <1>2, <3>1
  <2>2. CASE cmd # "continue"
    <3>1. mem' = disable_breakpoint(mem, ret) /\ R # -1
      BY <1>1, <2>2 DEF WaitRun, Released, Inv, RetInv, ControlInv, TypeOK, IInv, TakesTurns
    <3>2. /\ R \in Addresses
          /\ \A i \in 0 .. WordSize - 1 :
               ret.saved_data[i] = IF i = 0 /\ R \in DOMAIN bps THEN "int3" ELSE "code"
      BY <1>1, <3>1 DEF Inv, RetInv, Addresses
    <3>3. \A x \in Mem : R < x /\ x < R + WordSize => mem[x] = "code"
      BY <1>1, <3>2, CleanTail DEF Inv
    <3>4. mem' = [x \in Mem |-> IF x = R THEN ret.saved_data[0] ELSE mem[x]]
      BY <1>2, <3>1, <3>2, <3>3, WriteBack
    <3>5. 0 \in 0 .. WordSize - 1
      BY WordAssumption
    <3> QED
      BY <1>2, <3>2, <3>4, <3>5
  <2> QED
    BY <2>1, <2>2
<1>4. \A x \in Mem : x \in Planted' <=> x \in DOMAIN bps
  BY <1>1, <1>2 DEF Planted
<1>5. TextInv'
  BY <1>3, <1>4 DEF TextInv
<1>6. TableInv' /\ OverInv' /\ RetInv' /\ ControlInv'
  BY <1>1 DEF Inv, TableInv, OverInv, RetInv, ControlInv
<1>7. PlaceInv'
  BY <1>1 DEF Inv, PlaceInv, NextInsn
<1> QED
  BY <1>5, <1>6, <1>7 DEF Inv

(* An instruction of the debuggee preserves the invariant.                 *)
LEMMA ExecuteInv ==
  ASSUME Disciplined, IInv, Live, Live', Execute
  PROVE  Inv'
<1>1. /\ TypeOK /\ Inv /\ at \in {"over", "step", "run"} /\ sig = "none"
      /\ UNCHANGED <<mem, nsig, bps, cmd, at, over, ret>>
  BY DEF IInv, Inv, Execute, TakesTurns, locals
<1>2. /\ pc \in Insns /\ pc \in Int
      /\ mem[pc] = "int3" => pc \in Planted /\ ~Intact(mem, pc)
      /\ mem[pc] = "int3" \/ Intact(mem, pc)
  <2>1. /\ pc \in Insns /\ pc \in Mem
        /\ pc \in Planted => mem[pc] = "int3"
        /\ pc \notin Planted => mem[pc] = "code" /\ Intact(mem, pc)
    BY <1>1, OwnText
  <2>2. mem[pc] = "int3" => ~Intact(mem, pc)
    BY <2>1, ProgramAssumption, AddressTypes DEF Intact
  <2> QED
    BY <2>1, <2>2, AddressTypes
<1>3. Planted' = Planted
  BY <1>1 DEF Planted
<1>4. TextInv' /\ TableInv' /\ RetInv'
  BY <1>1, <1>3 DEF Inv, TextInv, Interrupted, TableInv, RetInv
<1>5. CASE mem[pc] = "int3" /\ Stop("trap") /\ pc' = pc + 1 /\ UNCHANGED stack
  <2>1. NextInsn' = pc
    BY <1>2, <1>5 DEF NextInsn, Stop
  <2>2. PlaceInv'
    BY <1>1, <1>2, <1>3, <1>5, <2>1 DEF Inv, PlaceInv
  <2>3. OverInv' /\ ControlInv'
    BY <1>1, <1>5 DEF Inv, OverInv, ControlInv, Stop
  <2> QED
    BY <1>4, <2>2, <2>3 DEF Inv
<1>6. CASE /\ Intact(mem, pc)
           /\ \E o \in Outcomes(pc, stack) : pc' = o[1] /\ stack' = o[2]
           /\ \/ run = "stepping" /\ Stop("trace")
              \/ run = "running" /\ UNCHANGED <<run, sig>>
  <2>1. PICK o \in Outcomes(pc, stack) : pc' = o[1] /\ stack' = o[2]
    BY <1>6
  <2>2. pc' \in Insns /\ stack' \in Seq(ReturnSites)
    <3>1. stack \in Seq(ReturnSites) /\ ReturnSites \subseteq Insns
      BY <1>1, LayoutAssumption DEF Inv, PlaceInv
    <3> QED
      BY <1>2, <2>1, <3>1, OutcomeTypes
  <2>3. PlaceInv'
    BY <1>1, <1>6, <2>2 DEF PlaceInv, NextInsn, Stop
  <2>4. OverInv' /\ ControlInv'
    BY <1>1, <1>6 DEF Inv, OverInv, ControlInv, Stop
  <2> QED
    BY <1>4, <2>3, <2>4 DEF Inv
<1> QED
  BY <1>2, <1>5, <1>6 DEF Execute, Live

(* A signal preserves the invariant.                                       *)
LEMMA SignalInv ==
  ASSUME Disciplined, IInv, Live, Signal
  PROVE  Inv'
<1>1. /\ TypeOK /\ Inv /\ at \in {"over", "step", "run"} /\ sig = "none"
      /\ run \in {"running", "stepping"} /\ run' = "stopped" /\ sig' = "signal" /\ nsig' = nsig + 1
      /\ UNCHANGED <<mem, pc, stack, bps, cmd, at, over, ret>>
  BY DEF IInv, Inv, Signal, Stop, TakesTurns, locals
<1>2. Planted' = Planted
  BY <1>1 DEF Planted
<1>3. TextInv' /\ TableInv' /\ RetInv'
  BY <1>1, <1>2 DEF Inv, TextInv, Interrupted, TableInv, RetInv
<1>4. PlaceInv' /\ OverInv' /\ ControlInv'
  BY <1>1 DEF Inv, PlaceInv, NextInsn, OverInv, ControlInv, TypeOK
<1> QED
  BY <1>3, <1>4 DEF Inv
-----------------------------------------------------------------------------
(* The invariant and what follows from it.                                 *)

(* The invariant holds when the first prompt appears.                      *)
LEMMA InvInit ==
  ASSUME Init PROVE IInv
<1>1. TypeOK /\ TakesTurns
  BY TypeInit DEF Init, TakesTurns
<1>2. \A x \in Mem : x \notin Planted
  BY MemAssumption DEF Init, Planted, NoBreakpoint, make_breakpoint, Mem
<1>3. TextInv /\ TableInv
  BY <1>2 DEF Init, TextInv, TableInv
<1>4. OverInv /\ RetInv /\ ControlInv
  BY DEF Init, OverInv, RetInv, ControlInv, NoBreakpoint, make_breakpoint
<1>5. PlaceInv
  BY EntryAssumption DEF Init, PlaceInv, NextInsn
<1> QED
  BY <1>1, <1>3, <1>4, <1>5 DEF IInv

(* A child that has ended or was detached stays so.                        *)
LEMMA NeverRevived ==
  ASSUME TypeOK, TakesTurns, [Next]_vars, Live' PROVE Live
<1>1. CASE User
  BY <1>1 DEF User, handle_breakpoint_enable, handle_breakpoint_disable, handle_continue,
              handle_step, step_out, step_in, handle_register_write_rip, Exit, Refuse, debuggee,
              Traced, Live
<1>2. CASE Handler
  BY <1>2 DEF Handler, Arm, Armed, WaitFails, WaitOver, Rearmed, WaitStep, WaitRun, Released, Trapped, Traced,
              debuggee, Live
<1>3. CASE Execute \/ Signal \/ Kill \/ UNCHANGED vars
  BY <1>3 DEF Execute, Signal, Kill, Live, vars, debuggee
<1> QED
  BY <1>1, <1>2, <1>3 DEF Next, Closed

(* Every step preserves the invariant.                                     *)
LEMMA InvStep ==
  ASSUME Disciplined, IInv, [Next]_vars PROVE IInv'
<1>1. TypeOK /\ TakesTurns /\ TypeOK' /\ TakesTurns'
  BY TypeStep, TurnsStep DEF IInv
<1>2. ASSUME Live' PROVE Inv'
  <2>1. Live /\ Inv
    BY <1>1, <1>2, NeverRevived DEF IInv, Inv
  <2>2. CASE User
    <3>1. ASSUME Exit PROVE FALSE
      BY <1>2, <2>1, <3>1 DEF Exit, Live, Traced, IInv, TakesTurns, Prompt
    <3> QED
      BY <2>1, <2>2, <3>1, EnableInv, DisableInv, ContinueInv, StepInv, FinishInv, NextInv,
         SetRipInv DEF User
  <2>3. CASE Handler
    BY <2>1, <2>3, ArmInv, ArmedInv, WaitFailsInv, WaitOverInv, WaitStepInv, WaitRunInv DEF Handler
  <2>4. CASE Execute \/ Signal
    BY <1>2, <2>1, <2>4, ExecuteInv, SignalInv
  <2>5. CASE Kill
    BY <1>2, <2>5 DEF Kill, Live
  <2>6. CASE UNCHANGED vars
    BY <2>1, <2>6 DEF vars, debuggee, locals, Inv, TextInv, Planted, Interrupted, TableInv,
                      OverInv, RetInv, PlaceInv, NextInsn, ControlInv
  <2> QED
    BY <2>2, <2>3, <2>4, <2>5, <2>6 DEF Next, Closed
<1> QED
  BY <1>1, <1>2 DEF IInv, Inv

(* In a disciplined session the text of the child is, at every step, the   *)
(* program's own with int3 where the debugger means it to be.              *)
THEOREM Invariance ==
  ASSUME Disciplined PROVE Spec => []IInv
<1>1. Init => IInv
  BY InvInit
<1>2. IInv /\ [Next]_vars => IInv'
  BY InvStep
<1> QED
  BY <1>1, <1>2, PTL DEF Spec

(* What IInv says of the text while the user is asked, and while the child *)
(* runs.                                                                   *)
LEMMA TextAtPrompt == ASSUME Disciplined, IInv PROVE BreakpointsArmed /\ NoStrayText
<1> SUFFICES ASSUME Idle PROVE /\ \A a \in DOMAIN bps : mem[a] = "int3" \/ (a = pc /\ nsig > 0)
                              /\ \A a \in Mem \ DOMAIN bps : mem[a] = "code"
  BY DEF BreakpointsArmed, NoStrayText
<1>1. Inv /\ at = "idle" /\ ret.mem_addr = -1 /\ -1 \notin Mem
  BY NoRet, MemAssumption DEF Idle, IInv, Inv, Live, Mem
<1>2. \A x \in Mem : x \in Planted <=> x \in DOMAIN bps
  BY <1>1 DEF Planted
<1>3. DOMAIN bps \subseteq Mem
  BY <1>1, TableMem DEF Inv
<1> QED
  BY <1>1, <1>2, <1>3 DEF Inv, TextInv, Interrupted

LEMMA TextInFlight == ASSUME Disciplined, IInv PROVE ExecutesOwnText /\ NoMissedBreakpoint
<1> SUFFICES ASSUME run \in {"running", "stepping"}
             PROVE  /\ mem[pc] = "int3" \/ Intact(mem, pc)
                    /\ run = "running" /\ pc \in DOMAIN bps => mem[pc] = "int3"
  BY DEF ExecutesOwnText, NoMissedBreakpoint
<1>1. Inv /\ Live /\ at # "idle" /\ sig # "trap"
  BY DEF IInv, Inv, Live, TakesTurns
<1>2. /\ pc \in Planted => mem[pc] = "int3"
      /\ pc \notin Planted => Intact(mem, pc)
  BY <1>1, OwnText
<1>3. run = "running" /\ pc \in DOMAIN bps => pc \in Planted
  BY <1>1 DEF Inv, OverInv, Planted
<1> QED
  BY <1>2, <1>3

(* At every prompt of a disciplined session the int3 of each breakpoint of *)
(* the table is in the text.                                               *)
THEOREM ArmedCorrect == ASSUME Disciplined PROVE Spec => []BreakpointsArmed
BY TextAtPrompt, Invariance, PTL

(* Neither a temporary breakpoint nor one that was removed leaves anything *)
(* in the text.                                                            *)
THEOREM TextIsClean == ASSUME Disciplined PROVE Spec => []NoStrayText
BY TextAtPrompt, Invariance, PTL

(* The child never executes bytes of an instruction that int3 has torn.    *)
THEOREM OwnTextCorrect == ASSUME Disciplined PROVE Spec => []ExecutesOwnText
BY TextInFlight, Invariance, PTL

(* The child is never released onto a breakpoint that is not armed.        *)
THEOREM NoMissCorrect == ASSUME Disciplined PROVE Spec => []NoMissedBreakpoint
BY TextInFlight, Invariance, PTL

(* In a disciplined session a continue that succeeds has stopped at a      *)
(* breakpoint of the table.                                                *)
THEOREM ContinueCorrect ==
  ASSUME Disciplined PROVE Spec => ContinueStopsAtBreakpoint
<1> DEFINE Ended == cmd = "continue" /\ cmd' = "none" /\ res' = "OK"
<1>1. ASSUME IInv, [Next]_vars, Ended PROVE pc' \in DOMAIN bps
  <2>1. at # "idle"
    BY <1>1 DEF IInv, TakesTurns
  <2>2. ~Arm /\ ~Armed /\ ~WaitStep
    <3>1. Arm \/ Armed \/ WaitStep => Live
      BY <1>1 DEF Arm, Armed, WaitStep, Trapped, Traced, Done, Live
    <3>2. Live => at # "arm" /\ at # "step"
      BY <1>1 DEF IInv, ControlInv
    <3> QED
      BY <3>1, <3>2 DEF Arm, Armed, WaitStep
  <2>3. ~WaitOver /\ ~WaitFails
    BY <1>1 DEF WaitOver, Rearmed, WaitFails, Done
  <2>4. CASE WaitRun
    <3>1. Inv /\ Live /\ at = "run" /\ sig \in {"trap", "trace"} /\ pc' = NextInsn
      BY <1>1, <2>4 DEF WaitRun, Released, Trapped, Traced, IInv, Inv, Live, handle_sigtrap, NextInsn
    <3>2. NextInsn \in Planted /\ NextInsn \in Insns /\ ret.mem_addr = -1 /\ -1 \notin Insns
      BY <1>1, <3>1, AddressTypes, MemAssumption DEF Inv, ControlInv, PlaceInv, RetInv, Mem
    <3> QED
      BY <3>1, <3>2 DEF Planted
  <2>5. ~User
    BY <2>1 DEF User, handle_breakpoint_enable, handle_breakpoint_disable, handle_continue,
                handle_step, step_out, step_in, handle_register_write_rip, Exit, Refuse, Start, Prompt
  <2>6. ~Execute /\ ~Signal /\ ~Kill /\ ~UNCHANGED vars
    BY <1>1 DEF Execute, Signal, Kill, vars
  <2> QED
    BY <1>1, <2>2, <2>3, <2>4, <2>5, <2>6 DEF Next, Handler, Closed
<1>2. IInv /\ [Next]_vars => [Ended => pc' \in DOMAIN bps]_vars
  BY <1>1
<1> QED
  BY <1>2, Invariance, PTL DEF Spec, ContinueStopsAtBreakpoint
-----------------------------------------------------------------------------
(* A disciplined session implements Undebugged: the debuggee behaves as    *)
(* the program does without a debugger.                                    *)

(* A step of Undebugged.                                                   *)
BareNext == Bare!Instruction \/ Bare!End \/ Bare!Redirect

(* What leaves the program's place, its stack and its end alone is no step *)
(* of Undebugged.                                                          *)
LEMMA BareStutter ==
  ASSUME NextInsn' = NextInsn, stack' = stack, run' \in {"dead", "killed"} <=> run \in {"dead", "killed"}
  PROVE  UNCHANGED Bare!state
BY DEF Bare!state

(* A command moves the program only if it is reg write.                    *)
LEMMA BareUser ==
  ASSUME IInv, User PROVE BareNext \/ UNCHANGED Bare!state
<1>1. ASSUME NEW r, Refuse(r) PROVE UNCHANGED Bare!state
  BY <1>1, BareStutter DEF Refuse, debuggee, NextInsn
<1>2. ASSUME NEW a, handle_breakpoint_enable(a) \/ handle_breakpoint_disable(a)
      PROVE  UNCHANGED Bare!state
  BY <1>1, <1>2, BareStutter DEF handle_breakpoint_enable, handle_breakpoint_disable, debuggee,
                                 NextInsn
<1>3. CASE handle_continue
  <2>1. CASE Traced /\ StepOverAndContinue(mem) /\ UNCHANGED <<pc, stack, sig>>
    BY <2>1, BareStutter DEF Traced, StepOverAndContinue, StepOver, NextInsn
  <2> QED
    BY <1>1, <1>3, <2>1 DEF handle_continue
<1>4. ASSUME NEW n, handle_step(n) PROVE UNCHANGED Bare!state
  <2>1. CASE Traced /\ StepTurn(mem, pc, n) /\ UNCHANGED <<pc, stack, sig>>
    BY <2>1, BareStutter DEF Traced, StepTurn, StepOver, NextInsn
  <2> QED
    BY <1>1, <1>4, <2>1 DEF handle_step
<1>5. CASE step_out
  <2>1. CASE Traced /\ StepOutBody("finish", Here) /\ UNCHANGED <<pc, stack, sig>>
    BY <2>1, BareStutter DEF Traced, StepOutBody, StepOverAndContinue, StepOver, NextInsn
  <2> QED
    BY <1>1, <1>5, <2>1 DEF step_out
<1>6. CASE step_in
  BY <1>1, <1>6, BareStutter DEF step_in, debuggee, NextInsn
<1>7. ASSUME NEW v \in RipValues, handle_register_write_rip(v)
      PROVE  BareNext \/ UNCHANGED Bare!state
  <2>1. CASE Traced /\ pc' = v
    <3>1. sig = "none" /\ UNCHANGED <<stack, run, sig>>
      BY <1>7, <2>1 DEF handle_register_write_rip, Prompt, Traced, IInv, TakesTurns
    <3> QED
      BY <2>1, <3>1 DEF BareNext, Bare!Redirect, NextInsn, Traced
  <2>2. CASE UNCHANGED pc
    BY <1>7, <2>2, BareStutter DEF handle_register_write_rip, NextInsn
  <2> QED
    BY <1>7, <2>1, <2>2 DEF handle_register_write_rip
<1>8. CASE Exit
  BY <1>8, BareStutter DEF Exit, Traced, NextInsn
<1> QED
  BY <1>2, <1>3, <1>4, <1>5, <1>6, <1>7, <1>8 DEF User

(* The debugger's own steps never move the program.                        *)
LEMMA BareHandler ==
  ASSUME Handler PROVE UNCHANGED Bare!state
<1>1. CASE Arm
  BY <1>1, BareStutter DEF Arm, debuggee, NextInsn
<1>2. CASE Armed
  BY <1>2, BareStutter DEF Armed, Traced, StepOutBody, StepOverAndContinue, StepOver, NextInsn
<1>3. CASE WaitFails
  BY <1>3, BareStutter DEF WaitFails, NextInsn
<1>4. CASE WaitOver
  BY <1>4, BareStutter DEF WaitOver, Rearmed, Trapped, Traced, handle_sigtrap, StepTurn, StepOver, NextInsn
<1>5. CASE WaitStep
  BY <1>5, BareStutter DEF WaitStep, Trapped, Traced, handle_sigtrap, StepTurn, StepOver, NextInsn
<1>6. CASE WaitRun
  BY <1>6, BareStutter DEF WaitRun, Released, handle_sigtrap, NextInsn
<1> QED
  BY <1>1, <1>2, <1>3, <1>4, <1>5, <1>6 DEF Handler

(* The child executes an instruction of the program, or an int3 that moves *)
(* it nowhere.                                                             *)
LEMMA BareExecute ==
  ASSUME Disciplined, IInv, Execute PROVE BareNext \/ UNCHANGED Bare!state
<1>1. Live /\ at # "idle" /\ sig = "none" /\ run \in {"running", "stepping"}
  BY DEF Execute, IInv, TakesTurns, Live
<1>2. pc \in Insns /\ pc \in Int /\ (mem[pc] = "int3" \/ Intact(mem, pc))
  BY <1>1, OwnText, AddressTypes
<1>3. CASE Stop("trap") /\ pc' = pc + 1 /\ UNCHANGED stack
  BY <1>1, <1>2, <1>3, BareStutter DEF Stop, NextInsn
<1>4. CASE run' = "dead" /\ UNCHANGED <<pc, stack, sig>>
  BY <1>1, <1>4 DEF BareNext, Bare!End, NextInsn
<1>5. CASE /\ \E o \in Outcomes(pc, stack) : pc' = o[1] /\ stack' = o[2]
           /\ \/ run = "stepping" /\ Stop("trace")
              \/ run = "running" /\ UNCHANGED <<run, sig>>
  <2>1. NextInsn = pc /\ NextInsn' = pc' /\ run' \notin {"dead", "killed"}
    BY <1>1, <1>5 DEF NextInsn, Stop
  <2>2. PICK o \in Outcomes(pc, stack) : pc' = o[1] /\ stack' = o[2]
    BY <1>5
  <2>3. o \in Bare!Outcomes(NextInsn, stack)
    BY <2>1 DEF Outcomes, Bare!Outcomes
  <2>4. NextInsn' = o[1] /\ stack' = o[2]
    BY <2>1, <2>2
  <2>5. ~(run \in {"dead", "killed"}) /\ ~(run' \in {"dead", "killed"})
    BY <1>1, <2>1
  <2> QED
    BY <2>3, <2>4, <2>5 DEF BareNext, Bare!Instruction
<1> QED
  BY <1>2, <1>3, <1>4, <1>5 DEF Execute

(* The debugger is transparent: in a disciplined session every behaviour   *)
(* of the debuggee, reg write apart, is one of the program on its own.     *)
THEOREM TransparencyCorrect ==
  ASSUME Disciplined PROVE Spec => Transparent
<1>1. Init => Bare!Begin
  BY DEF Init, Bare!Begin, NextInsn
<1>2. ASSUME IInv, [Next]_vars PROVE BareNext \/ UNCHANGED Bare!state
  <2>1. CASE Signal
    BY <1>2, <2>1, BareStutter DEF Signal, Stop, NextInsn, IInv, TakesTurns
  <2>2. CASE Kill
    BY <2>2 DEF Kill, BareNext, Bare!End, NextInsn
  <2>3. CASE UNCHANGED vars
    BY <2>3, BareStutter DEF vars, debuggee, NextInsn
  <2> QED
    BY <1>2, <2>1, <2>2, <2>3, BareUser, BareHandler, BareExecute DEF Next, Closed
<1>3. IInv /\ [Next]_vars => [Bare!Instruction \/ Bare!End \/ Bare!Redirect]_(Bare!state)
  BY <1>2 DEF BareNext
<1> QED
  BY <1>1, <1>3, Invariance, PTL DEF Spec, Transparent, Bare!Behaviour
-----------------------------------------------------------------------------
(* Text and records when lines may be close together.                      *)

(* What the lookup returns.                                                *)
LEMMA LooseLookup ==
  ASSUME TypeOK, MarkedTable, NEW p \in Int
  PROVE  LET b == get_breakpoint_at_addr(bps, p) IN
           /\ b \in Breakpoint
           /\ b.mem_addr = p
           /\ b.enabled <=> p \in DOMAIN bps
           /\ p \in DOMAIN bps => b.saved_data[0] = "code" /\ MarksWord(b, DOMAIN bps)
<1>1. bps \in [DOMAIN bps -> Breakpoint]
  BY DEF TypeOK
<1>2. CASE p \in DOMAIN bps
  BY <1>1, <1>2, Lookup DEF TypeOK, MarkedTable, MarksWord
<1>3. CASE p \notin DOMAIN bps
  BY <1>1, <1>3, Lookup DEF make_breakpoint
<1> QED
  BY <1>2, <1>3

(* Breakpoints are set at instructions.                                    *)
LEMMA TableInsns ==
  ASSUME Uncrowded, TypeOK, MarkedTable PROVE DOMAIN bps \subseteq Insns
BY DEF Uncrowded, TypeOK, MarkedTable

(* -1 is no address.                                                       *)
LEMMA NoAddress ==
  ASSUME NEW m, NEW P, Marks(m, P \cup {-1}) PROVE Marks(m, P)
<1>1. -1 \notin Mem
  BY MemAssumption DEF Mem
<1> QED
  BY <1>1 DEF Marks

(* Arming adds one int3.                                                   *)
LEMMA ArmedMarks ==
  ASSUME NEW m \in [Mem -> Byte], NEW b \in Breakpoint, NEW P, Marks(m, P)
  PROVE  Marks(armed_text(m, b), P \cup {b.mem_addr})
<1>1. armed_text(m, b) = [x \in Mem |-> IF x = b.mem_addr THEN "int3" ELSE m[x]]
  BY ArmedText
<1> QED
  BY <1>1 DEF Marks

(* A saved word brings back the int3 that it has, and no other.            *)
LEMMA DisabledMarks ==
  ASSUME NEW m \in [Mem -> Byte], NEW b \in Breakpoint, NEW P, MarksWord(b, P),
         \A x \in Mem : x # b.mem_addr => m[x] = "code" \/ (m[x] = "int3" /\ x \in P)
  PROVE  Marks(disable_breakpoint(m, b), P)
<1> DEFINE a == b.mem_addr
           w == b.saved_data
           n == disable_breakpoint(m, b)
<1>1. a \in Int
  BY DEF Breakpoint
<1>2. n = [x \in Mem |-> IF x \in a .. a + WordSize - 1 THEN w[x - a] ELSE m[x]]
  BY DEF disable_breakpoint, Poke
<1> HIDE DEF n
<1>3. ASSUME NEW x \in Mem PROVE n[x] = "code" \/ (n[x] = "int3" /\ x \in P)
  <2>1. x \in Int
    BY MemAssumption DEF Mem
  <2>2. CASE x \in a .. a + WordSize - 1
    <3>1. x - a \in 0 .. WordSize - 1 /\ a + (x - a) = x
      BY <1>1, <2>1, <2>2, WordAssumption
    <3>2. w[x - a] = "code" \/ (w[x - a] = "int3" /\ x \in P)
      BY <3>1 DEF MarksWord
    <3> QED
      BY <1>2, <2>2, <3>2
  <2>3. CASE x \notin a .. a + WordSize - 1
    <3>1. x # a
      BY <1>1, <2>3, WordAssumption
    <3> QED
      BY <1>2, <2>3, <3>1
  <2> QED
    BY <2>2, <2>3
<1> QED
  BY <1>3 DEF Marks, n

(* What enable_breakpoint saves.                                           *)
LEMMA SavedMarks ==
  ASSUME NEW m \in [Mem -> Byte], NEW b \in Breakpoint, Mapped(b.mem_addr), NEW P, Marks(m, P)
  PROVE  LET r == enabled_record(m, b) IN
           /\ r \in Breakpoint /\ r.mem_addr = b.mem_addr /\ r.enabled
           /\ r.saved_data[0] = m[b.mem_addr]
           /\ MarksWord(r, P)
<1> DEFINE a == b.mem_addr
           r == enabled_record(m, b)
<1>1. r \in Breakpoint /\ r.mem_addr = a /\ r.enabled /\ r.saved_data = Peek(m, a)
  BY EnabledType DEF enabled_record, Breakpoint
<1>2. ASSUME NEW i \in 0 .. WordSize - 1
      PROVE  Peek(m, a)[i] = m[a + i] /\ a + i \in Mem
  BY WordAssumption, MemAssumption DEF Peek, Mapped, Mem
<1>3. 0 \in 0 .. WordSize - 1 /\ a + 0 = a
  BY WordAssumption, MemAssumption DEF Mapped, Mem
<1> HIDE DEF r, a
<1>4. MarksWord(r, P)
  BY <1>1, <1>2 DEF MarksWord, Marks
<1> QED
  BY <1>1, <1>2, <1>3, <1>4 DEF r, a

(* Stepping over the breakpoint at p.                                      *)
LEMMA OverMarks ==
  ASSUME TypeOK, MarkedTable, NEW p \in DOMAIN bps, NEW P, NEW m \in [Mem -> Byte],
         DOMAIN bps \subseteq P, Marks(m, P), StepOver(m, get_breakpoint_at_addr(bps, p))
  PROVE  Marks(mem', P) /\ over'.mem_addr \in DOMAIN bps /\ at' = "over" /\ run' = "stepping"
<1>1. p \in Int
  BY TableAddress
<1>2. PICK b : b = get_breakpoint_at_addr(bps, p)
  OBVIOUS
<1>3. b \in Breakpoint /\ b.mem_addr = p /\ MarksWord(b, DOMAIN bps)
  BY <1>1, <1>2, LooseLookup
<1>4. mem' = disable_breakpoint(m, b) /\ over' = b /\ at' = "over" /\ run' = "stepping"
  BY <1>2 DEF StepOver
<1>5. MarksWord(b, P)
  BY <1>3 DEF MarksWord
<1>6. \A x \in Mem : m[x] = "code" \/ (m[x] = "int3" /\ x \in P)
  BY DEF Marks
<1> QED
  BY <1>3, <1>4, <1>5, <1>6, DisabledMarks

(* The common end of continue and step_out.                                *)
LEMMA ResumeMarks ==
  ASSUME TypeOK, MarkedTable, pc \in Int, NEW P, NEW m \in [Mem -> Byte],
         DOMAIN bps \subseteq P, Marks(m, P), StepOverAndContinue(m)
  PROVE  /\ Marks(mem', P)
         /\ \/ over'.mem_addr \in DOMAIN bps /\ at' = "over" /\ run' = "stepping"
            \/ at' = "run" /\ run' = "running"
<1>1. get_breakpoint_at_addr(bps, pc).enabled <=> pc \in DOMAIN bps
  BY LooseLookup
<1> QED
  BY <1>1, OverMarks DEF StepOverAndContinue

(* A turn of handle_step's loop.                                           *)
LEMMA TurnMarks ==
  ASSUME TypeOK, MarkedTable, NEW p \in Int, NEW n, NEW P, NEW m \in [Mem -> Byte],
         DOMAIN bps \subseteq P, Marks(m, P), StepTurn(m, p, n)
  PROVE  /\ Marks(mem', P)
         /\ run' = "stepping"
         /\ (over'.mem_addr \in DOMAIN bps /\ at' = "over") \/ at' = "step"
<1>1. get_breakpoint_at_addr(bps, p).enabled <=> p \in DOMAIN bps
  BY LooseLookup
<1> QED
  BY <1>1, OverMarks DEF StepTurn
-----------------------------------------------------------------------------
(* How a handler leaves things: at its end, while the child runs, and      *)
(* between two turns of step_in's first loop.                              *)
LEMMA DoneMarked ==
  ASSUME Uncrowded, NEW r, Done(r), Marks(mem', DOMAIN bps'), MarkedTable', sig' = "none",
         pc' \in Insns, stack' \in Seq(ReturnSites)
  PROVE  Marked'
<1>1. at' = "idle" /\ cmd' = "none" /\ ret'.mem_addr = -1 /\ MaxSignals = 0
  BY DoneFacts DEF Uncrowded
<1>2. MarkedText'
  BY DEF MarkedText, Marks
<1>3. MarkedRet' /\ MarkedPlace' /\ ControlInv' /\ ArmsOwnLines'
  BY <1>1 DEF MarkedRet, MarkedPlace, NextInsn, ControlInv, ArmsOwnLines
<1> QED
  BY <1>2, <1>3 DEF Marked

LEMMA GoesMarked ==
  ASSUME Uncrowded, bps' = bps, MarkedTable, Marks(mem', DOMAIN bps \cup {ret'.mem_addr}),
         sig' = "none", pc' \in Insns, stack' \in Seq(ReturnSites),
         cmd' \in {"continue", "step", "finish", "next"},
         \/ at' = "over" /\ run' = "stepping" /\ over'.mem_addr \in DOMAIN bps
         \/ at' = "run" /\ run' = "running" /\ cmd' # "step"
         \/ at' = "step" /\ cmd' = "step",
         ret'.mem_addr # -1 <=> cmd' \in {"finish", "next"},
         ret'.mem_addr # -1 => ret'.mem_addr \in ReturnSites /\ MarksWord(ret', DOMAIN bps),
         cmd' = "next" => DOMAIN bps \subseteq from'.table \cup OwnLines(from'.pc)
  PROVE  Marked'
<1>1. MaxSignals = 0
  BY DEF Uncrowded
<1>2. MarkedText' /\ MarkedTable'
  BY DEF MarkedText, Marks, MarkedTable, MarksWord
<1>3. MarkedRet'
  BY DEF MarkedRet, MarksWord
<1>4. MarkedPlace' /\ ControlInv'
  BY <1>1 DEF MarkedPlace, NextInsn, ControlInv
<1>5. ArmsOwnLines'
  BY DEF ArmsOwnLines, OwnLines
<1> QED
  BY <1>2, <1>3, <1>4, <1>5 DEF Marked

LEMMA LoopsMarked ==
  ASSUME Uncrowded, at' = "arm", cmd' = "next", ret'.mem_addr = -1, Marks(mem', DOMAIN bps'), MarkedTable',
         sig' = "none", pc' \in Insns, stack' \in Seq(ReturnSites), ArmsOwnLines'
  PROVE  Marked'
<1>1. MaxSignals = 0
  BY DEF Uncrowded
<1>2. MarkedText'
  BY DEF MarkedText, Marks
<1>3. MarkedRet' /\ MarkedPlace' /\ ControlInv'
  BY <1>1 DEF MarkedRet, MarkedPlace, NextInsn, ControlInv
<1> QED
  BY <1>2, <1>3 DEF Marked

(* At the prompt and between those turns.                                  *)
LEMMA AtRest ==
  ASSUME LooseInv, Live, at \in {"idle", "arm"}
  PROVE  /\ TypeOK /\ Marked /\ MarkedTable /\ sig = "none" /\ run = "stopped" /\ ret.mem_addr = -1
         /\ pc \in Insns /\ pc \in Int /\ stack \in Seq(ReturnSites)
         /\ mem \in [Mem -> Byte] /\ Marks(mem, DOMAIN bps)
<1>1. TypeOK /\ Marked /\ run = "stopped" /\ sig = "none"
  BY DEF LooseInv, Live, TakesTurns
<1>2. ret.mem_addr = -1
  BY <1>1 DEF Marked, MarkedRet
<1>3. pc \in Insns /\ stack \in Seq(ReturnSites)
  BY <1>1 DEF Marked, MarkedPlace, NextInsn
<1>4. Marks(mem, DOMAIN bps)
  BY <1>1, <1>2, NoAddress DEF Marked, MarkedText
<1> QED
  BY <1>1, <1>2, <1>3, <1>4, AddressTypes DEF Marked, TypeOK

(* While the child runs and when it has stopped.                           *)
LEMMA InFlight ==
  ASSUME LooseInv, Live, at \in {"over", "step", "run"}
  PROVE  /\ TypeOK /\ Marked /\ MarkedTable /\ NextInsn \in Insns /\ stack \in Seq(ReturnSites)
         /\ mem \in [Mem -> Byte] /\ Marks(mem, DOMAIN bps \cup {ret.mem_addr})
         /\ cmd \in {"continue", "step", "finish", "next"}
         /\ cmd = "next" => DOMAIN bps \subseteq from.table \cup OwnLines(from.pc)
BY DEF LooseInv, TakesTurns, TypeOK, Marked, MarkedPlace, MarkedText, ArmsOwnLines
-----------------------------------------------------------------------------
(* One lemma per action.                                                   *)

(* A handler that returns without having touched the child or the table.  *)
LEMMA QuietMarked ==
  ASSUME Uncrowded, LooseInv, Live, at \in {"idle", "arm"}, NEW r, Done(r),
         UNCHANGED <<mem, pc, stack, sig, bps>>
  PROVE  Marked'
<1>1. /\ MarkedTable /\ sig = "none" /\ pc \in Insns /\ stack \in Seq(ReturnSites)
      /\ Marks(mem, DOMAIN bps)
  BY AtRest
<1>2. MarkedTable' /\ Marks(mem', DOMAIN bps')
  BY <1>1 DEF MarkedTable
<1> QED
  BY <1>1, <1>2, DoneMarked

LEMMA RefuseMarked ==
  ASSUME Uncrowded, LooseInv, Live, NEW r, Refuse(r) PROVE Marked'
BY QuietMarked DEF Refuse, Prompt, debuggee

(* A breakpoint at an address that has none enters the table and the text. *)
LEMMA SaveMarked ==
  ASSUME LooseInv, Live, at \in {"idle", "arm"}, NEW b \in Breakpoint, Mapped(b.mem_addr),
         b.mem_addr \notin DOMAIN bps,
         mem' = armed_text(mem, b), bps' = save_breakpoint(bps, enabled_record(mem, b))
  PROVE  Marks(mem', DOMAIN bps') /\ MarkedTable' /\ DOMAIN bps' = DOMAIN bps \cup {b.mem_addr}
<1> DEFINE a == b.mem_addr
           r == enabled_record(mem, b)
<1>1. mem \in [Mem -> Byte] /\ Marks(mem, DOMAIN bps) /\ MarkedTable
  BY AtRest
<1>2. /\ r.mem_addr = a /\ r.enabled /\ r.saved_data[0] = mem[a] /\ MarksWord(r, DOMAIN bps)
  BY <1>1, SavedMarks
<1>3. mem[a] = "code"
  BY <1>1 DEF Marks, Mapped
<1>4. Marks(mem', DOMAIN bps \cup {a})
  BY <1>1, ArmedMarks
<1> HIDE DEF r, a
<1>5. DOMAIN bps' = DOMAIN bps \cup {a} /\ bps'[a] = r /\ \A c \in DOMAIN bps : bps'[c] = bps[c]
  BY <1>2 DEF save_breakpoint, r, a
<1>6. Mapped(a)
  BY DEF a
<1>7. MarkedTable'
  BY <1>1, <1>2, <1>3, <1>5, <1>6 DEF MarkedTable, MarksWord
<1> QED
  BY <1>4, <1>5, <1>7 DEF a

LEMMA EnableMarked ==
  ASSUME Uncrowded, LooseInv, Live, NEW a \in EnableSites, handle_breakpoint_enable(a)
  PROVE  Marked'
<1>1. CASE Refuse("err")
  BY <1>1, RefuseMarked
<1>2. CASE /\ Prompt /\ Mapped(a)
           /\ mem' = armed_text(mem, get_breakpoint_at_addr(bps, a))
           /\ bps' = save_breakpoint(bps, enabled_record(mem, get_breakpoint_at_addr(bps, a)))
           /\ Done("OK")
           /\ UNCHANGED debuggee
  <2>1. at = "idle" /\ UNCHANGED <<pc, stack, run, sig, nsig>>
    BY <1>2 DEF Prompt, debuggee
  <2>2. TypeOK /\ MarkedTable /\ sig = "none" /\ pc \in Insns /\ stack \in Seq(ReturnSites)
    BY <2>1, AtRest
  <2>3. a \in Int /\ a \notin DOMAIN bps
    BY SitesAssumption DEF EnableSites, Uncrowded
  <2>4. PICK b : b = get_breakpoint_at_addr(bps, a)
    OBVIOUS
  <2>5. b \in Breakpoint /\ b.mem_addr = a
    BY <2>2, <2>3, <2>4, LooseLookup
  <2>6. Marks(mem', DOMAIN bps') /\ MarkedTable'
    BY <1>2, <2>1, <2>3, <2>4, <2>5, SaveMarked
  <2> QED
    BY <1>2, <2>1, <2>2, <2>6, DoneMarked
<1> QED
  BY <1>1, <1>2 DEF handle_breakpoint_enable

(* No other word holds the byte at a site, so none can bring it back.      *)
LEMMA DisableMarked ==
  ASSUME Uncrowded, LooseInv, Live, NEW a \in DisableSites, handle_breakpoint_disable(a)
  PROVE  Marked'
<1>1. CASE Refuse("err")
  BY <1>1, RefuseMarked
<1>2. CASE /\ Prompt
           /\ mem' = disable_breakpoint(mem, get_breakpoint_at_addr(bps, a))
           /\ bps' = delete_breakpoint(bps, get_breakpoint_at_addr(bps, a))
           /\ Done("OK")
           /\ UNCHANGED debuggee
  <2> DEFINE D == DOMAIN bps \ {a}
  <2>1. at = "idle" /\ UNCHANGED <<pc, stack, run, sig, nsig>>
    BY <1>2 DEF Prompt, debuggee
  <2>2. /\ TypeOK /\ MarkedTable /\ sig = "none" /\ pc \in Insns /\ stack \in Seq(ReturnSites)
        /\ mem \in [Mem -> Byte] /\ Marks(mem, DOMAIN bps)
    BY <2>1, AtRest
  <2>3. a \in Int /\ a \in DOMAIN bps /\ a \in Sites
    BY SitesAssumption DEF DisableSites, Uncrowded
  <2>4. PICK b : b = get_breakpoint_at_addr(bps, a)
    OBVIOUS
  <2>5. b \in Breakpoint /\ b.mem_addr = a /\ b.saved_data[0] = "code" /\ MarksWord(b, DOMAIN bps)
    BY <2>2, <2>3, <2>4, LooseLookup
  <2>6. DOMAIN bps' = D /\ \A c \in D : bps'[c] = bps[c]
    BY <1>2, <2>4, <2>5 DEF delete_breakpoint
  <2>7. MarksWord(b, D)
    <3>1. ASSUME NEW i \in 0 .. WordSize - 1, a + i = a PROVE i = 0
      BY <2>3, <3>1, WordAssumption
    <3> QED
      BY <2>5, <3>1 DEF MarksWord
  <2>8. \A x \in Mem : x # a => mem[x] = "code" \/ (mem[x] = "int3" /\ x \in D)
    BY <2>2 DEF Marks
  <2> HIDE DEF D
  <2>9. Marks(mem', DOMAIN bps')
    BY <1>2, <2>2, <2>4, <2>5, <2>6, <2>7, <2>8, DisabledMarks
  <2>10. ASSUME NEW c \in D, NEW i \in 0 .. WordSize - 1, c + i = a PROVE FALSE
    <3>1. c \in Addresses /\ c \in Int /\ c # a
      BY <2>2, TableAddress DEF D
    <3>2. c < a
      BY <2>3, <2>10, <3>1, WordAssumption
    <3>3. c + WordSize <= a
      BY <2>3, <3>1, <3>2 DEF Uncrowded
    <3> QED
      BY <2>3, <2>10, <3>1, <3>3, WordAssumption
  <2>11. ASSUME NEW c \in D PROVE MarksWord(bps[c], D)
    <3>1. bps[c].mem_addr = c /\ MarksWord(bps[c], DOMAIN bps)
      BY <2>2, <2>11 DEF TypeOK, MarkedTable, D
    <3> QED
      BY <2>10, <2>11, <3>1 DEF MarksWord, D
  <2>12. MarkedTable'
    BY <2>2, <2>6, <2>11 DEF MarkedTable, MarksWord, D
  <2> QED
    BY <1>2, <2>1, <2>2, <2>9, <2>12, DoneMarked
<1> QED
  BY <1>1, <1>2 DEF handle_breakpoint_disable

LEMMA ContinueMarked == ASSUME Uncrowded, LooseInv, Live, handle_continue PROVE Marked'
<1>1. CASE Refuse("err")
  BY <1>1, RefuseMarked
<1>2. CASE /\ Start("continue")
           /\ StepOverAndContinue(mem)
           /\ UNCHANGED <<pc, stack, sig, nsig, bps, ret, times, line, high, res>>
  <2>1. at = "idle" /\ cmd' = "continue"
    BY <1>2 DEF Start, Prompt
  <2>2. /\ TypeOK /\ MarkedTable /\ sig = "none" /\ pc \in Insns /\ pc \in Int /\ stack \in Seq(ReturnSites)
        /\ mem \in [Mem -> Byte] /\ Marks(mem, DOMAIN bps) /\ ret.mem_addr = -1
    BY <2>1, AtRest
  <2>3. /\ Marks(mem', DOMAIN bps)
        /\ \/ over'.mem_addr \in DOMAIN bps /\ at' = "over" /\ run' = "stepping"
           \/ at' = "run" /\ run' = "running"
    BY <1>2, <2>2, ResumeMarks
  <2>4. Marks(mem', DOMAIN bps \cup {ret'.mem_addr})
    BY <2>3 DEF Marks
  <2> QED
    BY <1>2, <2>1, <2>2, <2>3, <2>4, GoesMarked
<1> QED
  BY <1>1, <1>2 DEF handle_continue

(* A turn of handle_step's loop.                                           *)
LEMMA TurnMarked ==
  ASSUME Uncrowded, TypeOK, MarkedTable, NEW p \in Insns, NEW n, NEW m \in [Mem -> Byte], Marks(m, DOMAIN bps),
         StepTurn(m, p, n), cmd' = "step", pc' = p, sig' = "none", ret.mem_addr = -1,
         stack \in Seq(ReturnSites), UNCHANGED <<stack, bps, ret>>
  PROVE  Marked'
<1>1. p \in Int
  BY AddressTypes
<1>2. /\ Marks(mem', DOMAIN bps) /\ run' = "stepping"
      /\ (over'.mem_addr \in DOMAIN bps /\ at' = "over") \/ at' = "step"
  BY <1>1, TurnMarks
<1>3. Marks(mem', DOMAIN bps \cup {ret'.mem_addr})
  BY <1>2 DEF Marks
<1> QED
  BY <1>2, <1>3, GoesMarked

LEMMA StepMarked == ASSUME Uncrowded, LooseInv, Live, NEW n, handle_step(n) PROVE Marked'
<1>1. CASE Refuse("OK") \/ Refuse("err")
  BY <1>1, RefuseMarked
<1>2. CASE /\ Start("step")
           /\ StepTurn(mem, pc, n)
           /\ UNCHANGED <<pc, stack, sig, nsig, bps, ret, line, high, res>>
  <2>1. at = "idle" /\ cmd' = "step"
    BY <1>2 DEF Start, Prompt
  <2>2. /\ TypeOK /\ MarkedTable /\ sig = "none" /\ pc \in Insns /\ stack \in Seq(ReturnSites)
        /\ mem \in [Mem -> Byte] /\ Marks(mem, DOMAIN bps) /\ ret.mem_addr = -1
    BY <2>1, AtRest
  <2> QED
    BY <1>2, <2>1, <2>2, TurnMarked
<1> QED
  BY <1>1, <1>2 DEF handle_step

LEMMA StepOutMarked ==
  ASSUME Uncrowded, LooseInv, Live, at \in {"idle", "arm"}, NEW c \in {"finish", "next"}, NEW o,
         StepOutBody(c, o), UNCHANGED <<pc, stack, sig, nsig, bps>>,
         c = "next" => DOMAIN bps \subseteq o.table \cup OwnLines(o.pc)
  PROVE  Marked'
<1>1. /\ TypeOK /\ MarkedTable /\ sig = "none" /\ pc \in Insns /\ pc \in Int /\ stack \in Seq(ReturnSites)
      /\ mem \in [Mem -> Byte] /\ Marks(mem, DOMAIN bps)
  BY AtRest
<1>2. CASE (Done("err") \/ Done("OK")) /\ UNCHANGED mem
  BY <1>2, QuietMarked
<1>3. CASE /\ stack # <<>>
           /\ Mapped(get_breakpoint_at_addr(bps, Head(stack)).mem_addr)
           /\ ret' = enabled_record(mem, get_breakpoint_at_addr(bps, Head(stack)))
           /\ StepOverAndContinue(armed_text(mem, get_breakpoint_at_addr(bps, Head(stack))))
           /\ cmd' = c /\ from' = o
  <2>1. PICK R : R = Head(stack)
    OBVIOUS
  <2>2. R \in ReturnSites /\ R \in Int /\ R # -1
    <3>1. R \in ReturnSites
      BY <1>1, <1>3, <2>1
    <3>2. R \in Insns /\ -1 \notin Mem
      BY <3>1, LayoutAssumption, MemAssumption DEF Mem
    <3> QED
      BY <3>1, <3>2, AddressTypes
  <2>3. PICK b : b = get_breakpoint_at_addr(bps, R)
    OBVIOUS
  <2>4. b \in Breakpoint /\ b.mem_addr = R /\ Mapped(b.mem_addr) /\ ret' = enabled_record(mem, b)
    BY <1>1, <1>3, <2>1, <2>2, <2>3, LooseLookup
  <2>5. ret'.mem_addr = R /\ MarksWord(ret', DOMAIN bps)
    BY <1>1, <2>4, SavedMarks
  <2>6. PICK m : m = armed_text(mem, b)
    OBVIOUS
  <2>7. m \in [Mem -> Byte] /\ Marks(m, DOMAIN bps \cup {R})
    BY <1>1, <2>4, <2>6, ArmedTextType, ArmedMarks
  <2>8. StepOverAndContinue(m)
    BY <1>3, <2>1, <2>3, <2>6
  <2>9. /\ Marks(mem', DOMAIN bps \cup {R})
        /\ \/ over'.mem_addr \in DOMAIN bps /\ at' = "over" /\ run' = "stepping"
           \/ at' = "run" /\ run' = "running"
    BY <1>1, <2>7, <2>8, ResumeMarks
  <2>10. cmd' = "next" => DOMAIN bps \subseteq from'.table \cup OwnLines(from'.pc)
    BY <1>3
  <2> QED
    BY <1>1, <1>3, <2>2, <2>5, <2>9, <2>10, GoesMarked
<1> QED
  BY <1>2, <1>3 DEF StepOutBody

LEMMA FinishMarked == ASSUME Uncrowded, LooseInv, Live, step_out PROVE Marked'
<1>1. CASE Refuse("err")
  BY <1>1, RefuseMarked
<1>2. CASE /\ Prompt /\ StepOutBody("finish", Here)
           /\ UNCHANGED <<pc, stack, sig, nsig, bps>>
  <2>1. PICK o : o = Here
    OBVIOUS
  <2> QED
    BY <1>2, <2>1, StepOutMarked DEF Prompt
<1> QED
  BY <1>1, <1>2 DEF step_out

(* The row of a function's first address: the later rows are not before    *)
(* the function.                                                           *)
LEMMA FirstRow ==
  ASSUME NEW a \in LineAddrs, NEW k, search_addr_in_lines(a, k), NEW i \in DOMAIN Lines, i >= k
  PROVE  Lines[i] >= a
<1>1. PICK j \in DOMAIN Lines : a = Lines[j]
  BY DEF LineAddrs
<1>2. j <= k
  BY <1>1, LinesAssumption DEF search_addr_in_lines
<1>3. j = i \/ j < i
  BY <1>1, <1>2, LinesAssumption DEF search_addr_in_lines
<1> QED
  BY <1>1, <1>3, LinesAssumption

LEMMA NextMarked == ASSUME Uncrowded, LooseInv, Live, step_in PROVE Marked'
<1>1. CASE Refuse("err")
  BY <1>1, RefuseMarked
<1>2. CASE /\ Start("next")
           /\ \E s \in Subprograms : high' = s[1].high /\ line' = s[2]
           /\ at' = "arm"
           /\ UNCHANGED <<mem, debuggee, bps, over, ret, times, res>>
  <2>1. at = "idle" /\ cmd' = "next" /\ from' = Here /\ UNCHANGED <<pc, stack, run, sig, nsig>>
    BY <1>2 DEF Start, Prompt, debuggee
  <2>2. /\ MarkedTable /\ sig = "none" /\ pc \in Insns /\ stack \in Seq(ReturnSites)
        /\ Marks(mem, DOMAIN bps) /\ ret.mem_addr = -1
    BY <2>1, AtRest
  <2>3. PICK s \in Subprograms : high' = s[1].high /\ line' = s[2]
    BY <1>2
  <2>4. /\ s[1] \in Functions /\ s[1].low <= pc /\ pc < s[1].high
        /\ search_addr_in_lines(s[1].low, s[2])
    BY <2>3 DEF Subprograms
  <2>5. \A i \in DOMAIN Lines : i >= line' => Lines[i] >= s[1].low
    BY <2>3, <2>4, FirstRow DEF Uncrowded
  <2>6. ArmsOwnLines'
    BY <1>2, <2>1, <2>3, <2>4, <2>5 DEF ArmsOwnLines, Here
  <2>7. MarkedTable' /\ Marks(mem', DOMAIN bps')
    BY <1>2, <2>2 DEF MarkedTable
  <2> QED
    BY <1>2, <2>1, <2>2, <2>6, <2>7, LoopsMarked
<1> QED
  BY <1>1, <1>2 DEF step_in

LEMMA SetRipMarked ==
  ASSUME Uncrowded, LooseInv, Live, NEW v \in RipValues, handle_register_write_rip(v) PROVE Marked'
<1>1. at = "idle" /\ UNCHANGED <<mem, stack, run, sig, nsig, bps>>
  BY DEF handle_register_write_rip, Prompt
<1>2. MarkedTable /\ sig = "none" /\ pc \in Insns /\ stack \in Seq(ReturnSites) /\ Marks(mem, DOMAIN bps)
  BY <1>1, AtRest
<1>3. (pc' = v \/ pc' = pc) /\ (Done("OK") \/ Done("err"))
  BY DEF handle_register_write_rip
<1>4. pc' \in Insns
  BY <1>2, <1>3, RipAssumption
<1>5. MarkedTable' /\ Marks(mem', DOMAIN bps')
  BY <1>1, <1>2 DEF MarkedTable
<1> QED
  BY <1>1, <1>2, <1>3, <1>4, <1>5, DoneMarked

LEMMA ArmMarked == ASSUME Uncrowded, LooseInv, Live, Arm PROVE Marked'
<1> DEFINE l == Lines[line]
           t == [make_breakpoint(l) EXCEPT !.temporary_enable = TRUE]
<1>1. at = "arm" /\ line <= Len(Lines) /\ UNCHANGED <<pc, stack, run, sig, nsig>>
  BY DEF Arm, debuggee
<1>2. /\ TypeOK /\ Marked /\ MarkedTable /\ sig = "none" /\ pc \in Insns /\ stack \in Seq(ReturnSites)
      /\ Marks(mem, DOMAIN bps) /\ ret.mem_addr = -1
  BY <1>1, AtRest
<1>3. cmd = "next" /\ line \in DOMAIN Lines /\ line \in Int /\ l \in LineAddrs /\ l \in Int
  BY <1>1, <1>2, ArmingLine, AddressTypes DEF Marked, ControlInv, LineAddrs, TypeOK
<1>4. PICK f \in Functions :
        /\ f.low <= from.pc /\ from.pc < f.high /\ high = f.high
        /\ \A i \in DOMAIN Lines : i >= line => Lines[i] >= f.low
  BY <1>1, <1>2, <1>3 DEF Marked, ArmsOwnLines
<1>5. DOMAIN bps \subseteq from.table \cup OwnLines(from.pc)
  BY <1>2, <1>3 DEF Marked, ArmsOwnLines
<1>6. line' = line + 1 => \A i \in DOMAIN Lines : i >= line' => Lines[i] >= f.low
  BY <1>3, <1>4, LinesAssumption
<1>7. CASE Done("err") /\ UNCHANGED <<mem, bps>>
  BY <1>1, <1>7, QuietMarked
<1>8. CASE line' = line + 1 /\ UNCHANGED <<mem, bps, cmd, at, over, ret, times, high, res, from>>
  <2>1. ArmsOwnLines'
    BY <1>4, <1>5, <1>6, <1>8 DEF ArmsOwnLines, OwnLines
  <2>2. MarkedTable' /\ Marks(mem', DOMAIN bps')
    BY <1>2, <1>8 DEF MarkedTable
  <2> QED
    BY <1>1, <1>2, <1>3, <1>8, <2>1, <2>2, LoopsMarked
<1>9. CASE /\ ~PastFunction /\ ~get_breakpoint_at_addr(bps, l).enabled
           /\ Mapped(t.mem_addr)
           /\ mem' = armed_text(mem, t)
           /\ bps' = save_breakpoint(bps, enabled_record(mem, t))
           /\ line' = line + 1
           /\ UNCHANGED <<cmd, at, over, ret, times, high, res, from>>
  <2>1. l \notin DOMAIN bps
    BY <1>2, <1>3, <1>9, LooseLookup
  <2>2. l < high
    BY <1>2, <1>3, <1>9 DEF PastFunction, TypeOK
  <2>3. t \in Breakpoint /\ t.mem_addr = l
    BY <1>3, FreshType DEF make_breakpoint, Breakpoint
  <2>4. l \in OwnLines(from.pc)
    <3>1. line >= line
      BY <1>3
    <3> QED
      BY <1>3, <1>4, <2>2, <3>1 DEF OwnLines
  <2> HIDE DEF t, l
  <2>5. Marks(mem', DOMAIN bps') /\ MarkedTable' /\ DOMAIN bps' = DOMAIN bps \cup {l}
    BY <1>1, <1>9, <2>1, <2>3, SaveMarked
  <2>6. ArmsOwnLines'
    BY <1>4, <1>5, <1>6, <1>9, <2>4, <2>5 DEF ArmsOwnLines, OwnLines
  <2> QED
    BY <1>1, <1>2, <1>3, <1>9, <2>5, <2>6, LoopsMarked
<1> QED
  BY <1>7, <1>8, <1>9 DEF Arm

LEMMA ArmedMarked == ASSUME Uncrowded, LooseInv, Live, Armed PROVE Marked'
<1>1. at = "arm" /\ UNCHANGED <<pc, stack, sig, nsig, bps>>
  BY DEF Armed
<1>2. CASE StepOutBody("next", from)
  <2>1. DOMAIN bps \subseteq from.table \cup OwnLines(from.pc)
    BY <1>1 DEF LooseInv, Marked, ControlInv, ArmsOwnLines
  <2> QED
    BY <1>1, <1>2, <2>1, StepOutMarked
<1>3. CASE Done("err") /\ UNCHANGED <<mem, run>>
  BY <1>1, <1>3, QuietMarked
<1> QED
  BY <1>2, <1>3 DEF Armed

(* Without signals a wait fails only when the child is gone.               *)
LEMMA NeverFails == ASSUME Uncrowded, LooseInv, Live PROVE ~WaitFails
BY DEF Uncrowded, LooseInv, Live, WaitFails, Traced, Marked, ControlInv, TypeOK

LEMMA WaitOverMarked == ASSUME Uncrowded, LooseInv, Live, WaitOver PROVE Marked'
<1>1. at = "over" /\ pc' = NextInsn /\ sig' = "none" /\ UNCHANGED <<stack, nsig, bps>>
  BY DEF WaitOver, Rearmed, handle_sigtrap, NextInsn
<1>2. PICK m : m = armed_text(mem, over)
  OBVIOUS
<1>3. PICK p : p = pc'
  OBVIOUS
<1>4. /\ TypeOK /\ Marked /\ MarkedTable /\ p \in Insns /\ stack \in Seq(ReturnSites)
      /\ mem \in [Mem -> Byte] /\ Marks(mem, DOMAIN bps \cup {ret.mem_addr})
      /\ cmd \in {"continue", "step", "finish", "next"}
      /\ cmd = "next" => DOMAIN bps \subseteq from.table \cup OwnLines(from.pc)
  BY <1>1, <1>3, InFlight
<1>5. over \in Breakpoint /\ over.mem_addr \in DOMAIN bps
  BY <1>1, <1>4 DEF Marked, MarkedPlace, TypeOK
<1>6. m \in [Mem -> Byte] /\ Marks(m, DOMAIN bps \cup {ret.mem_addr})
  <2>1. Marks(m, (DOMAIN bps \cup {ret.mem_addr}) \cup {over.mem_addr})
    BY <1>2, <1>4, <1>5, ArmedMarks
  <2> QED
    BY <1>2, <1>4, <1>5, <2>1, ArmedTextType DEF Marks
<1>7. cmd = "step" => ret.mem_addr = -1 /\ Marks(m, DOMAIN bps)
  BY <1>4, <1>6, NoAddress DEF Marked, MarkedRet
<1>8. CASE /\ cmd # "step"
           /\ mem' = m
           /\ run' = "running"
           /\ at' = "run"
           /\ UNCHANGED <<cmd, ret, times, line, high, res, from>>
  <2>1. /\ ret'.mem_addr # -1 <=> cmd' \in {"finish", "next"}
        /\ ret'.mem_addr # -1 => ret'.mem_addr \in ReturnSites /\ MarksWord(ret', DOMAIN bps)
    BY <1>1, <1>4, <1>8 DEF Marked, MarkedRet
  <2>2. cmd' = "next" => DOMAIN bps \subseteq from'.table \cup OwnLines(from'.pc)
    BY <1>4, <1>8
  <2> QED
    BY <1>1, <1>3, <1>4, <1>6, <1>8, <2>1, <2>2, GoesMarked
<1>9. CASE /\ cmd = "step"
           /\ StepTurn(m, p, times)
           /\ UNCHANGED <<cmd, ret, line, high, res, from>>
  BY <1>1, <1>3, <1>4, <1>6, <1>7, <1>9, TurnMarked
<1>10. CASE /\ cmd = "step"
            /\ mem' = m
            /\ Done("OK")
            /\ UNCHANGED run
  <2>1. Marks(mem', DOMAIN bps') /\ MarkedTable'
    BY <1>1, <1>4, <1>7, <1>10 DEF MarkedTable
  <2> QED
    BY <1>1, <1>3, <1>4, <1>10, <2>1, DoneMarked
<1> QED
  BY <1>2, <1>3, <1>8, <1>9, <1>10 DEF WaitOver, Rearmed

LEMMA WaitStepMarked == ASSUME Uncrowded, LooseInv, Live, WaitStep PROVE Marked'
<1>1. at = "step" /\ pc' = NextInsn /\ sig' = "none" /\ UNCHANGED <<stack, nsig, bps>>
  BY DEF WaitStep, handle_sigtrap, NextInsn
<1>2. PICK p : p = pc'
  OBVIOUS
<1>3. /\ TypeOK /\ Marked /\ MarkedTable /\ p \in Insns /\ stack \in Seq(ReturnSites)
      /\ mem \in [Mem -> Byte] /\ Marks(mem, DOMAIN bps \cup {ret.mem_addr})
  BY <1>1, <1>2, InFlight
<1>4. cmd = "step" /\ ret.mem_addr = -1 /\ Marks(mem, DOMAIN bps)
  BY <1>1, <1>3, NoAddress DEF Marked, MarkedRet, ControlInv
<1>5. CASE StepTurn(mem, p, times) /\ UNCHANGED <<cmd, ret, line, high, res, from>>
  BY <1>1, <1>2, <1>3, <1>4, <1>5, TurnMarked
<1>6. CASE Done("OK") /\ UNCHANGED <<mem, run>>
  <2>1. Marks(mem', DOMAIN bps') /\ MarkedTable'
    BY <1>1, <1>3, <1>4, <1>6 DEF MarkedTable
  <2> QED
    BY <1>1, <1>2, <1>3, <1>6, <2>1, DoneMarked
<1> QED
  BY <1>2, <1>5, <1>6 DEF WaitStep

LEMMA WaitRunMarked == ASSUME Uncrowded, LooseInv, Live, WaitRun PROVE Marked'
<1>1. at = "run" /\ pc' = NextInsn /\ sig' = "none" /\ UNCHANGED <<stack, run, nsig, bps>>
  BY DEF WaitRun, Released, handle_sigtrap, NextInsn
<1>2. /\ TypeOK /\ Marked /\ MarkedTable /\ NextInsn \in Insns /\ stack \in Seq(ReturnSites)
      /\ mem \in [Mem -> Byte] /\ Marks(mem, DOMAIN bps \cup {ret.mem_addr})
      /\ cmd \in {"continue", "step", "finish", "next"}
  BY <1>1, InFlight
<1>3. Marks(mem', DOMAIN bps)
  <2>1. CASE cmd = "continue"
    <3>1. mem' = mem /\ ret.mem_addr = -1
      BY <1>2, <2>1 DEF WaitRun, Released, Marked, MarkedRet
    <3> QED
      BY <1>2, <3>1, NoAddress
  <2>2. CASE cmd # "continue"
    <3>1. mem' = disable_breakpoint(mem, ret) /\ ret \in Breakpoint
      BY <1>2, <2>2 DEF WaitRun, Released, TypeOK
    <3>2. MarksWord(ret, DOMAIN bps)
      BY <1>1, <1>2, <2>2 DEF Marked, MarkedRet, ControlInv
    <3>3. \A x \in Mem : x # ret.mem_addr => mem[x] = "code" \/ (mem[x] = "int3" /\ x \in DOMAIN bps)
      BY <1>2 DEF Marks
    <3> QED
      BY <1>2, <3>1, <3>2, <3>3, DisabledMarks
  <2> QED
    BY <2>1, <2>2
<1>4. MarkedTable' /\ Marks(mem', DOMAIN bps')
  BY <1>1, <1>2, <1>3 DEF MarkedTable
<1>5. Done("OK") \/ Done("err")
  BY DEF WaitRun, Released
<1> QED
  BY <1>1, <1>2, <1>4, <1>5, DoneMarked

(* A child that runs has an int3 or its own instruction before it.         *)
LEMMA OwnTextLoose ==
  ASSUME Uncrowded, LooseInv, Live, run \in {"running", "stepping"}
  PROVE  /\ NextInsn = pc /\ pc \in Insns /\ pc \in Int /\ pc \in Mem
         /\ mem[pc] = "int3" \/ (mem[pc] = "code" /\ Intact(mem, pc))
         /\ mem[pc] = "int3" => ~Intact(mem, pc)
<1>1. /\ TypeOK /\ MarkedTable /\ NextInsn = pc /\ pc \in Insns
      /\ MarkedText /\ MarkedRet
  BY DEF LooseInv, TakesTurns, Marked, MarkedPlace, NextInsn
<1>2. pc \in Int /\ pc \in Mem
  BY <1>1, AddressTypes
<1>3. \A x \in Mem : mem[x] = "code" \/ (mem[x] = "int3" /\ x \in Insns)
  <2>1. DOMAIN bps \subseteq Insns
    BY <1>1, TableInsns
  <2>2. ret.mem_addr # -1 => ret.mem_addr \in Insns
    BY <1>1, LayoutAssumption DEF MarkedRet
  <2>3. -1 \notin Mem
    BY MemAssumption DEF Mem
  <2> QED
    BY <1>1, <2>1, <2>2, <2>3 DEF MarkedText, Marks
<1>4. Program[pc].len \in Nat \ {0} /\ pc + Program[pc].len <= MemSize
  BY <1>1, ProgramAssumption
<1>5. mem[pc] = "int3" => ~Intact(mem, pc)
  BY <1>1, <1>2, <1>4 DEF Intact
<1>6. ASSUME mem[pc] # "int3" PROVE Intact(mem, pc)
  <2>1. ASSUME NEW x \in pc .. pc + Program[pc].len - 1 PROVE mem[x] = "code"
    <3>1. x \in Mem /\ x \in Int
      BY <1>2, <1>4, MemAssumption DEF Mem
    <3>2. CASE x = pc
      BY <1>3, <1>6, <3>1, <3>2
    <3>3. CASE x # pc
      <4>1. pc < x /\ x < pc + Program[pc].len
        BY <1>2, <1>4, <3>1, <3>3
      <4>2. x \notin Insns
        BY <1>1, <1>2, <1>4, <3>1, <4>1, LayoutAssumption
      <4> QED
        BY <1>3, <3>1, <4>2
    <3> QED
      BY <3>2, <3>3
  <2> QED
    BY <1>1, <2>1 DEF Intact
<1>7. mem[pc] = "int3" \/ mem[pc] = "code"
  BY <1>2, <1>3
<1> QED
  BY <1>1, <1>2, <1>5, <1>6, <1>7

(* What an instruction does, when an int3 or the program's own is next.    *)
LEMMA Executes ==
  ASSUME Uncrowded, LooseInv, Live, Live', Execute
  PROVE  /\ UNCHANGED <<mem, nsig, bps, cmd, at, locals, res, from>>
         /\ sig = "none" /\ run' \in {"stopped", "running"} /\ sig' # "signal"
         /\ at = "run" => run' # "stepping" /\ sig' # "trace"
         /\ sig' = "trap" => mem[NextInsn'] = "int3"
         /\ \/ mem[NextInsn] = "int3" /\ NextInsn' = NextInsn /\ stack' = stack /\ run' = "stopped"
            \/ /\ mem[NextInsn] = "code"
               /\ \E o \in Outcomes(NextInsn, stack) : NextInsn' = o[1] /\ stack' = o[2]
<1>1. /\ sig = "none" /\ run \in {"running", "stepping"}
      /\ UNCHANGED <<mem, nsig, bps, cmd, at, locals, res, from>>
      /\ at = "run" => run # "stepping"
  BY DEF Execute, LooseInv, TakesTurns, Marked, ControlInv
<1>2. /\ NextInsn = pc /\ pc \in Int
      /\ mem[pc] = "int3" \/ (mem[pc] = "code" /\ Intact(mem, pc))
      /\ mem[pc] = "int3" => ~Intact(mem, pc)
  BY <1>1, OwnTextLoose
<1>3. CASE mem[pc] = "int3"
  <2>1. run' = "stopped" /\ sig' = "trap" /\ pc' = pc + 1 /\ stack' = stack
    BY <1>2, <1>3 DEF Execute, Stop
  <2>2. NextInsn' = pc
    BY <1>2, <2>1 DEF NextInsn
  <2> QED
    BY <1>1, <1>2, <1>3, <2>1, <2>2
<1>4. CASE mem[pc] = "code" /\ Intact(mem, pc)
  <2>1. /\ \E o \in Outcomes(pc, stack) : pc' = o[1] /\ stack' = o[2]
        /\ \/ run = "stepping" /\ run' = "stopped" /\ sig' = "trace"
           \/ run = "running" /\ UNCHANGED <<run, sig>>
    BY <1>4 DEF Execute, Stop, Live
  <2>2. NextInsn' = pc'
    BY <1>1, <2>1 DEF NextInsn
  <2> QED
    BY <1>1, <1>2, <1>4, <2>1, <2>2
<1> QED
  BY <1>2, <1>3, <1>4

LEMMA ExecuteMarked == ASSUME Uncrowded, LooseInv, Live, Live', Execute PROVE Marked'
<1>1. /\ UNCHANGED <<mem, nsig, bps, cmd, at, locals, res, from>>
      /\ sig = "none" /\ run' \in {"stopped", "running"} /\ sig' # "signal"
      /\ at = "run" => run' # "stepping" /\ sig' # "trace"
      /\ sig' = "trap" => mem[NextInsn'] = "int3"
      /\ \/ NextInsn' = NextInsn /\ stack' = stack
         \/ \E o \in Outcomes(NextInsn, stack) : NextInsn' = o[1] /\ stack' = o[2]
  BY Executes
<1>2. Marked /\ NextInsn \in Insns /\ stack \in Seq(ReturnSites)
  BY DEF LooseInv, Marked, MarkedPlace
<1>3. NextInsn' \in Insns /\ stack' \in Seq(ReturnSites)
  BY <1>1, <1>2, OutcomeTypes, LayoutAssumption
<1>4. UNCHANGED <<mem, bps, cmd, at, over, ret, line, high, from>>
  BY <1>1 DEF locals
<1>5. MarkedText' /\ MarkedTable' /\ MarkedRet'
  BY <1>2, <1>4 DEF Marked, MarkedText, Marks, MarkedTable, MarksWord, MarkedRet
<1>6. MarkedPlace'
  BY <1>1, <1>2, <1>3, <1>4 DEF Marked, MarkedPlace
<1>7. ControlInv'
  BY <1>1, <1>2, <1>4 DEF Marked, ControlInv
<1>8. ArmsOwnLines'
  BY <1>2, <1>4 DEF Marked, ArmsOwnLines, OwnLines
<1> QED
  BY <1>5, <1>6, <1>7, <1>8 DEF Marked

(* The invariant holds when the first prompt appears.                      *)
LEMMA LooseInit ==
  ASSUME Uncrowded, Init PROVE LooseInv
<1>1. TypeOK /\ TakesTurns
  BY TypeInit DEF Init, TakesTurns
<1>2. MarkedText /\ MarkedTable
  BY DEF Init, MarkedText, Marks, MarkedTable
<1>3. MarkedRet /\ ControlInv /\ ArmsOwnLines
  BY DEF Init, MarkedRet, ControlInv, ArmsOwnLines, NoBreakpoint, make_breakpoint
<1>4. MarkedPlace
  BY EntryAssumption DEF Init, MarkedPlace, NextInsn
<1> QED
  BY <1>1, <1>2, <1>3, <1>4 DEF LooseInv, Marked

(* Every step preserves the invariant.                                     *)
LEMMA LooseStep ==
  ASSUME Uncrowded, LooseInv, [Next]_vars PROVE LooseInv'
<1>1. TypeOK /\ TakesTurns /\ TypeOK' /\ TakesTurns'
  BY TypeStep, TurnsStep DEF LooseInv
<1>2. ASSUME Live' PROVE Marked'
  <2>1. Live /\ Marked
    BY <1>1, <1>2, NeverRevived DEF LooseInv
  <2>2. CASE User
    <3>1. ASSUME Exit PROVE FALSE
      BY <1>1, <1>2, <2>1, <3>1 DEF Exit, Live, Traced, TakesTurns, Prompt
    <3>2. ASSUME NEW a \in EnableSites, handle_breakpoint_enable(a) PROVE Marked'
      BY <2>1, <3>2, EnableMarked
    <3>3. ASSUME NEW a \in DisableSites, handle_breakpoint_disable(a) PROVE Marked'
      BY <2>1, <3>3, DisableMarked
    <3>4. ASSUME NEW n, handle_step(n) PROVE Marked'
      BY <2>1, <3>4, StepMarked
    <3>5. ASSUME NEW v \in RipValues, handle_register_write_rip(v) PROVE Marked'
      BY <2>1, <3>5, SetRipMarked
    <3> QED
      BY <2>1, <2>2, <3>1, <3>2, <3>3, <3>4, <3>5, ContinueMarked, FinishMarked, NextMarked DEF User
  <2>3. CASE Handler
    BY <2>1, <2>3, ArmMarked, ArmedMarked, NeverFails, WaitOverMarked, WaitStepMarked, WaitRunMarked
    DEF Handler
  <2>4. CASE Execute
    BY <1>2, <2>1, <2>4, ExecuteMarked
  <2>5. CASE Signal
    BY <1>1, <2>5 DEF Signal, Uncrowded, TypeOK
  <2>6. CASE Kill
    BY <1>2, <2>6 DEF Kill, Live
  <2>7. CASE UNCHANGED vars
    BY <2>1, <2>7 DEF vars, debuggee, locals, Marked, MarkedText, Marks, MarkedTable, MarksWord,
                      MarkedRet, MarkedPlace, NextInsn, ControlInv, ArmsOwnLines, OwnLines
  <2> QED
    BY <2>2, <2>3, <2>4, <2>5, <2>6, <2>7 DEF Next, Closed
<1> QED
  BY <1>1, <1>2 DEF LooseInv

(* In an uncrowded session int3 is, at every step, nowhere but at the      *)
(* breakpoints of the table and at step_out's own, in the text of the      *)
(* child as in the words that disable_breakpoint will write back.          *)
THEOREM LooseInvariance ==
  ASSUME Uncrowded PROVE Spec => []LooseInv
<1>1. Init => LooseInv
  BY LooseInit
<1>2. LooseInv /\ [Next]_vars => LooseInv'
  BY LooseStep
<1> QED
  BY <1>1, <1>2, PTL DEF Spec
-----------------------------------------------------------------------------
(* Where finish and next stop, in a program without recursion.             *)

LEMMA PushFrame ==
  ASSUME NEW s \in Seq(Int), NEW r \in Int
  PROVE  LET u == <<r>> \o s IN
           /\ Len(u) = Len(s) + 1 /\ u[1] = r
           /\ \A k \in 1 .. Len(s) : u[k + 1] = s[k]
           /\ \A k \in 1 .. Len(u) : k = 1 \/ (k - 1 \in 1 .. Len(s) /\ u[k] = s[k - 1])
OBVIOUS

LEMMA PopFrame ==
  ASSUME NEW s \in Seq(Int), s # <<>>
  PROVE  /\ Len(Tail(s)) = Len(s) - 1 /\ Head(s) = s[1] /\ Len(s) \in Nat \ {0}
         /\ \A k \in 1 .. Len(s) - 1 : Tail(s)[k] = s[k + 1]
OBVIOUS

(* The stack and the levels of its addresses.                              *)
LEMMA StackTypes ==
  ASSUME LooseInv, Live, NEW level, Layered(level)
  PROVE  /\ stack \in Seq(Int) /\ Len(stack) \in Nat /\ DOMAIN stack = 1 .. Len(stack)
         /\ NextInsn \in Insns /\ level[NextInsn] \in Nat
         /\ \A k \in 1 .. Len(stack) : stack[k] \in ReturnSites /\ stack[k] \in Insns /\ level[stack[k]] \in Nat
         /\ from.depth \in Nat
<1>1. stack \in Seq(ReturnSites) /\ NextInsn \in Insns /\ ReturnSites \subseteq Insns /\ TypeOK
  BY LayoutAssumption DEF LooseInv, Marked, MarkedPlace
<1>2. Insns \subseteq Int /\ level \in [Insns -> Nat]
  BY AddressTypes DEF Layered
<1>3. from.depth \in Nat
  BY <1>1 DEF TypeOK, Starts
<1>4. /\ Len(stack) \in Nat /\ DOMAIN stack = 1 .. Len(stack)
      /\ \A k \in 1 .. Len(stack) : stack[k] \in ReturnSites
  BY <1>1
<1>5. stack \in Seq(Int)
  <2>1. \A k \in 1 .. Len(stack) : stack[k] \in Int
    BY <1>1, <1>2, <1>4
  <2> QED
    BY <1>1, <1>4, <2>1
<1> QED
  BY <1>1, <1>2, <1>3, <1>4, <1>5

(* What leaves the program where it is leaves the levels alone.            *)
LEMMA SameRises ==
  ASSUME NEW level, StackRises(level), NextInsn' = NextInsn, stack' = stack
  PROVE  StackRises(level)'
BY DEF StackRises

(* Without a breakpoint of step_out there is nothing to return from.       *)
LEMMA NoReturn ==
  ASSUME ret'.mem_addr = -1, cmd' = "next" /\ at' = "arm" => from'.depth = Len(stack')
  PROVE  KeepsReturn'
BY DEF KeepsReturn

(* The child executes: as long as it is inside, it cannot come to the      *)
(* return address of the frame except by leaving it.                       *)
LEMMA ExecuteRises ==
  ASSUME NEW level, Layered(level), LooseInv, Live, StackRises(level), NEW o \in Outcomes(NextInsn, stack),
         NextInsn' = o[1], stack' = o[2]
  PROVE  StackRises(level)'
<1> DEFINE p == NextInsn
           s == stack
           i == Program[p]
<1>1. /\ s \in Seq(Int) /\ Len(s) \in Nat /\ DOMAIN s = 1 .. Len(s) /\ p \in Insns /\ level[p] \in Nat
      /\ \A k \in 1 .. Len(s) : s[k] \in ReturnSites /\ s[k] \in Insns /\ level[s[k]] \in Nat
  BY StackTypes
<1>2. /\ \A k \in 1 .. Len(s) : level[p] < level[s[k]]
      /\ \A j, k \in 1 .. Len(s) : j < k => level[s[j]] < level[s[k]]
  BY <1>1 DEF StackRises
<1>3. /\ i.op = "go" => \A t \in i.to : level[t] <= level[p]
      /\ i.op = "call" => level[p + i.len] <= level[p] /\ \A t \in i.to : level[t] < level[p + i.len]
      /\ \A t \in i.to : t \in Insns /\ level[t] \in Nat
      /\ i.op = "call" => p + i.len \in Insns /\ level[p + i.len] \in Nat /\ p + i.len \in Int
      /\ i.op \in Ops
  <2>1. level \in [Insns -> Nat] /\ Insns \subseteq Int
    BY AddressTypes DEF Layered
  <2>2. i.op = "call" => p + i.len \in ReturnSites
    BY <1>1 DEF ReturnSites
  <2> QED
    BY <1>1, <2>1, <2>2, ProgramAssumption, LayoutAssumption DEF Layered
<1> SUFFICES ASSUME NEW x, x = NextInsn', NEW u, u = stack'
             PROVE  /\ \A k \in DOMAIN u : level[x] < level[u[k]]
                    /\ \A j, k \in DOMAIN u : j < k => level[u[j]] < level[u[k]]
  BY DEF StackRises
<1> HIDE DEF p, s, i
<1>4. CASE i.op = "go"
  <2>1. u = s /\ x \in i.to
    BY <1>4 DEF Outcomes, p, s, i
  <2>2. level[x] <= level[p] /\ level[x] \in Nat
    BY <1>3, <1>4, <2>1
  <2> QED
    BY <1>1, <1>2, <2>1, <2>2
<1>5. CASE i.op = "call"
  <2>1. u = <<p + i.len>> \o s /\ x \in i.to
    BY <1>5 DEF Outcomes, p, s, i
  <2>2. PICK r : r = p + i.len
    OBVIOUS
  <2>3. r \in Int /\ level[r] \in Nat /\ level[x] \in Nat /\ level[r] <= level[p] /\ level[x] < level[r]
    BY <1>3, <1>5, <2>1, <2>2
  <2>4. /\ Len(u) = Len(s) + 1 /\ u[1] = r
        /\ \A k \in 1 .. Len(u) : k = 1 \/ (k - 1 \in 1 .. Len(s) /\ u[k] = s[k - 1])
        /\ DOMAIN u = 1 .. Len(u)
    BY <1>1, <2>1, <2>2, <2>3, PushFrame
  <2>5. \A k \in 1 .. Len(s) : level[r] < level[s[k]] /\ level[x] < level[s[k]]
    BY <1>1, <1>2, <2>3, SMTT(30)
  <2>6. \A k \in DOMAIN u : level[x] < level[u[k]]
    BY <2>3, <2>4, <2>5
  <2>7. ASSUME NEW j \in DOMAIN u, NEW k \in DOMAIN u, j < k PROVE level[u[j]] < level[u[k]]
    <3>1. k # 1 /\ k - 1 \in 1 .. Len(s) /\ u[k] = s[k - 1] /\ j \in Nat /\ k \in Nat
      BY <1>1, <2>4, <2>7, SMTT(30)
    <3>2. CASE j = 1
      BY <2>4, <2>5, <3>1, <3>2
    <3>3. CASE j # 1
      <4>1. j - 1 \in 1 .. Len(s) /\ u[j] = s[j - 1] /\ j - 1 < k - 1
        BY <2>4, <2>7, <3>1, <3>3, SMTT(30)
      <4> QED
        BY <1>2, <3>1, <4>1
    <3> QED
      BY <3>2, <3>3
  <2> QED
    BY <2>6, <2>7
<1>6. CASE i.op = "ret"
  <2>1. s # <<>> /\ x = Head(s) /\ u = Tail(s)
    BY <1>6 DEF Outcomes, p, s, i
  <2>2. /\ Len(u) = Len(s) - 1 /\ x = s[1] /\ Len(s) \in Nat \ {0} /\ DOMAIN u = 1 .. Len(u)
        /\ \A k \in 1 .. Len(s) - 1 : u[k] = s[k + 1]
    BY <1>1, <2>1, PopFrame
  <2>3. \A k \in 1 .. Len(u) : u[k] = s[k + 1] /\ k + 1 \in 1 .. Len(s) /\ 1 < k + 1 /\ 1 \in 1 .. Len(s)
    BY <2>2
  <2>4. \A k \in DOMAIN u : level[x] < level[u[k]]
    BY <1>2, <2>2, <2>3
  <2>5. ASSUME NEW j \in DOMAIN u, NEW k \in DOMAIN u, j < k PROVE level[u[j]] < level[u[k]]
    <3>1. j + 1 \in 1 .. Len(s) /\ k + 1 \in 1 .. Len(s) /\ j + 1 < k + 1
      BY <2>2, <2>3, <2>5
    <3> QED
      BY <1>2, <2>2, <2>3, <3>1
  <2> QED
    BY <2>4, <2>5
<1>7. i.op # "exit"
  BY DEF Outcomes, p, s, i
<1> QED
  BY <1>3, <1>4, <1>5, <1>6, <1>7 DEF Ops

LEMMA ExecuteReturns ==
  ASSUME NEW level, Layered(level), LooseInv, Live, Inside, run' \in {"stopped", "running"},
         NEW o \in Outcomes(NextInsn, stack), NextInsn' = o[1], stack' = o[2], UNCHANGED <<ret, from>>
  PROVE  Inside' \/ Returned'
<1> DEFINE p == NextInsn
           s == stack
           i == Program[p]
           d == from.depth
           r == ret.mem_addr
<1>1. /\ s \in Seq(Int) /\ Len(s) \in Nat /\ p \in Insns /\ d \in Nat /\ d >= 1 /\ Len(s) >= d
      /\ s[Len(s) - d + 1] = r
  BY StackTypes DEF Inside
<1>2. /\ i.op \in Ops /\ (i.op = "call" => p + i.len \in Int)
  <2>1. i.op = "call" => p + i.len \in ReturnSites
    BY <1>1 DEF ReturnSites
  <2> QED
    BY <1>1, <2>1, ProgramAssumption, LayoutAssumption, AddressTypes
<1> SUFFICES ASSUME NEW x, x = NextInsn', NEW u, u = stack'
             PROVE  \/ d >= 1 /\ Len(u) >= d /\ u[Len(u) - d + 1] = r
                    \/ Len(u) < d /\ x = r
  BY DEF Inside, Returned
<1> HIDE DEF p, s, i, d, r
<1>3. CASE i.op = "go"
  <2>1. u = s
    BY <1>3 DEF Outcomes, p, s, i
  <2> QED
    BY <1>1, <2>1
<1>4. CASE i.op = "call"
  <2>1. u = <<p + i.len>> \o s
    BY <1>4 DEF Outcomes, p, s, i
  <2>2. /\ Len(u) = Len(s) + 1
        /\ \A k \in 1 .. Len(s) : u[k + 1] = s[k]
    BY <1>1, <1>2, <1>4, <2>1, PushFrame
  <2>3. Len(s) - d + 1 \in 1 .. Len(s) /\ Len(u) - d + 1 = (Len(s) - d + 1) + 1 /\ Len(u) >= d
    BY <1>1, <2>2
  <2> QED
    BY <1>1, <2>2, <2>3
<1>5. CASE i.op = "ret"
  <2>1. s # <<>> /\ x = Head(s) /\ u = Tail(s)
    BY <1>5 DEF Outcomes, p, s, i
  <2>2. /\ Len(u) = Len(s) - 1 /\ x = s[1] /\ Len(s) \in Nat \ {0}
        /\ \A k \in 1 .. Len(s) - 1 : u[k] = s[k + 1]
    BY <1>1, <2>1, PopFrame
  <2>3. CASE Len(s) = d
    BY <1>1, <2>2, <2>3
  <2>4. CASE Len(s) > d
    <3>1. Len(u) - d + 1 \in 1 .. Len(s) - 1 /\ (Len(u) - d + 1) + 1 = Len(s) - d + 1 /\ Len(u) >= d
      BY <1>1, <2>2, <2>4
    <3> QED
      BY <1>1, <2>2, <3>1
  <2> QED
    BY <1>1, <2>3, <2>4
<1>6. i.op # "exit"
  BY DEF Outcomes, p, s, i
<1> QED
  BY <1>2, <1>3, <1>4, <1>5, <1>6 DEF Ops

(* The child goes on from the return address only if there is no int3.     *)
LEMMA ExecuteKeeps ==
  ASSUME Uncrowded, NEW level, Layered(level), LooseInv, Live, KeepsReturn, StackRises(level), Execute, Live'
  PROVE  KeepsReturn' /\ StackRises(level)'
<1>1. /\ UNCHANGED <<mem, bps, cmd, at, ret, from>> /\ run' \in {"stopped", "running"}
      /\ at # "arm"
  <2>1. UNCHANGED <<mem, nsig, bps, cmd, at, locals, res, from>> /\ run' \in {"stopped", "running"}
    BY Executes
  <2> QED
    BY <2>1 DEF locals, Execute, LooseInv, TakesTurns
<1>2. CASE NextInsn' = NextInsn /\ stack' = stack /\ run' = "stopped"
  <2>1. KeepsReturn'
    BY <1>1, <1>2 DEF KeepsReturn, Inside, Returned
  <2> QED
    BY <1>2, <2>1, SameRises
<1>3. CASE /\ mem[NextInsn] = "code"
           /\ \E o \in Outcomes(NextInsn, stack) : NextInsn' = o[1] /\ stack' = o[2]
  <2>1. PICK o \in Outcomes(NextInsn, stack) : NextInsn' = o[1] /\ stack' = o[2]
    BY <1>3
  <2>2. StackRises(level)'
    BY <2>1, ExecuteRises
  <2>3. ASSUME ret.mem_addr # -1, ret.mem_addr \notin DOMAIN bps
        PROVE  Inside' \/ Returned' \/ mem'[ret'.mem_addr] = "code"
    <3>1. CASE Inside
      BY <1>1, <2>1, <3>1, ExecuteReturns
    <3>2. CASE Returned
      BY <1>1, <1>3, <3>2 DEF Returned
    <3> QED
      BY <1>1, <2>3, <3>1, <3>2 DEF KeepsReturn
  <2>4. KeepsReturn'
    BY <1>1, <2>3 DEF KeepsReturn
  <2> QED
    BY <2>2, <2>4
<1> QED
  BY <1>2, <1>3, Executes

(* step_out sets its breakpoint at the return address of the frame that    *)
(* the command was typed in.                                               *)
LEMMA StepOutReturns ==
  ASSUME TypeOK, MarkedTable, NEW c, NEW f, StepOutBody(c, f), f.depth = Len(stack), stack \in Seq(Int), stack' = stack
  PROVE  KeepsReturn'
<1>1. CASE Done("err") \/ Done("OK")
  BY <1>1, DoneFacts, NoReturn
<1>2. CASE /\ stack # <<>> /\ from' = f
           /\ LET b == get_breakpoint_at_addr(bps, Head(stack)) IN
                ret' = enabled_record(mem, b) /\ StepOverAndContinue(armed_text(mem, b))
  <2>1. ret'.mem_addr = Head(stack)
    <3>1. Head(stack) \in Int
      BY <1>2
    <3>2. PICK b : b = get_breakpoint_at_addr(bps, Head(stack))
      OBVIOUS
    <3>3. b \in Breakpoint /\ b.mem_addr = Head(stack)
      BY <3>1, <3>2, LooseLookup
    <3>4. ret' = enabled_record(mem, b)
      BY <1>2, <3>2
    <3> QED
      BY <3>3, <3>4 DEF enabled_record, Breakpoint
  <2>2. Head(stack) = stack[1] /\ Len(stack) \in Nat \ {0}
    BY <1>2, PopFrame
  <2>3. Len(stack) - Len(stack) + 1 = 1 /\ Len(stack) >= 1 /\ Len(stack) >= Len(stack)
    BY <2>2
  <2>4. Inside'
    BY <1>2, <2>1, <2>2, <2>3 DEF Inside
  <2>5. at' \in {"over", "run"}
    BY <1>2 DEF StepOverAndContinue, StepOver
  <2> QED
    BY <2>4, <2>5 DEF KeepsReturn
<1> QED
  BY <1>1, <1>2 DEF StepOutBody

LEMMA UserKeeps ==
  ASSUME NEW level, Layered(level), LooseInv, Live, KeepsReturn, StackRises(level), User, Live'
  PROVE  KeepsReturn' /\ StackRises(level)'
<1>1. /\ at = "idle" /\ cmd = "none" /\ TypeOK /\ MarkedTable /\ ret.mem_addr = -1 /\ stack \in Seq(Int)
      /\ (run = "stopped" => sig = "none")
  <2>1. Prompt
    BY DEF User, handle_breakpoint_enable, handle_breakpoint_disable, handle_continue, handle_step, step_out,
           step_in, handle_register_write_rip, Exit, Refuse, Start
  <2> QED
    BY <2>1, AtRest, StackTypes DEF Prompt, LooseInv, TakesTurns
<1>2. ASSUME NEW r, Done(r), NextInsn' = NextInsn, stack' = stack PROVE KeepsReturn' /\ StackRises(level)'
  BY <1>2, DoneFacts, NoReturn, SameRises
<1>3. ASSUME NEW r, Refuse(r) PROVE KeepsReturn' /\ StackRises(level)'
  BY <1>2, <1>3 DEF Refuse, debuggee, NextInsn
<1>4. ASSUME NEW a, handle_breakpoint_enable(a) \/ handle_breakpoint_disable(a)
      PROVE  KeepsReturn' /\ StackRises(level)'
  BY <1>2, <1>3, <1>4 DEF handle_breakpoint_enable, handle_breakpoint_disable, debuggee, NextInsn
<1>5. ASSUME UNCHANGED <<pc, stack, sig, ret>>, cmd' \in {"continue", "step"}
      PROVE  KeepsReturn' /\ StackRises(level)'
  BY <1>1, <1>5, NoReturn, SameRises DEF NextInsn
<1>6. CASE handle_continue
  BY <1>3, <1>5, <1>6 DEF handle_continue, Start
<1>7. ASSUME NEW n, handle_step(n) PROVE KeepsReturn' /\ StackRises(level)'
  BY <1>3, <1>5, <1>7 DEF handle_step, Start
<1>8. CASE step_out
  <2>1. CASE StepOutBody("finish", Here) /\ UNCHANGED <<pc, stack, sig>>
    <3>1. Here.depth = Len(stack)
      BY DEF Here
    <3>2. PICK f : f = Here
      OBVIOUS
    <3>3. KeepsReturn'
      BY <1>1, <2>1, <3>1, <3>2, StepOutReturns
    <3> QED
      BY <2>1, <3>3, SameRises DEF NextInsn
  <2> QED
    BY <1>3, <1>8, <2>1 DEF step_out
<1>9. CASE step_in
  <2>1. CASE Traced /\ Start("next") /\ UNCHANGED <<debuggee, ret>>
    <3>1. from'.depth = Len(stack') /\ ret'.mem_addr = -1
      BY <1>1, <2>1 DEF Start, Here, debuggee
    <3> QED
      BY <2>1, <3>1, NoReturn, SameRises DEF debuggee, NextInsn
  <2> QED
    BY <1>3, <1>9, <2>1 DEF step_in
<1>10. ASSUME NEW v \in RipValues, "setpc" \in Inputs, handle_register_write_rip(v)
       PROVE  KeepsReturn' /\ StackRises(level)'
  <2>1. CASE Traced /\ pc' = v /\ Done("OK")
    <3>1. UNCHANGED <<stack, sig>> /\ sig = "none"
      BY <1>1, <1>10, <2>1 DEF handle_register_write_rip, Traced
    <3>2. NextInsn' = v
      BY <2>1, <3>1 DEF NextInsn
    <3>3. \A k \in DOMAIN stack : level[v] < level[stack[k]]
      BY <1>10, StackTypes DEF Layered
    <3>4. StackRises(level)'
      BY <3>1, <3>2, <3>3 DEF StackRises
    <3> QED
      BY <2>1, <3>4, DoneFacts, NoReturn
  <2>2. CASE UNCHANGED pc /\ Done("err")
    BY <1>2, <1>10, <2>2 DEF handle_register_write_rip, NextInsn
  <2> QED
    BY <1>10, <2>1, <2>2 DEF handle_register_write_rip
<1>11. ~Exit
  BY DEF Exit, Live, Traced, LooseInv, TakesTurns, Prompt
<1> QED
  BY <1>4, <1>6, <1>7, <1>8, <1>9, <1>10, <1>11 DEF User

LEMMA HandlerKeeps ==
  ASSUME Uncrowded, NEW level, Layered(level), LooseInv, Live, KeepsReturn, StackRises(level), Handler, Live'
  PROVE  KeepsReturn' /\ StackRises(level)'
<1>1. NextInsn' = NextInsn /\ stack' = stack
  BY BareHandler DEF Bare!state
<1>2. StackRises(level)'
  BY <1>1, SameRises
<1> SUFFICES KeepsReturn'
  BY <1>2
<1>3. /\ TypeOK /\ Marked /\ MarkedTable /\ MarkedRet /\ stack \in Seq(Int)
      /\ at = "step" => cmd = "step"
      /\ at = "arm" => cmd = "next"
  BY StackTypes DEF LooseInv, Marked, ControlInv
<1>4. ASSUME NEW r, Done(r) PROVE KeepsReturn'
  BY <1>4, DoneFacts, NoReturn
<1>5. CASE Arm
  <2>1. ret.mem_addr = -1 /\ from.depth = Len(stack)
    BY <1>3, <1>5 DEF Arm, MarkedRet, KeepsReturn
  <2>2. CASE UNCHANGED <<ret, from>>
    BY <1>1, <2>1, <2>2, NoReturn
  <2> QED
    BY <1>4, <1>5, <2>2 DEF Arm
<1>6. CASE Armed
  <2>1. from.depth = Len(stack)
    BY <1>3, <1>6 DEF Armed, KeepsReturn
  <2>2. PICK f : f = from
    OBVIOUS
  <2> QED
    BY <1>1, <1>3, <1>4, <1>6, <2>1, <2>2, StepOutReturns DEF Armed
<1>7. ~WaitFails
  BY NeverFails
<1>8. CASE WaitOver
  <2>1. at = "over" /\ UNCHANGED bps
    BY <1>8 DEF WaitOver
  <2>2. CASE UNCHANGED <<cmd, ret, from>> /\ at' = "run" /\ run' = "running" /\ mem' = Rearmed
    <3>1. over \in Breakpoint /\ over.mem_addr \in DOMAIN bps /\ mem \in [Mem -> Byte]
      BY <1>3, <2>1 DEF Marked, MarkedPlace, TypeOK
    <3>2. mem' = [x \in Mem |-> IF x = over.mem_addr THEN "int3" ELSE mem[x]]
      BY <2>2, <3>1, ArmedText DEF Rearmed
    <3>3. ret.mem_addr # -1 => ret.mem_addr \in Mem
      BY <1>3, LayoutAssumption, AddressTypes DEF MarkedRet
    <3>4. ret.mem_addr # -1 /\ ret.mem_addr \notin DOMAIN bps => mem'[ret.mem_addr] = mem[ret.mem_addr]
      BY <3>1, <3>2, <3>3
    <3> QED
      BY <1>1, <2>1, <2>2, <3>4 DEF KeepsReturn, Inside, Returned
  <2>3. CASE cmd = "step" /\ UNCHANGED <<cmd, ret>>
    BY <1>3, <2>3, NoReturn DEF MarkedRet
  <2> QED
    BY <1>4, <1>8, <2>2, <2>3 DEF WaitOver
<1>9. CASE WaitStep
  <2>1. cmd = "step" /\ ret.mem_addr = -1
    BY <1>3, <1>9 DEF WaitStep, MarkedRet
  <2>2. CASE UNCHANGED <<cmd, ret>>
    BY <2>1, <2>2, NoReturn
  <2> QED
    BY <1>4, <1>9, <2>2 DEF WaitStep
<1>10. CASE WaitRun
  BY <1>4, <1>10 DEF WaitRun
<1> QED
  BY <1>5, <1>6, <1>7, <1>8, <1>9, <1>10 DEF Handler

LEMMA ReturnStep ==
  ASSUME Uncrowded, NEW level, Layered(level), LooseInv, Live => KeepsReturn /\ StackRises(level), [Next]_vars
  PROVE  (Live => KeepsReturn /\ StackRises(level))'
<1> SUFFICES ASSUME Live' PROVE KeepsReturn' /\ StackRises(level)'
  OBVIOUS
<1>1. Live
  BY NeverRevived DEF LooseInv
<1>2. ~Signal
  BY DEF Signal, Uncrowded, LooseInv, TypeOK
<1>3. ~Kill
  BY DEF Kill, Live
<1>4. CASE UNCHANGED vars
  BY <1>1, <1>4, SameRises DEF vars, debuggee, locals, KeepsReturn, Inside, Returned, NextInsn
<1> QED
  BY <1>1, <1>2, <1>3, <1>4, UserKeeps, HandlerKeeps, ExecuteKeeps DEF Next, Closed

LEMMA ReturnsHold ==
  ASSUME Uncrowded, NEW level, Layered(level) PROVE Spec => [](Live => KeepsReturn /\ StackRises(level))
<1>1. Init => (Live => KeepsReturn /\ StackRises(level))
  BY DEF Init, KeepsReturn, StackRises, NoBreakpoint, make_breakpoint
<1>2. LooseInv /\ (Live => KeepsReturn /\ StackRises(level)) /\ [Next]_vars
        => (Live => KeepsReturn /\ StackRises(level))'
  BY ReturnStep
<1> QED
  BY <1>1, <1>2, LooseInvariance, PTL DEF Spec

(* What stops a command that waits for the child to return is a breakpoint *)
(* of the table, or the return.                                            *)
LEMMA CommandStops ==
  ASSUME NEW level, Layered(level), LooseInv, Live => KeepsReturn /\ StackRises(level), [Next]_vars,
         cmd = "finish" \/ (cmd = "next" /\ at = "run"), cmd' = "none", res' = "OK"
  PROVE  \/ Len(stack') < from.depth
         \/ pc' \in DOMAIN bps /\ (cmd = "next" => DOMAIN bps \subseteq from.table \cup OwnLines(from.pc))
<1>1. at # "idle"
  BY DEF LooseInv, TakesTurns
<1>2. ~Arm /\ ~Armed /\ ~WaitStep
  <2>1. Arm \/ Armed \/ WaitStep => Live
    BY DEF Arm, Armed, WaitStep, Trapped, Traced, Done, Live
  <2>2. Live => at # "arm" /\ at # "step"
    BY DEF LooseInv, Marked, ControlInv
  <2> QED
    BY <2>1, <2>2 DEF Arm, Armed, WaitStep
<1>3. ~WaitOver /\ ~WaitFails
  BY DEF WaitOver, Rearmed, WaitFails, Done
<1>4. CASE WaitRun
  <2>1. Live /\ at = "run" /\ sig \in {"trap", "trace"} /\ pc' = NextInsn /\ stack' = stack
    BY <1>4 DEF WaitRun, Released, Trapped, Traced, Live, handle_sigtrap, NextInsn
  <2>2. /\ MarkedText /\ NextInsn \in Insns /\ mem[NextInsn] = "int3" /\ ret.mem_addr # -1
        /\ cmd = "next" => DOMAIN bps \subseteq from.table \cup OwnLines(from.pc)
    BY <2>1 DEF LooseInv, Marked, ControlInv, MarkedPlace, MarkedRet, ArmsOwnLines
  <2>3. NextInsn \in DOMAIN bps \cup {ret.mem_addr}
    BY <2>2, AddressTypes DEF MarkedText, Marks
  <2>4. ASSUME NextInsn = ret.mem_addr, Inside PROVE FALSE
    <3>1. /\ Len(stack) \in Nat /\ from.depth \in Nat /\ DOMAIN stack = 1 .. Len(stack)
          /\ level[NextInsn] \in Nat
      BY <2>1, StackTypes
    <3>2. Len(stack) - from.depth + 1 \in DOMAIN stack
      BY <2>4, <3>1 DEF Inside
    <3>3. level[NextInsn] < level[stack[Len(stack) - from.depth + 1]]
      BY <2>1, <3>2 DEF StackRises
    <3> QED
      BY <2>4, <3>1, <3>3 DEF Inside
  <2> QED
    BY <2>1, <2>2, <2>3, <2>4 DEF KeepsReturn, Returned
<1>5. ~User
  BY <1>1 DEF User, handle_breakpoint_enable, handle_breakpoint_disable, handle_continue,
              handle_step, step_out, step_in, handle_register_write_rip, Exit, Refuse, Start, Prompt
<1>6. ~Execute /\ ~Signal /\ ~Kill /\ ~UNCHANGED vars
  BY DEF Execute, Signal, Kill, vars
<1> QED
  BY <1>2, <1>3, <1>4, <1>5, <1>6 DEF Next, Handler, Closed

(* In an uncrowded session of a program without recursion a finish that    *)
(* succeeds has returned from the frame it was typed in, or has stopped at *)
(* a breakpoint of the table on the way.                                   *)
THEOREM FinishCorrect ==
  ASSUME Uncrowded, NEW level, Layered(level) PROVE Spec => FinishReturns
<1> DEFINE Ended == cmd = "finish" /\ cmd' = "none" /\ res' = "OK"
<1>1. LooseInv /\ (Live => KeepsReturn /\ StackRises(level)) /\ [Next]_vars
        => [Ended => Len(stack') < from.depth \/ pc' \in DOMAIN bps]_vars
  BY CommandStops
<1> QED
  BY <1>1, LooseInvariance, ReturnsHold, PTL DEF Spec, FinishReturns

(* And a next that succeeds has come to a line of the function that it was *)
(* typed in, or has returned from there, or has stopped at a breakpoint    *)
(* that was in the table before.                                           *)
THEOREM NextCorrect ==
  ASSUME Uncrowded, NEW level, Layered(level) PROVE Spec => NextReachesLine
<1> DEFINE Ended == cmd = "next" /\ at = "run" /\ cmd' = "none" /\ res' = "OK"
           Place == \/ pc' \in OwnLines(from.pc)
                    \/ Len(stack') < from.depth
                    \/ pc' \in from.table
<1>1. LooseInv /\ (Live => KeepsReturn /\ StackRises(level)) /\ [Next]_vars => [Ended => Place]_vars
  BY CommandStops
<1> QED
  BY <1>1, LooseInvariance, ReturnsHold, PTL DEF Spec, NextReachesLine
=============================================================================
