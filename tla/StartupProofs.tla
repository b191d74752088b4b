--------------------------- MODULE StartupProofs ----------------------------
(***************************************************************************)
(* What holds at the first prompt, whatever the order in which parent and  *)
(* child come to it and wherever their images are loaded.                  *)
(***************************************************************************)
EXTENDS Startup, TLAPS

(* Until its exec the child has the debugger's own image, only the exec's  *)
(* SIGTRAP is taken for a start, and new_debugger assigns main's pointer   *)
(* after it has set load_address.                                          *)
ExecInv ==
  /\ parent = "fork" => child = "none"
  /\ child \notin {"image", "dead"} => base = own
  /\ halt = "trap" => child = "image" /\ traced
LoadInv ==
  /\ load \in {None, own, base}
  /\ parent \in {"init_dwarf", "init_unw"} \/ dbg = "debugger" => load # None
PromptInv ==
  parent = "prompt" => dbg = "debugger" /\ (child = "dead" \/ halt = "trap")

StartupInv == TypeOK /\ ExecInv /\ LoadInv /\ PromptInv

(* The invariant holds when main begins.                                   *)
LEMMA StartupInvInit == Init => StartupInv
BY BasesAssumption DEF Init, StartupInv, TypeOK, ExecInv, LoadInv, PromptInv, None

(* The child's steps preserve it: execvp is where it changes its image.    *)
LEMMA StartupInvChild ==
  ASSUME StartupInv, Child \/ RunUntraced \/ Signal \/ Kill
  PROVE  StartupInv'
<1> USE DEF StartupInv, TypeOK, ExecInv, LoadInv, PromptInv, parentVars
<1>1. CASE TraceMe
  BY <1>1 DEF TraceMe
<1>2. CASE Personality
  BY <1>2 DEF Personality
<1>3. CASE Exec
  BY <1>3 DEF Exec
<1>4. CASE RunUntraced
  BY <1>4 DEF RunUntraced
<1>5. CASE Signal
  BY <1>5 DEF Signal
<1>6. CASE Kill
  BY <1>6 DEF Kill
<1> QED
  BY <1>1, <1>2, <1>3, <1>4, <1>5, <1>6 DEF Child

(* So do the parent's.                                                     *)
LEMMA StartupInvParent ==
  ASSUME StartupInv, Parent PROVE StartupInv'
<1> USE DEF StartupInv, TypeOK, ExecInv, LoadInv, PromptInv, childVars
<1>1. CASE main_fork
  BY <1>1 DEF main_fork
<1>2. CASE get_load_address
  BY <1>2, BasesAssumption DEF get_load_address, None
<1>3. CASE init_dwarf
  BY <1>3 DEF init_dwarf
<1>4. CASE init_unw
  BY <1>4 DEF init_unw
<1>5. CASE run_debugger
  BY <1>5 DEF run_debugger
<1> QED
  BY <1>1, <1>2, <1>3, <1>4, <1>5 DEF Parent

(* The first prompt belongs to a traced debuggee that is stopped at its    *)
(* exec, and load_address is the debuggee's or the debugger's own: for     *)
(* every load address and every interleaving.                              *)
THEOREM StartupCorrect == Spec => [](PromptMeansDebuggee /\ LoadAddressKnown)
<1>1. StartupInv /\ [Next]_vars => StartupInv'
  <2>1. CASE UNCHANGED vars
    BY <2>1 DEF vars, childVars, parentVars, StartupInv, TypeOK, ExecInv, LoadInv, PromptInv
  <2> QED
    BY <2>1, StartupInvChild, StartupInvParent DEF Next
<1>2. StartupInv => PromptMeansDebuggee /\ LoadAddressKnown
  BY DEF StartupInv, TypeOK, ExecInv, LoadInv, PromptInv, PromptMeansDebuggee, LoadAddressKnown
<1> QED
  BY <1>1, <1>2, StartupInvInit, PTL DEF Spec
=============================================================================
