------------------------------ MODULE Startup -------------------------------
(***************************************************************************)
(* From fork to the first prompt: main, new_debugger and the first wait of *)
(* run_debugger in the parent, interleaved with the child on its way from  *)
(* fork to execvp.  Nothing makes the parent wait for the exec before      *)
(* get_load_address reads /proc/<c_pid>/maps.                              *)
(***************************************************************************)
EXTENDS Integers

CONSTANTS
  Bases,     \* load addresses that address randomisation may give an image
  FixedBase  \* the load address of the debuggee without randomisation

ASSUME BasesAssumption == FixedBase \in Nat /\ Bases \subseteq Nat /\ Bases # {}

VARIABLES
  own,     \* where the debugger's own image is loaded
  child,   \* the call that the child makes next; "image" is the debuggee
  traced,  \* PT_TRACE_ME has succeeded
  fixed,   \* personality(ADDR_NO_RANDOMIZE) has succeeded
  base,    \* the first address of the child's /proc/<c_pid>/maps
  halt,    \* the child's ptrace stop: at the exec's SIGTRAP or at a signal
  parent,  \* the call that the parent makes next, or how it ended
  dbg,     \* main's pointer: has new_debugger assigned it?
  load     \* load_address, once get_load_address has set it

childVars  == <<child, traced, fixed, base, halt>>
parentVars == <<parent, dbg, load>>
vars       == <<own, childVars, parentVars>>

None == -1

TypeOK ==
  /\ own \in Bases
  /\ child \in {"none", "traceme", "personality", "exec", "image", "dead"}
  /\ traced \in BOOLEAN
  /\ fixed \in BOOLEAN
  /\ base \in Bases \cup {FixedBase}
  /\ halt \in {"none", "trap", "signal"}
  /\ parent \in {"fork", "get_load_address", "init_dwarf", "init_unw", "run_debugger",
                 "prompt", "failed", "undefined"}
  /\ dbg \in {"uninitialised", "debugger"}
  /\ load \in Bases \cup {FixedBase, None}

Init ==
  /\ own \in Bases
  /\ child = "none"
  /\ traced = FALSE
  /\ fixed = FALSE
  /\ base = own
  /\ halt = "none"
  /\ parent = "fork"
  /\ dbg = "uninitialised"
  /\ load = None
-----------------------------------------------------------------------------
(* The child.  The results of ptrace and of personality are ignored.       *)

TraceMe ==
  /\ child = "traceme" /\ halt = "none"
  /\ child' = "personality"
  /\ traced' \in BOOLEAN
  /\ UNCHANGED <<own, fixed, base, halt, parentVars>>

Personality ==
  /\ child = "personality" /\ halt = "none"
  /\ child' = "exec"
  /\ fixed' \in BOOLEAN
  /\ UNCHANGED <<own, traced, base, halt, parentVars>>

(* A traced child stops with a SIGTRAP once it has its new image.  When    *)
(* execvp fails, the child prints the error and returns from main.         *)
Exec ==
  /\ child = "exec" /\ halt = "none"
  /\ \/ /\ child' = "image"
        /\ base' \in IF fixed THEN {FixedBase} ELSE Bases
        /\ halt' = IF traced THEN "trap" ELSE "none"
     \/ child' = "dead" /\ UNCHANGED <<base, halt>>
  /\ UNCHANGED <<own, traced, fixed, parentVars>>

(* A debuggee that nobody traces runs to its end, if it has one.           *)
RunUntraced ==
  /\ child = "image" /\ halt = "none"
  /\ child' = "dead"
  /\ UNCHANGED <<own, traced, fixed, base, halt, parentVars>>

(* A signal stops a traced child before it is delivered.                   *)
Signal ==
  /\ traced /\ child \in {"personality", "exec"} /\ halt = "none"
  /\ halt' = "signal"
  /\ UNCHANGED <<own, child, traced, fixed, base, parentVars>>

Kill ==
  /\ child \notin {"none", "dead"}
  /\ child' = "dead" /\ halt' = "none"
  /\ UNCHANGED <<own, traced, fixed, base, parentVars>>
-----------------------------------------------------------------------------
(* The parent.                                                             *)

main_fork ==
  /\ parent = "fork"
  /\ \/ parent' = "get_load_address" /\ child' = "traceme"
     \/ parent' = "failed" /\ UNCHANGED child
  /\ UNCHANGED <<own, traced, fixed, base, halt, dbg, load>>

(* new_debugger: each of its three calls may fail, and then it returns     *)
(* without assigning *__dbg; main calls run_debugger all the same.  The    *)
(* maps of a process that has ended are empty.                             *)
get_load_address ==
  /\ parent = "get_load_address"
  /\ \/ /\ child # "dead"
        /\ load' = base
        /\ parent' = "init_dwarf"
     \/ parent' = "run_debugger" /\ UNCHANGED load
  /\ UNCHANGED <<own, childVars, dbg>>

(* In a mutant: a failure makes new_debugger start again.                  *)
StartsAgain ==
  /\ parent = "init_dwarf"
  /\ parent' \in {"init_unw", "get_load_address"}
  /\ UNCHANGED <<own, childVars, dbg, load>>

init_dwarf ==
  /\ parent = "init_dwarf"
  /\ parent' \in {"init_unw", "run_debugger"}
  /\ UNCHANGED <<own, childVars, dbg, load>>

init_unw ==
  /\ parent = "init_unw"
  /\ parent' = "run_debugger"
  /\ \/ dbg' = "debugger"
     \/ UNCHANGED dbg
  /\ UNCHANGED <<own, childVars, load>>

(* In a mutant: any stop is taken for the start of the debuggee.           *)
AnyStopStarts ==
  /\ parent = "run_debugger"
  /\ \/ dbg = "uninitialised" /\ parent' \in {"failed", "undefined"}
     \/ dbg = "debugger" /\ child = "dead" /\ parent' = "failed"
     \/ dbg = "debugger" /\ child # "dead" /\ halt # "none" /\ parent' = "prompt"
  /\ UNCHANGED <<own, childVars, dbg, load>>

(* run_debugger up to its first prompt.  An unassigned pointer may happen  *)
(* to be NULL, which run_debugger tests for; otherwise the behaviour is    *)
(* undefined.  waitpid blocks until the child stops or ends; the SIGTRAP   *)
(* of an exec is none of the cases of handle_sigtrap, and any other signal *)
(* is an error.                                                            *)
run_debugger ==
  /\ parent = "run_debugger"
  /\ \/ dbg = "uninitialised" /\ parent' \in {"failed", "undefined"}
     \/ dbg = "debugger" /\ (child = "dead" \/ halt = "signal") /\ parent' = "failed"
     \/ dbg = "debugger" /\ child # "dead" /\ halt = "trap" /\ parent' = "prompt"
  /\ UNCHANGED <<own, childVars, dbg, load>>
-----------------------------------------------------------------------------
Child  == TraceMe \/ Personality \/ Exec
Parent == main_fork \/ get_load_address \/ init_dwarf \/ init_unw \/ run_debugger

(* The parent has its prompt, which Session goes on from, or has ended.    *)
Settled == parent \in {"prompt", "failed", "undefined"}

Next == Child \/ RunUntraced \/ Signal \/ Kill \/ Parent \/ (Settled /\ UNCHANGED vars)

Spec == Init /\ [][Next]_vars

(* Both processes are scheduled; the debuggee itself need not end.         *)
FairSpec == Spec /\ WF_vars(Child) /\ WF_vars(Parent)
-----------------------------------------------------------------------------
(* The first prompt appears only after new_debugger has succeeded and the  *)
(* child, traced and stopped, has become the debuggee (or has since been   *)
(* killed): no command ever reaches the fork of the debugger itself.       *)
PromptMeansDebuggee ==
  parent = "prompt" =>
    /\ dbg = "debugger" /\ load # None
    /\ child = "dead" \/ (child = "image" /\ traced /\ halt = "trap")

(* At the prompt load_address is that of the debuggee or, if the parent    *)
(* came first, that of the debugger's own image: nothing else.             *)
LoadAddressKnown ==
  parent = "prompt" => load \in {own, base}

(* Starting up comes to an end, unless an untraced debuggee runs on.       *)
StartupSettles == <>(Settled \/ (child = "image" /\ ~traced))

(* get_load_address gets "the memory address offset of the debugee"        *)
(* (debugger.h:56-57): commands add it to every address.                   *)
LoadAddressIsDebuggee ==
  parent = "prompt" /\ child = "image" => load = base
=============================================================================
