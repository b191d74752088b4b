---------------------------- MODULE Undebugged ------------------------------
(***************************************************************************)
(* What a debugger promises about the program it debugs: whatever the user *)
(* does with breakpoints and steps, the program only ever executes its own *)
(* instructions in its own order.  The program can be made to go on from   *)
(* another place (reg write) and can be killed; breakpoints do not exist.  *)
(***************************************************************************)
EXTENDS Debuggee

CONSTANT RipValues  \* where reg write may send the program

VARIABLES
  where,  \* the instruction that the program executes next
  calls,  \* its return addresses, innermost first
  ended   \* it has exited or was killed

state == <<where, calls, ended>>

Begin == where = Entry /\ calls = <<>> /\ ended = FALSE

Instruction ==
  /\ ~ended
  /\ \E o \in Outcomes(where, calls) : where' = o[1] /\ calls' = o[2]
  /\ UNCHANGED ended

(* The last instruction, or a SIGKILL.                                     *)
End == ~ended /\ ended' = TRUE /\ UNCHANGED <<where, calls>>

Redirect ==
  /\ ~ended
  /\ where' \in RipValues
  /\ UNCHANGED <<calls, ended>>

Behaviour == Begin /\ [][Instruction \/ End \/ Redirect]_state
=============================================================================
