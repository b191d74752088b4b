------------------------------ MODULE DieTree -------------------------------
(***************************************************************************)
(* get_sub_prog_die_in_die_from_addr: the search of a compilation unit's   *)
(* tree of DIEs for the subprogram that contains an address, with the      *)
(* handles that libdwarf hands out and that the search must give back.     *)
(* The recursion is a stack of frames.  Die 0 is the unit.                 *)
(***************************************************************************)
EXTENDS Integers, Sequences, FiniteSetsExt

CONSTANTS
  Dies,   \* the dies below the unit, numbered in document order
  Trees   \* the trees: for each die its parent and its attributes

ASSUME DiesAssumption == Dies \subseteq Nat \ {0} /\ IsFiniteSet(Dies)

(* holds: where is the address in the die's pc range?  At the end means    *)
(* that it is the high pc, and none that the die has no range.  The other  *)
(* attributes are those that Variables looks at.                           *)
Tags == {"subprogram", "block", "variable", "param", "member", "struct", "base", "modifier", "other"}
Die  == [parent: Dies \cup {0}, tag: Tags, holds: {"yes", "no", "end", "none"},
         label: {"x", "y", "none"}, type: Dies \cup {0}, offset: Nat,
         form: {"constant", "expression", "other", "none"}]

ASSUME TreesAssumption ==
  \A t \in Trees, d \in Dies :
    /\ t[d] \in Die /\ t[d].parent < d
    /\ \A e \in Dies : t[d].parent < e /\ e < d => t[e].parent >= t[d].parent

VARIABLES
  tree,    \* the unit's dies
  frames,  \* the calls that are active: their cur_die and next_die
  at,      \* where the innermost call is
  live,    \* the dies whose handles have not been deallocated
  sub,     \* *sub_prog_die, 0 for none
  res      \* the result

searchVars == <<tree, frames, at, live, sub, res>>

SearchTypeOK ==
  /\ frames \in Seq([cur: Dies, next: Dies \cup {0}])
  /\ at \in {"call", "visit", "sibling", "fail", "done"}
  /\ live \subseteq Dies
  /\ sub \in Dies \cup {0}
  /\ res \in {"NO_ENTRY", "ERROR"}

SearchInit ==
  /\ frames = <<>>
  /\ at = "call"
  /\ live = {}
  /\ sub = 0
  /\ res = "NO_ENTRY"

(* dwarf_child and dwarf_siblingof_c, 0 for DW_DLV_NO_ENTRY.               *)
First(s)            == IF s = {} THEN 0 ELSE Min(s)
dwarf_child(d)      == First({k \in Dies : tree[k].parent = d})
dwarf_siblingof_c(d) == First({k \in Dies : k > d /\ tree[k].parent = tree[d].parent})

Frame(d) == [cur |-> d, next |-> 0]
cur_die  == frames[Len(frames)].cur
Callers  == SubSeq(frames, 1, Len(frames) - 1)
-----------------------------------------------------------------------------
(* The call for the unit itself.  Here and below, a call of libdwarf may   *)
(* also fail.                                                              *)
Begin ==
  /\ at = "call"
  /\ LET c == dwarf_child(0) IN
       \/ c = 0 /\ at' = "done" /\ UNCHANGED <<frames, live>>
       \/ c # 0 /\ at' = "visit" /\ frames' = <<Frame(c)>> /\ live' = {c}
       \/ at' = "fail" /\ UNCHANGED <<frames, live>>
  /\ UNCHANGED <<tree, sub, res>>

Matches(d) == tree[d].holds = "yes" /\ tree[d].tag = "subprogram"

(* The call returns DW_DLV_ERROR; h are the handles it leaves.             *)
Abandon(h) == live' = h /\ frames' = Callers /\ at' = "fail"

(* One turn of the loop up to the sibling: the die itself, and the call    *)
(* for its first child n, which looks at the children of n and not at n.   *)
Visit ==
  /\ at = "visit"
  /\ LET c == cur_die
         n == dwarf_child(c)
         g == dwarf_child(n) IN
       \/ Abandon(live \ {c}) /\ UNCHANGED sub
       \/ /\ sub' = IF Matches(c) THEN c ELSE sub
          /\ \/ Abandon(live \ {c})
             \/ n # 0 /\ Abandon((live \cup {n}) \ {c})
             \/ (n = 0 \/ g = 0) /\ at' = "sibling" /\ UNCHANGED <<frames, live>>
             \/ /\ n # 0 /\ g # 0
                /\ frames' = Append(Append(Callers, [cur |-> c, next |-> n]), Frame(g))
                /\ live' = live \cup {n, g}
                /\ UNCHANGED at
  /\ UNCHANGED <<tree, res>>

(* Mutants: a match is deallocated like any other die; no die is.          *)
DropsAll  == live \ {cur_die}
DropsNone == live

(* cur_die is deallocated unless it is the answer.                         *)
Dropped == IF sub # cur_die THEN live \ {cur_die} ELSE live

Last(s) == s = 0

(* In a mutant: cur_die = next_die is missing.                             *)
StaysOnDie(s) == Append(Callers, Frame(cur_die))

Move(s) == Append(Callers, Frame(s))

(* The sibling is next; after the last one the call returns, and the       *)
(* caller deallocates the die that it was for.                             *)
Sibling ==
  /\ at = "sibling"
  /\ LET s == dwarf_siblingof_c(cur_die) IN
       \/ /\ ~Last(s)
          /\ frames' = Move(s)
          /\ live' = Dropped \cup {s}
          /\ at' = "visit"
       \/ /\ Last(s) /\ Len(frames) > 1
          /\ frames' = Callers
          /\ live' = Dropped \ {Callers[Len(Callers)].next}
          /\ UNCHANGED at
       \/ /\ Last(s) /\ Len(frames) = 1
          /\ frames' = <<>>
          /\ live' = Dropped
          /\ at' = "done"
       \/ Abandon(Dropped)
  /\ UNCHANGED <<tree, sub, res>>

(* DW_DLV_ERROR goes up through all the calls; each deallocates its die    *)
(* and keeps the handle of the die that the inner call was for.            *)
Fail ==
  /\ at = "fail"
  /\ \/ /\ frames # <<>>
        /\ live' = live \ {cur_die}
        /\ frames' = Callers
        /\ UNCHANGED <<at, res>>
     \/ /\ frames = <<>>
        /\ at' = "done" /\ res' = "ERROR"
        /\ UNCHANGED <<frames, live>>
  /\ UNCHANGED <<tree, sub>>

Search == Begin \/ Visit \/ Sibling \/ Fail

-----------------------------------------------------------------------------
Finished == at = "done" /\ res # "ERROR"
Holders  == {d \in Dies : tree[d].holds = "yes" /\ tree[d].tag = "subprogram"}

(* The answer is a subprogram that contains the address and whose handle   *)
(* the caller may still use.                                               *)
AnswerIsUsable == Finished /\ sub # 0 => sub \in Holders /\ sub \in live

(* A subprogram directly below the unit is always found; of the others     *)
(* those on every second level are not looked at.                          *)
TopLevelIsFound ==
  Finished /\ (\E d \in Holders : tree[d].parent = 0) => sub # 0
=============================================================================
