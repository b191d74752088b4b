----------------------------- MODULE Variables ------------------------------
(***************************************************************************)
(* The var command: the subprogram of the pc (DieTree), its frame base,    *)
(* the search of its blocks for a local variable or the walk over its      *)
(* parameters, and the printing of values along their types.  Locations    *)
(* are evaluated by LocExpr; here they are found or not.  A handle that is *)
(* used or given back after it has been given back is a fault; of handles  *)
(* that nothing refers to any more, the number is kept.                    *)
(***************************************************************************)
EXTENDS DieTree

CONSTANTS
  Commands,  \* the commands and the trees they are given for
  Capacity   \* the pieces of text that var_val_s holds, 256 bytes in the code

ASSUME CommandsAssumption ==
  /\ Commands \subseteq [how: {"get", "get&", "set"}, what: {"local", "params", "other"},
                         name: {"x", "absent"}, tree: Trees]
  /\ Capacity \in Nat

VARIABLES
  cmd,      \* the command
  step,     \* where the command is
  calls,    \* the calls of get_local_var_from_name
  target,   \* the die that the innermost call is for, or the one whose type is next
  ret,      \* what the innermost call has returned
  var_die,  \* *var_die, 0 for none
  walks,    \* the walks over parameters and over members that are active
  base,     \* the address of the value that is printed
  out,      \* the text in var_val_s
  listed,   \* the parameters that have been named
  faults,   \* a dead handle of the variable used, one of a walk given back twice, a walk cut short
  lost      \* the handles of types, attributes and members that have been forgotten, not given back

varVars == <<cmd, step, calls, target, ret, var_die, walks, base, out, listed, faults, lost>>
vars    == <<searchVars, varVars>>

Piece(is, d, a) == [is |-> is, die |-> d, addr |-> a]
Walk(d, a)      == [of |-> d, cur |-> 0, next |-> 0, handle |-> "null", base |-> a]

TypeOK ==
  /\ SearchTypeOK
  /\ step \in {"search", "frame", "call", "return", "sibling", "found", "walk", "tag", "item", "type",
               "printed", "end"}
  /\ calls \in Seq([block: Dies, child: Dies, next: Dies \cup {0}])
  /\ target \in Dies \cup {0} /\ var_die \in Dies \cup {0}
  /\ ret \in {"OK", "NO_ENTRY", "ERROR", "crash", "overrun"}
  /\ walks \in Seq([of: Dies, cur: Dies \cup {0}, next: Dies \cup {0},
                    handle: {"null", "live", "freed"}, base: Nat])
  /\ base \in Nat
  /\ Len(out) <= Capacity + 2
  /\ listed \in Seq(Dies)
  /\ faults \subseteq {"var", "walk", "cut"}
  /\ lost \in [types: Nat, attrs: Nat, members: Nat]

Nothing == [types |-> 0, attrs |-> 0, members |-> 0]

Init ==
  /\ SearchInit
  /\ \E c \in Commands : cmd = [how |-> c.how, what |-> c.what, name |-> c.name] /\ tree = c.tree
  /\ step = "search"
  /\ calls = <<>> /\ walks = <<>>
  /\ target = 0 /\ var_die = 0 /\ base = 0
  /\ ret = "OK"
  /\ out = <<>> /\ listed = <<>>
  /\ faults = {} /\ lost = Nothing

End(r) == step' = "end" /\ ret' = r
-----------------------------------------------------------------------------
(* handle_var knows two of the three options, and set is not one of them.  *)
handle_var ==
  /\ step = "search" /\ at = "call"
  /\ cmd.how = "set" \/ cmd.what = "other"
  /\ End("ERROR")
  /\ UNCHANGED <<searchVars, cmd, calls, target, var_die, walks, base, out, listed, faults, lost>>

FindSubprogram ==
  /\ step = "search" /\ cmd.how # "set" /\ cmd.what # "other"
  /\ Search
  /\ UNCHANGED varVars

(* After the search: the location of the frame base, and for parameters    *)
(* the name of the subprogram.  dwarf_attr refuses the die 0.  A frame     *)
(* base that is not found leaves the subprogram's handle.                  *)
FrameBase ==
  /\ step = "search" /\ at = "done"
  /\ \/ End("ERROR") /\ UNCHANGED <<live, target, walks>>
     \/ cmd.what = "params" /\ sub # 0 /\ End("ERROR") /\ live' = live \ {sub} /\ UNCHANGED <<target, walks>>
     \/ /\ res # "ERROR" /\ sub # 0
        /\ IF cmd.what = "local"
           THEN step' = "call" /\ target' = sub /\ UNCHANGED walks
           ELSE step' = "walk" /\ walks' = <<Walk(sub, 0)>> /\ UNCHANGED target
        /\ UNCHANGED <<live, ret>>
  /\ UNCHANGED <<tree, frames, at, sub, res, cmd, calls, var_die, base, out, listed, faults, lost>>
-----------------------------------------------------------------------------
Inner        == calls[Len(calls)]
Outer        == SubSeq(calls, 1, Len(calls) - 1)
Returns(r)   == step' = "return" /\ ret' = r
IsScope(d)   == tree[d].tag \in {"block", "subprogram"}
IsNamed(d)   == tree[d].tag \in {"variable", "param"}

(* In a mutant: the range of a block is not looked at.                     *)
NeverOutside(d) == FALSE

(* b_low > pc || b_high < pc: the end of a block counts as inside.         *)
OutOfRange(d) == tree[d].holds = "no"

(* get_local_var_from_name up to its first inner call.  A die without a    *)
(* name leaves die_name uninitialised: strcmp may find anything.  Without  *)
(* a name in the command it reads address 0.  A block without a range      *)
(* returns DW_DLV_NO_ENTRY.                                                *)
get_local_var_from_name ==
  /\ step = "call"
  /\ \/ Returns("ERROR") /\ UNCHANGED <<var_die, calls, target, live>>
     \/ /\ ~IsScope(target) /\ ~IsNamed(target)
        /\ Returns("OK") /\ UNCHANGED <<var_die, calls, target, live>>
     \/ /\ IsNamed(target)
        /\ \/ /\ cmd.name = "absent" \/ tree[target].label = "none"
              /\ End("crash") /\ UNCHANGED var_die
           \/ /\ cmd.name # "absent" /\ tree[target].label \in {"x", "none"}
              /\ Returns("OK") /\ var_die' = target
           \/ /\ cmd.name # "absent" /\ tree[target].label # "x"
              /\ Returns("OK") /\ UNCHANGED var_die
        /\ UNCHANGED <<calls, target, live>>
     \/ /\ IsScope(target)
        /\ LET c == dwarf_child(target) IN
             \/ /\ tree[target].holds = "none"
                /\ Returns("NO_ENTRY") /\ UNCHANGED <<calls, target, live>>
             \/ /\ OutOfRange(target) \/ (tree[target].holds # "none" /\ c = 0)
                /\ Returns("OK") /\ UNCHANGED <<calls, target, live>>
             \/ /\ tree[target].holds # "none" /\ ~OutOfRange(target) /\ c # 0
                /\ calls' = Append(calls, [block |-> target, child |-> c, next |-> 0])
                /\ target' = c
                /\ live' = live \cup {c}
                /\ UNCHANGED <<step, ret>>
        /\ UNCHANGED var_die
  /\ UNCHANGED <<tree, frames, at, sub, res, cmd, walks, base, out, listed, faults, lost>>

(* In a mutant: after the walk over the siblings the last one is freed.    *)
FreesChild(c) == live \ {c}

(* The last comparison: the child that is the answer stays.                *)
KeepsAnswer(c) == IF c # var_die THEN live \ {c} ELSE live

(* The inner call has returned.  The call for the first child returns      *)
(* without that comparison, even if the child is the answer.               *)
AfterCall ==
  /\ step = "return" /\ calls # <<>>
  /\ LET f == Inner
         c == IF f.next = 0 THEN f.child ELSE f.next IN
       \/ /\ f.next = 0 /\ (ret # "OK" \/ var_die # 0)
          /\ live' = live \ {c}
          /\ calls' = Outer
          /\ UNCHANGED <<step, ret>>
       \/ /\ f.next # 0 /\ (ret # "OK" \/ var_die # 0)
          /\ live' = KeepsAnswer(c) \ {f.child}
          /\ calls' = Outer
          /\ Returns(IF ret = "ERROR" THEN "ERROR" ELSE "OK")
       \/ /\ ret = "OK" /\ var_die = 0
          /\ live' = IF f.next = 0 THEN live ELSE live \ {f.child}
          /\ calls' = Append(Outer, [f EXCEPT !.child = c, !.next = 0])
          /\ step' = "sibling" /\ UNCHANGED ret
  /\ UNCHANGED <<tree, frames, at, sub, res, cmd, target, var_die, walks, base, out, listed, faults, lost>>

NextSibling ==
  /\ step = "sibling"
  /\ LET c == Inner.child
         s == dwarf_siblingof_c(c) IN
       \/ /\ s # 0
          /\ live' = live \cup {s}
          /\ calls' = Append(Outer, [Inner EXCEPT !.next = s])
          /\ step' = "call" /\ target' = s
          /\ UNCHANGED ret
       \/ /\ s = 0 /\ Returns("OK")
          /\ live' = KeepsAnswer(c) /\ calls' = Outer /\ UNCHANGED target
       \/ /\ Returns("ERROR")
          /\ live' = KeepsAnswer(c) /\ calls' = Outer /\ UNCHANGED target
  /\ UNCHANGED <<tree, frames, at, sub, res, cmd, var_die, walks, base, out, listed, faults, lost>>

(* handle_get_local_var goes on: the subprogram's handle is given back,    *)
(* and the variable's attributes and its location are read.                *)
Found ==
  /\ step = "return" /\ calls = <<>> /\ cmd.what = "local"
  /\ \/ /\ ret = "OK" /\ var_die # 0
        /\ faults' = IF var_die \in live \ {sub} THEN faults ELSE faults \cup {"var"}
        /\ \/ /\ step' = "type" /\ target' = var_die
              /\ live' = live \ {sub} /\ UNCHANGED ret
           \/ /\ End("ERROR")
              /\ live' = live \ {sub, var_die} /\ UNCHANGED target
     \/ /\ ret # "OK" \/ var_die = 0
        /\ End("ERROR")
        /\ live' = live \ {sub} /\ UNCHANGED <<target, faults>>
  /\ UNCHANGED <<tree, frames, at, sub, res, cmd, calls, var_die, walks, base, out, listed, lost>>
-----------------------------------------------------------------------------
top       == walks[Len(walks)]
Below     == SubSeq(walks, 1, Len(walks) - 1)
Members   == walks # <<>> /\ tree[top.of].tag = "struct"
Wanted    == IF Members THEN "member" ELSE "param"
Prints(r) == step' = "printed" /\ ret' = r

(* One more handle that is neither given back nor referred to.             *)
Loses(kind) == [lost EXCEPT ![kind] = @ + 1]

(* sprintf does not look at the size of var_val_s.                         *)
Write(text, s) ==
  /\ out' = out \o text
  /\ IF Len(out \o text) > Capacity THEN End("overrun") ELSE step' = s /\ UNCHANGED ret

(* The walk ends.  After the parameters both handles are given back; after *)
(* the members, whatever has ended the walk, the struct is closed.         *)
WalkEnds(w, r) ==
  /\ walks' = Below
  /\ faults' = faults \cup (IF w.handle = "freed" THEN {"walk"} ELSE {})
                       \cup (IF Members /\ r = "ERROR" THEN {"cut"} ELSE {})
  /\ IF Members
     THEN Write(<<Piece("close", 0, 0)>>, "printed") /\ UNCHANGED live
     ELSE End(r) /\ live' = live \ {sub} /\ UNCHANGED out

(* Mutants: the walk does not move; the sibling is skipped if it has one.  *)
StaysPut(w) == [w EXCEPT !.next = dwarf_siblingof_c(w.cur), !.handle = "live"]
SkipsSibling(w) ==
  LET k == {d \in Dies : d > w.cur /\ tree[d].parent = tree[w.cur].parent}
      s == IF Cardinality(k) > 1 THEN Min(k \ {Min(k)}) ELSE Min(k) IN
    [w EXCEPT !.cur = s, !.next = s, !.handle = "live"]

(* The walk moves to the sibling, and the die's handle is given back.      *)
Moved(w) ==
  LET s == dwarf_siblingof_c(w.cur) IN [w EXCEPT !.cur = s, !.next = s, !.handle = "live"]

(* In a mutant: at the end the handle is always one that has been freed.   *)
NotCleared(w) == [w EXCEPT !.cur = w.next, !.handle = "freed"]

(* At the end *fparam is next_die: null if this call has not moved, and    *)
(* otherwise the handle that it has just given back.                       *)
Stopped(w) == [w EXCEPT !.cur = w.next, !.handle = IF w.next = 0 THEN "null" ELSE "freed"]

(* get_formal_params and get_data_members: the first die, or the sibling   *)
(* of the last one.                                                        *)
WalkOn ==
  /\ step = "walk"
  /\ LET w == [top EXCEPT !.next = 0]
         c == dwarf_child(w.of) IN
       \/ /\ w.cur = 0 /\ c # 0
          /\ walks' = Append(Below, [w EXCEPT !.cur = c, !.handle = "live"])
          /\ step' = "tag" /\ UNCHANGED <<live, ret, out, faults>>
       \/ w.cur = 0 /\ c = 0 /\ WalkEnds(w, "OK")
       \/ w.cur = 0 /\ WalkEnds(w, "ERROR")
       \/ /\ w.cur # 0 /\ dwarf_siblingof_c(w.cur) # 0
          /\ walks' = Append(Below, Moved(w))
          /\ step' = "tag" /\ UNCHANGED <<live, ret, out, faults>>
       \/ w.cur # 0 /\ dwarf_siblingof_c(w.cur) = 0 /\ WalkEnds(Stopped(w), "OK")
       \/ w.cur # 0 /\ WalkEnds(Stopped(w), "ERROR")
  /\ UNCHANGED <<tree, frames, at, sub, res, cmd, calls, target, var_die, base, listed, lost>>

(* One turn of their loop over the siblings.                               *)
WalkTag ==
  /\ step = "tag"
  /\ LET w == top IN
       \/ WalkEnds(w, "ERROR")
       \/ tree[w.cur].tag = Wanted /\ step' = "item" /\ UNCHANGED <<walks, live, ret, out, faults>>
       \/ /\ tree[w.cur].tag # Wanted /\ dwarf_siblingof_c(w.cur) # 0
          /\ walks' = Append(Below, Moved(w)) /\ UNCHANGED <<step, live, ret, out, faults>>
       \/ tree[w.cur].tag # Wanted /\ dwarf_siblingof_c(w.cur) = 0 /\ WalkEnds(Stopped(w), "OK")
       \/ tree[w.cur].tag # Wanted /\ WalkEnds(Stopped(w), "ERROR")
  /\ UNCHANGED <<tree, frames, at, sub, res, cmd, calls, target, var_die, base, listed, lost>>

(* handle_param_var's loop: the name, the location, and the value.         *)
Parameter ==
  /\ step = "item" /\ ~Members
  /\ \/ End("ERROR") /\ live' = live \ {sub} /\ walks' = <<>> /\ UNCHANGED <<target, out, listed>>
     \/ /\ listed' = Append(listed, top.cur)
        /\ \/ step' = "walk" /\ UNCHANGED <<target, out>>
           \/ /\ cmd.how = "get&"
              /\ step' = "walk" /\ out' = <<Piece("address", top.cur, 0)>> /\ UNCHANGED target
           \/ /\ cmd.how = "get"
              /\ step' = "type" /\ out' = <<>> /\ target' = top.cur
        /\ UNCHANGED <<live, walks, ret>>
  /\ base' = 0
  /\ UNCHANGED <<tree, frames, at, sub, res, cmd, calls, var_die, faults, lost>>

(* In a mutant: the offset counts from the start of the variable.          *)
OffsetOnly(a, d) == {tree[d].offset}

(* The addresses that a member may be taken to have.  For a member without *)
(* a name the result of dwarf_diename stands for the one of dwarf_attr     *)
(* that is missing, and the member is taken to lie at the base.  A         *)
(* location expression is looked for under the wrong attribute; without    *)
(* either the attribute is not initialised.                                *)
MemberAddress(a, d) ==
  CASE tree[d].label = "none"      -> {a}
    [] tree[d].form = "constant"   -> {a + tree[d].offset}
    [] OTHER                       -> {a, a + 1}

Name(d) == (IF out[Len(out)].is = "open" THEN <<>> ELSE <<Piece("comma", 0, 0)>>)
           \o <<Piece("name", d, 0)>>

(* The loop of sprint_var_die_given_struct_type.  The attribute of the     *)
(* offset is given back only where the member is given up; the member's    *)
(* own handle is given back there only if its name is what failed.  A form *)
(* that it does not know returns res, which says OK.                       *)
Member ==
  /\ step = "item" /\ Members
  /\ LET d == top.cur
         located == tree[d].form # "none" IN
       \/ /\ Prints("ERROR") /\ walks' = Below
          /\ lost' = lost \/ (tree[d].label # "none" /\ located /\ lost' = Loses("members"))
          /\ UNCHANGED <<target, base, out>>
       \/ \E a \in MemberAddress(top.base, d) :
            /\ tree[d].label = "none" \/ tree[d].form # "other"
            /\ base' = a /\ target' = d
            /\ lost' = IF located THEN Loses("attrs") ELSE lost
            /\ Write(Name(d), "type") /\ UNCHANGED walks
       \/ /\ tree[d].label # "none" /\ tree[d].form = "other"
          /\ Write(Name(d), "printed")
          /\ lost' = Loses("members")
          /\ walks' = Below /\ UNCHANGED <<target, base>>
       \/ /\ tree[d].label # "none" /\ ~located
          /\ End("crash") /\ UNCHANGED <<walks, target, base, out, lost>>
  /\ UNCHANGED <<tree, frames, at, live, sub, res, cmd, calls, var_die, listed, faults>>

(* sprint_var_die_given_base: the word at var_addr, by size and encoding.  *)
ReadsAt == base

(* The type before is given back when the next one is looked for.  In a    *)
(* mutant it is not.                                                       *)
KeepsPrevious == Loses("types")
FreesPrevious == lost

(* sprint_variable_die_val: one type further.  Pointers do not affect the  *)
(* value either; arrays and unions are not implemented.  A base type and a *)
(* struct are handed to functions that do not give their handles back.     *)
Type ==
  /\ step = "type"
  /\ LET t == tree[target].type IN
       \/ Prints(IF t = 0 THEN "NO_ENTRY" ELSE "ERROR") /\ UNCHANGED <<target, walks, out, lost>>
       \/ /\ t # 0 /\ tree[t].tag = "modifier"
          /\ lost' = FreesPrevious
          /\ target' = t /\ UNCHANGED <<step, ret, walks, out>>
       \/ /\ t # 0 /\ tree[t].tag = "base"
          /\ (Prints("ERROR") /\ UNCHANGED out) \/ Write(<<Piece("value", t, ReadsAt)>>, "printed")
          /\ lost' = Loses("types") /\ UNCHANGED <<target, walks>>
       \/ /\ t # 0 /\ tree[t].tag = "struct"
          /\ \/ Prints("ERROR") /\ UNCHANGED <<walks, out>>
             \/ Write(<<Piece("open", 0, 0)>>, "walk") /\ walks' = Append(walks, Walk(t, base))
          /\ lost' = Loses("types") /\ UNCHANGED target
  /\ UNCHANGED <<tree, frames, at, live, sub, res, cmd, calls, var_die, base, listed, faults>>

(* A value has been printed, or could not be.  Of members the first that   *)
(* cannot be printed ends the struct, and its handle is forgotten; of      *)
(* parameters it is reported.                                              *)
Printed ==
  /\ step = "printed"
  /\ \/ /\ Members /\ ret # "OK"
        /\ lost' = Loses("members")
        /\ walks' = Below /\ UNCHANGED <<step, ret, live, faults>>
     \/ /\ walks # <<>> /\ (Members => ret = "OK")
        /\ step' = "walk" /\ ret' = "OK" /\ UNCHANGED <<walks, live, faults, lost>>
     \/ /\ walks = <<>>
        /\ faults' = IF var_die \in live THEN faults ELSE faults \cup {"var"}
        /\ live' = live \ {var_die}
        /\ End(ret) /\ UNCHANGED <<walks, lost>>
  /\ UNCHANGED <<tree, frames, at, sub, res, cmd, calls, target, var_die, base, out, listed>>

Var == handle_var \/ FindSubprogram \/ FrameBase \/ get_local_var_from_name \/ AfterCall \/ NextSibling
       \/ Found \/ WalkOn \/ WalkTag \/ Parameter \/ Member \/ Type \/ Printed

Next == Var \/ (step = "end" /\ UNCHANGED vars)
Spec == Init /\ [][Next]_vars

(* The debugger is one thread.                                             *)
FairSpec == Spec /\ WF_vars(Var)
-----------------------------------------------------------------------------
(* At the end of the search its answer is a subprogram that contains the   *)
(* address and whose handle the command may still use, and a subprogram    *)
(* directly below the unit has not been missed.                            *)
SubprogramIsUsable == step = "search" => AnswerIsUsable /\ TopLevelIsFound

(* A command that succeeds gives back the handles of the search and of the *)
(* lookup (the subprogram's, the blocks' and the variable's), if at most   *)
(* one subprogram contains the address.                                    *)
HandlesAreReturned ==
  step = "end" /\ ret = "OK" /\ (\A d, e \in Holders : d = e) => live = {}

(* Of the handles of the types it does not: a variable that is printed     *)
(* loses one for every value and every struct in its text, and none for    *)
(* the types in between; of every member it loses the attribute of the     *)
(* offset, or the member itself if its form is unknown.                    *)
NumberOf(P(_)) == Cardinality({k \in DOMAIN out : P(out[k])})
IsType(e)      == e.is \in {"value", "open"}
IsUnread(e)    == e.is = "name" /\ tree[e.die].label # "none" /\ tree[e.die].form = "other"
IsLocated(e)   == e.is = "name" /\ tree[e.die].form # "none" /\ ~IsUnread(e)

LosesOnePerType ==
  step = "end" /\ ret = "OK" /\ cmd.what = "local" =>
    lost = [types |-> NumberOf(IsType), attrs |-> NumberOf(IsLocated), members |-> NumberOf(IsUnread)]

(* A die whose blocks, up to the subprogram, all contain the pc.  Every    *)
(* block must have a range, and none may end at the pc.                    *)
Above[d \in Dies] == IF tree[d].parent = 0 THEN {d} ELSE {d} \cup Above[tree[d].parent]
Scopes(d)         == Above[d] \ {d}
Ranged            == \A d \in Dies : IsScope(d) => tree[d].holds \in {"yes", "no"}
InSub(d)          == sub \in Scopes(d) /\ \A s \in (Scopes(d) \ Above[sub]) \cup {sub} :
                                             IsScope(s) /\ tree[s].holds = "yes"
Visible           == {d \in Dies : InSub(d) /\ IsNamed(d) /\ tree[d].label = "x"}

(* The walk over the blocks has returned to handle_get_local_var.          *)
LookedUp == step = "return" /\ calls = <<>> /\ ret = "OK" /\ \A d \in Dies : IsNamed(d) => tree[d].label # "none"

(* If every block has a range and none ends at the pc, the first variable  *)
(* of that name in the blocks around the pc is found.  It need not be the  *)
(* innermost one.                                                          *)
FindsFirstVisible == LookedUp /\ Ranged => var_die = First(Visible)

(* The handle of the variable is dead only if it is the first child of its *)
(* block, and then always when its value is printed; otherwise the command *)
(* uses and returns it as it should.                                       *)
IsFirst(d) == IsNamed(d) /\ dwarf_child(tree[d].parent) = d

DanglesIfFirst ==
  /\ "var" \in faults => IsFirst(var_die)
  /\ step = "end" /\ ret = "OK" /\ cmd.what = "local" /\ IsFirst(var_die) => "var" \in faults

ChildrenOf(p) == {d \in Dies : tree[d].parent = p}
IsLast(d)     == dwarf_siblingof_c(d) = 0
Trails(d)     == d \in ChildrenOf(top.of) /\ tree[d].tag # Wanted /\ d # dwarf_child(top.of)
IsCutShort    == ret' = "ERROR" \/ "cut" \in faults'

WalkIsOver == step \in {"walk", "tag"} /\ walks' = Below
WalkEndsRightly ==
  /\ "walk" \in faults' \ faults => Trails(top.cur) /\ (IsLast(top.cur) \/ IsCutShort)
  /\ step = "tag" /\ Trails(top.cur) /\ IsLast(top.cur) /\ ~IsCutShort => "walk" \in faults'

(* When a walk ends, a handle is given back twice only if the die at which *)
(* it ends, the last child of what is walked or one whose sibling could    *)
(* not be read, is not looked for and is not the first; and if the last    *)
(* child is such a die, always, unless reading it fails.                   *)
FreedTwiceIfTrailing == [][WalkIsOver => WalkEndsRightly]_vars

(* Every parameter is named, once and in order.                            *)
InOrder(s) == \A a, b \in DOMAIN s : a < b => s[a] < s[b]
ParametersAreListed ==
  step = "end" /\ ret = "OK" /\ cmd.what = "params" =>
    {listed[k] : k \in DOMAIN listed} = {d \in ChildrenOf(sub) : tree[d].tag = "param"} /\ InOrder(listed)

(* The text of a value consists of parts: a value of type t at address a,  *)
(* or the rest of a struct at address a from its member m on, 0 at its     *)
(* end.  A part that is deeper than there are parts contains itself.       *)
Parts == {"value", "rest"} \X (Dies \cup {0})
Depth == Cardinality(Parts)
Cut   == <<Piece("cut", 0, 0)>>

MembersOf(s)  == {m \in ChildrenOf(s) : tree[m].tag = "member"}
NextMember(m) == First({k \in MembersOf(tree[m].parent) : k > m})
IsFirstOne(m) == m = First(MembersOf(tree[m].parent))

ValueText(text, t, a) ==
  IF t = 0 THEN Cut
  ELSE CASE tree[t].tag = "modifier" -> text["value", tree[t].type][a]
         [] tree[t].tag = "base"     -> <<Piece("value", t, a)>>
         [] tree[t].tag = "struct"   -> <<Piece("open", 0, 0)>> \o text["rest", First(MembersOf(t))][a]
         [] OTHER                    -> Cut

RestText(text, m, a) ==
  IF m = 0 THEN <<Piece("close", 0, 0)>>
  ELSE (IF IsFirstOne(m) THEN <<>> ELSE <<Piece("comma", 0, 0)>>) \o <<Piece("name", m, 0)>>
       \o text["value", tree[m].type][a + tree[m].offset] \o text["rest", NextMember(m)][a]

Text[n \in 0 .. Depth] ==
  [p \in Parts |-> [a \in Nat |-> IF n = 0 THEN Cut
                                  ELSE IF p[1] = "value" THEN ValueText(Text[n - 1], p[2], a)
                                  ELSE RestText(Text[n - 1], p[2], a)]]

Root     == IF cmd.what = "local" THEN var_die ELSE walks[1].cur
Whole    == Text[Depth]["value", tree[Root].type][0]
Plain(d) == tree[d].tag = "member" => tree[d].label # "none" /\ tree[d].form = "constant"

(* A value that is reported as printed is printed as a whole, every member *)
(* once, in order, and from its own address; except after an error in the  *)
(* walk over the members, which closes the struct as if it had ended.      *)
PrintsWholeValue ==
  step = "end" /\ ret = "OK" /\ cmd.what = "local" /\ "cut" \notin faults /\ (\A d \in Dies : Plain(d))
    => out = Whole

(* The text leaves var_val_s only if the value is too long for it, or if   *)
(* its type contains itself, if only through a pointer, or one that cannot *)
(* be printed.                                                             *)
OverrunsIfTooLong ==
  step = "end" /\ ret = "overrun" =>
    Len(Whole) > Capacity \/ \E k \in DOMAIN Whole : Whole[k].is = "cut"

(* The command ends.                                                       *)
CommandEnds == <>(step = "end")
=============================================================================
