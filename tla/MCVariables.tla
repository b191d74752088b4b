---------------------------- MODULE MCVariables -----------------------------
(***************************************************************************)
(* The trees of seven dies, for checking Variables and DieTree: every      *)
(* shape of four dies for the search of the subprogram, the blocks of one  *)
(* subprogram, and the types of one variable.                              *)
(***************************************************************************)
EXTENDS Variables, TLC

D(p, tag, holds) == [parent |-> p, tag |-> tag, holds |-> holds, label |-> "none",
                     type |-> 0, offset |-> 0, form |-> "none"]
Named(p, tag, l, t) == [D(p, tag, "none") EXCEPT !.label = l, !.type = t]
M(p, l, t, o, f)    == [Named(p, "member", l, t) EXCEPT !.offset = o, !.form = f]
Leaf(p)             == D(p, "other", "none")

Pad(s) == [d \in Dies |-> IF d \in DOMAIN s THEN s[d] ELSE Leaf(0)]
Shapes(n) == {p \in [1 .. n -> 0 .. n - 1] : \A d \in 1 .. n : p[d] < d /\ \A e \in p[d] + 1 .. d - 1 : p[e] >= p[d]}

(* Subprograms and others that hold the address or not.                    *)
SearchTrees ==
  {Pad([d \in 1 .. 4 |-> D(p[d], g[d][1], g[d][2])]) :
     p \in Shapes(4), g \in [1 .. 4 -> {"subprogram", "other"} \X {"yes", "no"}]}

(* Die 1 is the subprogram; below it are blocks, variables, parameters.    *)
Scope == {<<"block", "yes", "none">>, <<"block", "no", "none">>, <<"block", "end", "none">>,
          <<"block", "none", "none">>, <<"variable", "none", "x">>, <<"variable", "none", "y">>,
          <<"param", "none", "x">>}
Below1 == {p \in Shapes(4) : \A d \in 2 .. 4 : p[d] # 0}
BlockTrees ==
  {Pad([d \in 1 .. 4 |-> IF d = 1 THEN D(0, "subprogram", "yes")
                         ELSE [D(p[d], g[d][1], g[d][2]) EXCEPT !.label = g[d][3],
                                                                !.type = IF g[d][3] = "x" THEN 5 ELSE 0]])
     : p \in Below1, g \in [2 .. 4 -> Scope]}
BlockTreesWithType == {[t EXCEPT ![5] = D(0, "base", "none")] : t \in BlockTrees}

(* Die 2 is the variable or the parameter; 3 is its type, a struct with    *)
(* members 4 and 5, or another type; 6 is one more type, the members' or   *)
(* the one that 3 modifies.  A struct may contain a pointer to itself, but *)
(* a chain of modifiers ends.  In the last trees the struct 5, with the    *)
(* member 6, is inside the struct 3, with the member 4.                    *)
One   == {D(0, "base", "none"), Named(0, "modifier", "none", 0), D(0, "struct", "none")}
Other == {Named(0, "modifier", "none", 6), D(0, "base", "none"), Leaf(0)}
Mems  == {M(3, l, 6, o, f) : l \in {"y", "none"}, o \in {0, 2},
                             f \in {"constant", "expression", "other", "none"}} \cup {Leaf(3)}
Top(tag)  == <<D(0, "subprogram", "yes"), Named(1, tag, "x", 3)>>
TypeTrees ==
  UNION {{Top(tag) \o <<s, Leaf(0), Leaf(0), y, Leaf(0)>> : s \in Other, y \in One} : tag \in {"variable", "param"}}
  \cup UNION {{Top(tag) \o <<D(0, "struct", "none"), a, b, y, Leaf(0)>> :
                 a \in Mems, b \in {M(3, "y", 6, 1, "constant"), Leaf(3)},
                 y \in One \cup {Named(0, "modifier", "none", 3)}} : tag \in {"variable", "param"}}
  \cup UNION {{Top(tag) \o <<D(0, "struct", "none"), M(3, "y", 5, o, "constant"), D(0, "struct", "none"),
                              M(5, "y", 7, p, "constant"), y>> :
                 o \in {0, 2}, p \in {0, 1}, y \in One} : tag \in {"variable", "param"}}

C(h, w, n, T) == {[how |-> h, what |-> w, name |-> n, tree |-> t] : t \in T}

MCTrees    == SearchTrees \cup BlockTreesWithType \cup TypeTrees
MCCommands == C("get", "local", "x", SearchTrees)
              \cup UNION {C("get", w, "x", BlockTreesWithType) : w \in {"local", "params"}}
              \cup UNION {C("get", w, "x", TypeTrees) : w \in {"local", "params"}}
              \cup C("get&", "params", "x", {t \in TypeTrees : t[3].tag = "base"})
              \cup C("get", "local", "absent", {t \in TypeTrees : t[3].tag = "base"})
              \cup C("set", "local", "x", {t \in TypeTrees : t[3].tag = "base"})
              \cup C("get", "other", "x", {t \in TypeTrees : t[3].tag = "base"})
=============================================================================
