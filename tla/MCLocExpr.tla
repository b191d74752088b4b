----------------------------- MODULE MCLocExpr ------------------------------
(***************************************************************************)
(* Words of four bits: every operation on every pair of operands, short    *)
(* expressions with branches, location lists, and reg commands.            *)
(***************************************************************************)
EXTENDS LocExpr

MCOptions == {"read", "write", "s", "d", "a", "set"}
MCArgs    == {Absent, Name("rax"), Name("r14"), Name("rip"), Name("cs"), Name("xmm0"),
              Numeral(1, <<7>>), Numeral(1, <<1, 0>>), Numeral(1, <<10>>), Numeral(-1, <<1>>)}
MCValues  == {Absent, Numeral(1, <<2>>), Numeral(-1, <<1, 1>>)}

MCMemory == [w \in 0 .. 11 |-> Word(5 * w + 3)]
MCFrame  == [frame_base |-> 9, load_address |-> 6, caller_sp |-> 13, obj_addr |-> 0]

Always(e)      == <<Entry(0, 15, e)>>
Scenario(l, h, n) == [locs |-> l, initial |-> h, commands |-> n]

(* An operation behind one, two or three operands.                         *)
Const(w)   == Op1("const", w)
Operations == {Op(o) : o \in BinaryOps \cup (UnaryOps \ {"plus_uconst"})
                 \cup {"deref", "dup", "drop", "over", "swap", "rot", "xderef", "piece",
                       "push_object_address", "call_frame_cfa", "implicit_value", "implicit_pointer"}}
              \cup {Op1(o, a) : o \in {"plus_uconst", "pick", "fbreg", "addr", "deref_size"}, a \in {0, 1, 2, 12}}
              \cup {Op1(o, a) : o \in {"reg", "breg", "bregx", "regx"}, a \in {7, 26, 31}}
OnePair   == {Always(<<Const(v), Const(w), o>>) : v, w \in UWORD, o \in Operations}
OneTriple == {Always(<<Const(v), Const(w), Const(1), o, p>>) :
                v, w \in {0, 7, 8, 14},
                o, p \in {Op("rot"), Op("swap"), Op("minus"), Op("over"), Op("dup"), Op1("pick", 2)}}

(* Short expressions with branches.                                        *)
Few      == {Op1("lit", 0), Op1("lit", 1), Op("dup"), Op("drop"), Op("stack_value"),
             Op1("skip", 1), Op1("skip", -1), Op1("skip", -4), Op1("bra", 1), Op1("bra", -4), Op1("bra", -5)}
Branches == {Always(<<Op1("lit", 1)>> \o e) : e \in [1 .. 3 -> Few]}

(* Two entries, in each order, around the pc.                              *)
Lists == {<<Entry(lo, mid, <<Const(1)>>), Entry(nx, hi, <<Const(2)>>)>> :
            lo, mid, nx, hi \in {0, 4, 10, 12}} \cup {<<>>}

MCScenarios ==
  {Scenario(l, 0, 0) : l \in OnePair \cup OneTriple \cup Branches}
  \cup {Scenario(l, h, 0) : l \in Lists, h \in {0, 1}}
  \cup {Scenario(<<Entry(0, 8, <<Op1("breg", 10)>>), Entry(9, 15, <<Op1("breg", 0)>>)>>, 0, 2)}
=============================================================================
