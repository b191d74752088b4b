--------------------------- MODULE VariablesProofs --------------------------
(***************************************************************************)
(* The search of the subprogram and the var command that uses its answer,  *)
(* for every tree of DIEs and every command.                               *)
(***************************************************************************)
EXTENDS Variables, FiniteSetTheorems, WellFoundedInduction, NaturalsInduction, SequenceTheorems, TLAPS

(* A nonempty set of natural numbers has a least element: induction, in    *)
(* the form in which the proofs below need it.                             *)
LEMMA LeastNatural ==
  ASSUME NEW S, S \subseteq Nat, S # {}
  PROVE  \E n \in S : \A m \in S : n <= m
<1> DEFINE R == {ss \in Nat \X Nat : ss[1] < ss[2]}
<1>1. OpToRel(<, Nat) = R
  BY DEF OpToRel
<1>2. IsWellFoundedOn(R, Nat)
  BY <1>1, NatLessThanWellFounded, Zenon
<1>3. PICK n \in S : \A m \in S : ~ <<m, n>> \in R
  <2> HIDE DEF R
  <2> QED
    BY <1>2, WFMin
<1>4. ASSUME NEW m \in S PROVE n <= m
  <2>1. ~ m < n
    <3>1. m \in Nat /\ n \in Nat /\ ~ <<m, n>> \in R
      BY <1>3
    <3> QED
      BY <3>1
  <2> QED
    BY <2>1
<1> QED
  BY <1>4

(* Min is the least element.                                               *)
LEMMA MinIsLeast ==
  ASSUME NEW S, S \subseteq Nat, S # {}
  PROVE  Min(S) \in S /\ \A m \in S : Min(S) <= m
BY LeastNatural DEF Min
(* A stack without its top, with another top, and with one more.           *)
Front(s) == SubSeq(s, 1, Len(s) - 1)

LEMMA Top ==
  ASSUME NEW S, NEW s \in Seq(S), s # <<>>
  PROVE  Len(s) \in Nat \ {0} /\ Len(s) - 1 \in Nat /\ s[Len(s)] \in S
OBVIOUS

LEMMA Pop ==
  ASSUME NEW S, NEW s \in Seq(S), s # <<>>
  PROVE  /\ Front(s) \in Seq(S) /\ Len(Front(s)) = Len(s) - 1
         /\ \A k \in 1 .. Len(s) - 1 : Front(s)[k] = s[k]
<1> DEFINE n == Len(s) - 1
           u == [k \in 1 .. n |-> s[k]]
<1>1. n \in Nat /\ \A k \in 1 .. n : s[k] \in S
  OBVIOUS
<1>2. Front(s) = [k \in 1 .. n |-> s[1 + k - 1]]
  BY <1>1 DEF Front
<1>3. Front(s) = u
  <2> HIDE DEF n
  <2> QED
    BY <1>1, <1>2
<1>4. u \in Seq(S) /\ Len(u) = n
  <2> HIDE DEF n
  <2>1. u \in [1 .. n -> S]
    BY <1>1
  <2> QED
    BY <1>1, <2>1
<1> QED
  BY <1>3, <1>4

LEMMA Push ==
  ASSUME NEW S, NEW s \in Seq(S), NEW x \in S
  PROVE  /\ Append(s, x) \in Seq(S) /\ Len(Append(s, x)) = Len(s) + 1
         /\ \A k \in 1 .. Len(s) : Append(s, x)[k] = s[k]
         /\ Append(s, x)[Len(s) + 1] = x
OBVIOUS

LEMMA Replace ==
  ASSUME NEW S, NEW s \in Seq(S), s # <<>>, NEW x \in S
  PROVE  /\ Append(Front(s), x) \in Seq(S) /\ Len(Append(Front(s), x)) = Len(s)
         /\ \A k \in 1 .. Len(s) - 1 : Append(Front(s), x)[k] = s[k]
         /\ Append(Front(s), x)[Len(s)] = x
<1>1. /\ Front(s) \in Seq(S) /\ Len(Front(s)) = Len(s) - 1
      /\ \A k \in 1 .. Len(s) - 1 : Front(s)[k] = s[k]
  BY Pop, Zenon
<1>2. Len(s) \in Nat
  OBVIOUS
<1>3. /\ Append(Front(s), x) \in Seq(S) /\ Len(Append(Front(s), x)) = Len(Front(s)) + 1
      /\ \A k \in 1 .. Len(Front(s)) : Append(Front(s), x)[k] = Front(s)[k]
      /\ Append(Front(s), x)[Len(Front(s)) + 1] = x
  BY <1>1, Push, Zenon
<1> QED
  BY <1>1, <1>2, <1>3

(* The calls that are active, each with the die that it is at and the one  *)
(* whose children the call inside of it looks at.                          *)
Level     == Len(frames)
Cur(k)    == frames[k].cur
Nxt(k)    == frames[k].next
Parent(d) == tree[d].parent

(* The later siblings of a die.                                            *)
Later(d) == {s \in Dies : s > d /\ Parent(s) = Parent(d)}

(* The calls go down the tree by two levels each.                          *)
CallsNest ==
  /\ Parent(Cur(1)) = 0
  /\ \A k \in 1 .. Level - 1 : /\ Nxt(k) # 0
                               /\ Parent(Nxt(k)) = Cur(k)
                               /\ Parent(Cur(k + 1)) = Nxt(k)
  /\ \A j, k \in 1 .. Level : j < k => Cur(j) < Nxt(j) /\ Nxt(j) < Cur(k)

(* The search is in document order: what it has seen comes before the dies *)
(* that the active calls have yet to visit.                                *)
InDocumentOrder ==
  \A k \in 1 .. Level : \A s \in Later(Cur(k)) : sub < s /\ \A j \in 1 .. Level : Cur(j) < s

NotYetVisited == at = "visit" => sub < Cur(Level) /\ Cur(Level) \in live

(* The answer is a die that some call has visited, and not one of those    *)
(* that a call has skipped on its way down and gives back at its end.      *)
AnswerIsKept ==
  /\ sub # 0 => sub \in Holders /\ sub \in live
  /\ \A k \in 1 .. Level - 1 : Nxt(k) # sub

(* Every handle that is live belongs to an active call, or was an answer.  *)
Held(d) ==
  (\E k \in 1 .. Level : d = Cur(k)) \/ (\E k \in 1 .. Level - 1 : d = Nxt(k)) \/ d \in Holders

HandlesAreHeld == \A d \in live : Held(d)

(* No subprogram directly below the unit has been passed over.             *)
Passed(d) == d < Cur(1) \/ (d = Cur(1) /\ (Level > 1 \/ at = "sibling"))

TopLevelIsSeen == \A d \in Holders : Parent(d) = 0 /\ Passed(d) => sub # 0

(* What the search knows while it is under way, and at its end.            *)
Frames == [cur: Dies, next: Dies \cup {0}]

Underway ==
  /\ tree \in Trees /\ frames \in Seq(Frames) /\ frames # <<>>
  /\ live \subseteq Dies /\ sub \in Dies \cup {0} /\ res = "NO_ENTRY"
  /\ CallsNest /\ InDocumentOrder /\ NotYetVisited /\ AnswerIsKept /\ HandlesAreHeld /\ TopLevelIsSeen

Over ==
  Finished => /\ sub # 0 => sub \in Holders /\ sub \in live
              /\ live \subseteq Holders
              /\ \A d \in Holders : Parent(d) = 0 => sub # 0

SearchInv ==
  /\ tree \in Trees /\ SearchTypeOK
  /\ at = "call" => frames = <<>> /\ live = {} /\ sub = 0
  /\ at = "done" => Over
  /\ res = "ERROR" => at = "done"
  /\ at \in {"visit", "sibling"} => Underway
-----------------------------------------------------------------------------
(* The dies and the trees.                                                 *)
LEMMA DieTypes ==
  ASSUME tree \in Trees, NEW d \in Dies
  PROVE  /\ d \in Nat \ {0}
         /\ Parent(d) \in Dies \cup {0} /\ Parent(d) \in Nat /\ Parent(d) < d
         /\ tree[d].type \in Dies \cup {0}
         /\ \A e \in Dies : Parent(d) < e /\ e < d => Parent(e) >= Parent(d)
<1>1. tree[d] \in Die /\ Parent(d) < d
      /\ \A e \in Dies : Parent(d) < e /\ e < d => Parent(e) >= Parent(d)
  BY TreesAssumption DEF Parent
<1>2. Parent(d) \in Dies \cup {0} /\ tree[d].type \in Dies \cup {0}
  BY <1>1 DEF Die, Parent
<1>3. Dies \subseteq Nat /\ 0 \notin Dies /\ 0 \in Nat
  BY DiesAssumption
<1> QED
  BY <1>1, <1>2, <1>3, Zenon

(* The least die of a set, 0 if there is none.                             *)
LEMMA FirstIsLeast ==
  ASSUME NEW S, S \subseteq Dies
  PROVE  /\ First(S) = 0 => S = {}
         /\ First(S) # 0 => First(S) \in S /\ First(S) \in Dies
         /\ \A s \in S : First(S) \in S /\ First(S) <= s
<1>1. S \subseteq Nat /\ 0 \notin S
  BY DiesAssumption
<1> QED
  BY <1>1, MinIsLeast DEF First

LEMMA ChildIsFirst ==
  ASSUME tree \in Trees, NEW d
  PROVE  /\ dwarf_child(d) = 0 => \A k \in Dies : Parent(k) # d
         /\ dwarf_child(d) # 0 => /\ dwarf_child(d) \in Dies /\ Parent(dwarf_child(d)) = d
                                 /\ d < dwarf_child(d)
         /\ \A k \in Dies : Parent(k) = d => dwarf_child(d) # 0 /\ dwarf_child(d) <= k
<1>1. {k \in Dies : Parent(k) = d} \subseteq Dies
  OBVIOUS
<1>2. 0 \notin Dies
  BY DiesAssumption
<1> QED
  BY <1>1, <1>2, FirstIsLeast, DieTypes DEF dwarf_child, Parent

LEMMA SiblingIsNext ==
  ASSUME tree \in Trees, NEW d \in Dies
  PROVE  /\ dwarf_siblingof_c(d) = 0 => Later(d) = {}
         /\ dwarf_siblingof_c(d) # 0 => dwarf_siblingof_c(d) \in Later(d)
         /\ \A s \in Later(d) : dwarf_siblingof_c(d) # 0 /\ dwarf_siblingof_c(d) <= s
<1>1. Later(d) \subseteq Dies /\ dwarf_siblingof_c(d) = First(Later(d))
  BY DEF Later, Parent, dwarf_siblingof_c
<1>2. 0 \notin Dies
  BY DiesAssumption
<1> QED
  BY <1>1, <1>2, FirstIsLeast

(* A die below p comes before every die behind p that is not below p.      *)
LEMMA BelowIsBefore ==
  ASSUME tree \in Trees, NEW n \in Dies, NEW s \in Dies,
         Parent(s) < Parent(n), Parent(n) < s
  PROVE  n < s
<1>1. n # s
  BY DieTypes
<1>2. ~ s < n
  BY DieTypes
<1> QED
  BY <1>1, <1>2, DieTypes

(* What a stack of calls consists of.                                      *)
LEMMA FrameTypes ==
  ASSUME frames \in Seq(Frames)
  PROVE  /\ Level \in Nat /\ (frames # <<>> => Level \in Nat \ {0} /\ cur_die = Cur(Level))
         /\ \A k \in 1 .. Level : Cur(k) \in Dies /\ Nxt(k) \in Dies \cup {0}
<1>1. /\ Level \in Nat /\ (frames # <<>> => Level \in Nat \ {0})
      /\ \A k \in 1 .. Level : frames[k] \in Frames
  BY DEF Level
<1>2. cur_die = Cur(Level)
  BY DEF cur_die, Cur, Level
<1> QED
  BY <1>1, <1>2 DEF Frames, Cur, Nxt

(* The innermost call has returned.                                        *)
LEMMA PoppedFrames ==
  ASSUME frames \in Seq(Frames), frames # <<>>, NEW n, n = Level, frames' = Callers
  PROVE  /\ frames' \in Seq(Frames) /\ Level' = n - 1
         /\ \A k \in 1 .. n - 1 : Cur(k)' = Cur(k) /\ Nxt(k)' = Nxt(k)
<1>1. frames' = Front(frames)
  BY DEF Callers, Front
<1>2. /\ frames' \in Seq(Frames) /\ Len(frames') = Len(frames) - 1
      /\ \A k \in 1 .. Len(frames) - 1 : frames'[k] = frames[k]
  BY <1>1, Pop
<1> QED
  BY <1>2 DEF Level, Cur, Nxt

(* The innermost call, on level n of the stack, has moved on to die s.     *)
LEMMA MovedFrames ==
  ASSUME frames \in Seq(Frames), frames # <<>>, NEW n, n = Level, NEW s \in Dies, frames' = Move(s)
  PROVE  /\ frames' \in Seq(Frames) /\ frames' # <<>> /\ Level' = n
         /\ \A k \in 1 .. n - 1 : Cur(k)' = Cur(k) /\ Nxt(k)' = Nxt(k)
         /\ Cur(n)' = s
<1> DEFINE x == Frame(s)
<1>1. x \in Frames /\ x.cur = s
  BY DEF Frame, Frames
<1>2. frames' = Append(Front(frames), x)
  BY DEF Callers, Front, Move
<1>3. n = Len(frames) /\ n \in Nat \ {0}
  BY FrameTypes DEF Level
<1> HIDE DEF x
<1>4. /\ frames' \in Seq(Frames) /\ Len(frames') = Len(frames)
      /\ \A k \in 1 .. Len(frames) - 1 : frames'[k] = frames[k]
      /\ frames'[Len(frames)] = x
  BY <1>1, <1>2, Replace
<1>5. frames' # <<>>
  BY <1>3, <1>4
<1> QED
  BY <1>1, <1>3, <1>4, <1>5 DEF Level, Cur, Nxt

(* It has called itself for child d of its die, and is at d's child g.     *)
Descends(d, g) == frames' = Append(Append(Callers, [cur |-> cur_die, next |-> d]), Frame(g))

LEMMA PushedFrames ==
  ASSUME frames \in Seq(Frames), frames # <<>>, NEW n, n = Level, NEW d \in Dies, NEW g \in Dies,
         Descends(d, g)
  PROVE  /\ frames' \in Seq(Frames) /\ frames' # <<>> /\ Level' = n + 1
         /\ \A k \in 1 .. n : Cur(k)' = Cur(k)
         /\ \A k \in 1 .. n - 1 : Nxt(k)' = Nxt(k)
         /\ Nxt(n)' = d /\ Cur(n + 1)' = g
<1> DEFINE x == [cur |-> cur_die, next |-> d]
           y == Frame(g)
<1>1. n \in Nat \ {0} /\ n = Len(frames) /\ cur_die = frames[n].cur /\ cur_die \in Dies
  BY FrameTypes DEF Level, Cur
<1>2. x \in Frames /\ y \in Frames /\ x.cur = frames[n].cur /\ x.next = d /\ y.cur = g
  BY <1>1 DEF Frame, Frames
<1> DEFINE u == Append(Front(frames), x)
<1>3. frames' = Append(u, y)
  BY DEF Callers, Front, Descends
<1> HIDE DEF x, y
<1>4. /\ u \in Seq(Frames) /\ Len(u) = Len(frames)
      /\ \A k \in 1 .. Len(frames) - 1 : u[k] = frames[k]
      /\ u[Len(frames)] = x
  BY <1>2, Replace
<1> HIDE DEF u
<1>5. /\ frames' \in Seq(Frames) /\ Len(frames') = n + 1
      /\ \A k \in 1 .. n - 1 : frames'[k] = frames[k]
      /\ frames'[n] = x /\ frames'[n + 1] = y
  BY <1>1, <1>2, <1>3, <1>4
<1>6. frames'[n].cur = frames[n].cur /\ frames'[n].next = d /\ frames'[n + 1].cur = g
  BY <1>2, <1>5
<1>7. frames' # <<>>
  BY <1>1, <1>5
<1>8. \A k \in 1 .. n : frames'[k].cur = frames[k].cur
  <2>1. \A k \in 1 .. n : k \in 1 .. n - 1 \/ k = n
    BY <1>1
  <2> QED
    BY <1>5, <1>6, <2>1
<1> QED
  BY <1>1, <1>5, <1>6, <1>7, <1>8 DEF Level, Cur, Nxt

LEMMA DieNumbers == Dies \subseteq Nat /\ 0 \notin Dies /\ 0 \in Nat
BY DiesAssumption

(* The active calls are at dies, each behind the one of its caller.        *)
LEMMA CallsRise ==
  ASSUME Underway
  PROVE  /\ Level \in Nat \ {0}
         /\ \A k \in 1 .. Level : Cur(k) \in Dies /\ Cur(k) \in Nat /\ Cur(k) <= Cur(Level)
         /\ \A k \in 1 .. Level - 1 : /\ Nxt(k) \in Dies /\ Nxt(k) \in Nat
                                      /\ Cur(k) < Nxt(k) /\ Nxt(k) < Cur(Level)
         /\ cur_die = Cur(Level)
<1>1. /\ Level \in Nat \ {0} /\ cur_die = Cur(Level)
      /\ \A k \in 1 .. Level : Cur(k) \in Dies /\ Nxt(k) \in Dies \cup {0}
  BY FrameTypes DEF Underway
<1>2. \A k \in 1 .. Level : Cur(k) \in Nat /\ Nxt(k) \in Nat
  BY <1>1, DieNumbers
<1>3. \A k \in 1 .. Level - 1 : /\ Nxt(k) # 0 /\ k \in 1 .. Level /\ Level \in 1 .. Level
                                /\ Cur(k) < Nxt(k) /\ Nxt(k) < Cur(Level)
  BY <1>1 DEF Underway, CallsNest
<1>4. \A k \in 1 .. Level : k \in 1 .. Level - 1 \/ k = Level
  BY <1>1
<1> QED
  BY <1>1, <1>2, <1>3, <1>4

(* The answer after the visit of a die.                                    *)
LEMMA Answered ==
  ASSUME Underway, at = "visit", NEW a, a = IF Matches(cur_die) THEN cur_die ELSE sub
  PROVE  /\ a \in Dies \cup {0} /\ a \in Nat /\ a <= Cur(Level)
         /\ a # 0 => a \in Holders /\ a \in live
         /\ \A k \in 1 .. Level - 1 : Nxt(k) # a
         /\ \A k \in 1 .. Level : \A s \in Later(Cur(k)) : a < s
         /\ \A d \in Holders : Parent(d) = 0 /\ (d < Cur(1) \/ d = Cur(1)) => a # 0
<1> DEFINE c == Cur(Level)
<1>1. /\ Level \in Nat \ {0} /\ c \in Dies /\ c \in Nat /\ c # 0 /\ cur_die = c
      /\ \A k \in 1 .. Level - 1 : Nxt(k) < c
  BY CallsRise, DieNumbers
<1>2. sub < c /\ c \in live /\ sub \in Nat
  BY DieNumbers DEF Underway, NotYetVisited
<1>3. Matches(c) <=> c \in Holders
  BY <1>1 DEF Matches, Holders
<1>4. \A k \in 1 .. Level - 1 : Nxt(k) # sub /\ Nxt(k) # c
  BY <1>1 DEF Underway, AnswerIsKept
<1>5. \A k \in 1 .. Level : \A s \in Later(Cur(k)) : sub < s /\ c < s
  BY <1>1 DEF Underway, InDocumentOrder
<1>6. a = sub \/ (a = c /\ c \in Holders)
  BY <1>1, <1>3
<1> HIDE DEF c
<1>7. ASSUME NEW d \in Holders, Parent(d) = 0, d < Cur(1) \/ d = Cur(1) PROVE a # 0
  <2>1. CASE Level = 1 /\ d = Cur(1)
    BY <1>1, <1>3, <2>1 DEF c
  <2>2. CASE d < Cur(1) \/ Level > 1
    <3>1. sub # 0
      BY <1>7, <2>2 DEF Underway, TopLevelIsSeen, Passed
    <3> QED
      BY <1>1, <1>6, <3>1
  <2> QED
    BY <1>1, <1>7, <2>1, <2>2
<1>8. a # 0 => a \in Holders /\ a \in live
  BY <1>2, <1>6 DEF Underway, AnswerIsKept
<1>9. a \in Dies \cup {0} /\ a \in Nat /\ a <= c
  BY <1>1, <1>2, <1>6 DEF Underway
<1> QED
  BY <1>4, <1>5, <1>6, <1>7, <1>8, <1>9 DEF c

(* What a step does not change.                                            *)
LEMMA SameTree ==
  ASSUME tree' = tree
  PROVE  Holders' = Holders /\ \A d : Parent(d)' = Parent(d) /\ Later(d)' = Later(d)
BY DEF Holders, Parent, Later

LEMMA LaterIs ==
  ASSUME NEW d \in Dies, NEW s \in Later(d)
  PROVE  s \in Dies /\ s \in Nat /\ d < s /\ d \in Nat /\ Parent(s) = Parent(d)
BY DieNumbers DEF Later

(* A visit that goes down calls for the child m of the die, at m's child g. *)
LEMMA VisitDescends ==
  ASSUME Underway, at = "visit", NEW m \in Dies, NEW g \in Dies,
         Parent(m) = cur_die, Parent(g) = m, Descends(m, g),
         sub' = IF Matches(cur_die) THEN cur_die ELSE sub,
         live' = live \cup {m, g}, UNCHANGED <<tree, at, res>>
  PROVE  Underway'
<1> SUFFICES ASSUME NEW n, n = Level, NEW c, c = Cur(n), NEW a, a = sub' PROVE Underway'
  OBVIOUS
<1>1. /\ n \in Nat \ {0} /\ c \in Nat /\ c \in Dies /\ cur_die = c
      /\ \A k \in 1 .. n : Cur(k) \in Dies /\ Cur(k) \in Nat /\ Cur(k) <= c
      /\ \A k \in 1 .. n - 1 : Nxt(k) \in Nat /\ Cur(k) < Nxt(k) /\ Nxt(k) < c
  BY CallsRise
<1>2. /\ frames' \in Seq(Frames) /\ frames' # <<>> /\ Level' = n + 1
      /\ \A k \in 1 .. n : Cur(k)' = Cur(k)
      /\ \A k \in 1 .. n - 1 : Nxt(k)' = Nxt(k)
      /\ Nxt(n)' = m /\ Cur(n + 1)' = g
  BY PushedFrames DEF Underway
<1>3. /\ a \in Dies \cup {0} /\ a \in Nat /\ a <= c
      /\ a # 0 => a \in Holders /\ a \in live
      /\ \A k \in 1 .. n - 1 : Nxt(k) # a
      /\ \A k \in 1 .. n : \A s \in Later(Cur(k)) : a < s
      /\ \A d \in Holders : Parent(d) = 0 /\ (d < Cur(1) \/ d = Cur(1)) => a # 0
  BY Answered
<1>4. Holders' = Holders /\ \A d : Parent(d)' = Parent(d) /\ Later(d)' = Later(d)
  BY SameTree
<1>5. c < m /\ m < g /\ m \in Nat /\ g \in Nat
  BY <1>1, DieNumbers, DieTypes DEF Underway
<1>6. \A k \in 1 .. n + 1 : k \in 1 .. n \/ k = n + 1
  BY <1>1
<1>7. \A k \in 1 .. n : k \in 1 .. n - 1 \/ k = n
  BY <1>1
<1>8. n \in 1 .. n /\ 1 \in 1 .. n /\ n + 1 \in 1 .. n + 1 /\ (n + 1) - 1 = n
  BY <1>1
<1>9. CallsNest'
  <2>1. Parent(Cur(1))' = 0
    BY <1>2, <1>4, <1>8 DEF Underway, CallsNest
  <2>2. ASSUME NEW k \in 1 .. n
        PROVE  Nxt(k)' # 0 /\ Parent(Nxt(k)') = Cur(k)' /\ Parent(Cur(k + 1)') = Nxt(k)'
    <3>1. CASE k = n
      BY <1>1, <1>2, <1>5, <1>8, <3>1
    <3>2. CASE k \in 1 .. n - 1
      <4>1. Nxt(k) # 0 /\ Parent(Nxt(k)) = Cur(k) /\ Parent(Cur(k + 1)) = Nxt(k)
        BY <3>2 DEF Underway, CallsNest
      <4>2. k + 1 \in 1 .. n
        BY <1>1, <3>2
      <4> QED
        BY <1>2, <3>2, <4>1, <4>2
    <3> QED
      BY <1>7, <3>1, <3>2
  <2>3. ASSUME NEW j \in 1 .. n + 1, NEW k \in 1 .. n + 1, j < k
        PROVE  Cur(j)' < Nxt(j)' /\ Nxt(j)' < Cur(k)'
    <3>1. j \in 1 .. n
      BY <1>1, <2>3
    <3>2. CASE k = n + 1 /\ j = n
      BY <1>1, <1>2, <1>5, <3>1, <3>2
    <3>3. CASE k = n + 1 /\ j \in 1 .. n - 1
      <4>1. Cur(j)' = Cur(j) /\ Nxt(j)' = Nxt(j) /\ Cur(k)' = g
        BY <1>2, <3>1, <3>3
      <4>2. Cur(j) < Nxt(j) /\ Nxt(j) < c /\ Nxt(j) \in Nat
        BY <1>1, <3>3
      <4> QED
        BY <1>1, <1>5, <4>1, <4>2
    <3>4. CASE k \in 1 .. n
      <4>1. j \in 1 .. n - 1
        BY <1>1, <2>3, <3>4
      <4>2. Cur(j) < Nxt(j) /\ Nxt(j) < Cur(k)
        BY <2>3, <3>1, <3>4 DEF Underway, CallsNest
      <4> QED
        BY <1>2, <3>1, <3>4, <4>1, <4>2
    <3> QED
      BY <1>6, <1>7, <3>1, <3>2, <3>3, <3>4
  <2> QED
    BY <1>2, <1>4, <1>8, <2>1, <2>2, <2>3 DEF CallsNest
<1>10. InDocumentOrder'
  <2>1. ASSUME NEW k \in 1 .. n + 1, NEW s \in Later(Cur(k)')
        PROVE  a < s /\ \A j \in 1 .. n + 1 : Cur(j)' < s
    <3>1. Cur(k)' \in Dies
      BY <1>1, <1>2, <1>6
    <3>2. s \in Dies /\ s \in Nat /\ Cur(k)' < s /\ Parent(s) = Parent(Cur(k)')
      BY <3>1, LaterIs
    <3>3. g < s
      <4>1. CASE k = n + 1
        BY <1>2, <3>2, <4>1
      <4>2. CASE k \in 1 .. n
        <5>1. s \in Later(Cur(k)) /\ Cur(k) \in Dies /\ Cur(k) <= c /\ Cur(k) \in Nat
          BY <1>1, <1>2, <4>2
        <5>2. c < s
          BY <1>8, <4>2, <5>1 DEF Underway, InDocumentOrder
        <5>3. Parent(s) < Cur(k) /\ Parent(s) \in Nat
          BY <1>2, <3>2, <4>2, <5>1, DieTypes DEF Underway
        <5>4. Parent(s) < Parent(m) /\ Parent(m) < s
          BY <1>1, <5>1, <5>2, <5>3
        <5>5. m < s
          BY <3>2, <5>4, BelowIsBefore DEF Underway
        <5>6. Parent(s) < Parent(g) /\ Parent(g) < s
          BY <1>1, <1>5, <5>1, <5>3, <5>5
        <5> QED
          BY <3>2, <5>6, BelowIsBefore DEF Underway
      <4> QED
        BY <1>6, <4>1, <4>2
    <3>4. ASSUME NEW j \in 1 .. n + 1 PROVE Cur(j)' < s
      <4>1. CASE j = n + 1
        BY <1>2, <3>3, <4>1
      <4>2. CASE j \in 1 .. n
        <5>1. Cur(j)' = Cur(j) /\ Cur(j) <= c /\ Cur(j) \in Nat
          BY <1>1, <1>2, <4>2
        <5> QED
          BY <1>1, <1>5, <3>2, <3>3, <5>1
      <4> QED
        BY <1>6, <4>1, <4>2
    <3>5. a < s
      BY <1>1, <1>3, <1>5, <3>2, <3>3
    <3> QED
      BY <3>4, <3>5
  <2> QED
    BY <1>2, <1>4, <2>1 DEF InDocumentOrder
<1>11. NotYetVisited'
  <2>1. Cur(Level)' = g
    BY <1>2 DEF Cur, Level
  <2> QED
    BY <1>1, <1>3, <1>5, <2>1 DEF NotYetVisited
<1>12. AnswerIsKept'
  <2>1. \A k \in 1 .. n : Nxt(k)' # a
    BY <1>1, <1>2, <1>3, <1>5, <1>7, SMTT(30)
  <2> QED
    BY <1>2, <1>3, <1>4, <1>8, <2>1 DEF AnswerIsKept
<1>13. HandlesAreHeld'
  <2>1. ASSUME NEW d \in live' PROVE Held(d)'
    <3>1. CASE d = g
      BY <1>2, <1>8, <3>1 DEF Held
    <3>2. CASE d = m
      BY <1>2, <1>8, <3>2 DEF Held
    <3>3. CASE d \in live
      <4>1. CASE d \in Holders
        BY <1>4, <4>1 DEF Held
      <4>2. CASE \E k \in 1 .. n : d = Cur(k)
        <5>1. PICK k \in 1 .. n : d = Cur(k)
          BY <4>2
        <5>2. k \in 1 .. n + 1 /\ Cur(k)' = d
          BY <1>1, <1>2, <5>1
        <5> QED
          BY <1>2, <5>2 DEF Held
      <4>3. CASE \E k \in 1 .. n - 1 : d = Nxt(k)
        <5>1. PICK k \in 1 .. n - 1 : d = Nxt(k)
          BY <4>3
        <5>2. k \in 1 .. n /\ Nxt(k)' = d
          BY <1>1, <1>2, <5>1
        <5> QED
          BY <1>2, <1>8, <5>2 DEF Held
      <4> QED
        BY <3>3, <4>1, <4>2, <4>3 DEF Underway, HandlesAreHeld, Held
    <3> QED
      BY <3>1, <3>2, <3>3
  <2> QED
    BY <2>1 DEF HandlesAreHeld
<1>14. TopLevelIsSeen'
  <2>1. ASSUME NEW d \in Holders, Parent(d) = 0, Passed(d)' PROVE a # 0
    <3>1. Cur(1)' = Cur(1)
      BY <1>2, <1>8
    <3> QED
      BY <1>3, <2>1, <3>1 DEF Passed
  <2> QED
    BY <1>4, <2>1 DEF TopLevelIsSeen
<1>15. live' \subseteq Dies
  BY DEF Underway
<1> QED
  BY <1>2, <1>3, <1>9, <1>10, <1>11, <1>12, <1>13, <1>14, <1>15 DEF Underway

(* A visit that looks at nothing below the die.                            *)
LEMMA VisitStays ==
  ASSUME Underway, at = "visit", at' = "sibling",
         sub' = IF Matches(cur_die) THEN cur_die ELSE sub,
         UNCHANGED <<tree, frames, live, res>>
  PROVE  Underway'
<1> SUFFICES ASSUME NEW n, n = Level, NEW c, c = Cur(n), NEW a, a = sub' PROVE Underway'
  OBVIOUS
<1>1. /\ n \in Nat \ {0} /\ c \in Nat /\ c \in Dies
      /\ \A k \in 1 .. n : Cur(k) \in Dies /\ Cur(k) \in Nat
  BY CallsRise
<1>2. Level' = n /\ \A k : Cur(k)' = Cur(k) /\ Nxt(k)' = Nxt(k)
  BY DEF Level, Cur, Nxt
<1>3. /\ a \in Dies \cup {0}
      /\ a # 0 => a \in Holders /\ a \in live
      /\ \A k \in 1 .. n - 1 : Nxt(k) # a
      /\ \A k \in 1 .. n : \A s \in Later(Cur(k)) : a < s
      /\ \A d \in Holders : Parent(d) = 0 /\ (d < Cur(1) \/ d = Cur(1)) => a # 0
  BY Answered
<1>4. Holders' = Holders /\ \A d : Parent(d)' = Parent(d) /\ Later(d)' = Later(d)
  BY SameTree
<1>5. CallsNest'
  BY <1>2, <1>4 DEF Underway, CallsNest
<1>6. InDocumentOrder'
  BY <1>2, <1>3, <1>4 DEF Underway, InDocumentOrder
<1>7. NotYetVisited' /\ AnswerIsKept'
  BY <1>2, <1>3, <1>4 DEF NotYetVisited, AnswerIsKept
<1>8. HandlesAreHeld'
  BY <1>2, <1>4 DEF Underway, HandlesAreHeld, Held
<1>9. TopLevelIsSeen'
  BY <1>2, <1>3, <1>4 DEF TopLevelIsSeen, Passed
<1> QED
  BY <1>3, <1>5, <1>6, <1>7, <1>8, <1>9 DEF Underway

(* What is left when the innermost call leaves its die.                    *)
LEMMA DroppedIs ==
  ASSUME Underway
  PROVE  /\ Dropped \subseteq live
         /\ cur_die \in Dropped => cur_die \in Holders
         /\ sub # 0 => sub \in Dropped
<1>1. cur_die # 0
  BY CallsRise, DieNumbers
<1> QED
  BY <1>1 DEF Underway, AnswerIsKept, Dropped

LEMMA SiblingMoves ==
  ASSUME Underway, at = "sibling", NEW s, s = dwarf_siblingof_c(cur_die), s # 0,
         frames' = Move(s), live' = Dropped \cup {s}, at' = "visit", UNCHANGED <<tree, sub, res>>
  PROVE  Underway'
<1> SUFFICES ASSUME NEW n, n = Level, NEW c, c = Cur(n) PROVE Underway'
  OBVIOUS
<1>1. /\ n \in Nat \ {0} /\ c \in Nat /\ c \in Dies /\ cur_die = c
      /\ \A k \in 1 .. n : Cur(k) \in Dies /\ Cur(k) \in Nat /\ Cur(k) <= c
      /\ \A k \in 1 .. n - 1 : Nxt(k) \in Nat /\ Cur(k) < Nxt(k) /\ Nxt(k) < c
  BY CallsRise
<1>2. s \in Later(c) /\ \A t \in Later(c) : s <= t
  BY <1>1, SiblingIsNext DEF Underway
<1>3. s \in Dies /\ s \in Nat /\ c < s /\ Parent(s) = Parent(c)
  BY <1>1, <1>2, LaterIs
<1>4. /\ frames' \in Seq(Frames) /\ frames' # <<>> /\ Level' = n
      /\ \A k \in 1 .. n - 1 : Cur(k)' = Cur(k) /\ Nxt(k)' = Nxt(k)
      /\ Cur(n)' = s
  BY <1>3, MovedFrames DEF Underway
<1>5. Holders' = Holders /\ \A d : Parent(d)' = Parent(d) /\ Later(d)' = Later(d)
  BY SameTree
<1>6. \A k \in 1 .. n : k \in 1 .. n - 1 \/ k = n
  BY <1>1
<1>7. n \in 1 .. n /\ 1 \in 1 .. n /\ (n # 1 => n - 1 \in 1 .. n - 1 /\ (n - 1) + 1 = n)
  BY <1>1
<1>8. CallsNest'
  <2>1. Parent(Cur(1)') = 0
    <3>1. CASE n = 1
      BY <1>3, <1>4, <3>1 DEF Underway, CallsNest
    <3>2. CASE n # 1
      <4>1. 1 \in 1 .. n - 1
        BY <1>1, <3>2
      <4> QED
        BY <1>4, <4>1 DEF Underway, CallsNest
    <3> QED
      BY <3>1, <3>2
  <2>2. ASSUME NEW k \in 1 .. n - 1
        PROVE  Nxt(k)' # 0 /\ Parent(Nxt(k)') = Cur(k)' /\ Parent(Cur(k + 1)') = Nxt(k)'
    <3>1. Nxt(k) # 0 /\ Parent(Nxt(k)) = Cur(k) /\ Parent(Cur(k + 1)) = Nxt(k)
      BY DEF Underway, CallsNest
    <3>2. CASE k + 1 = n
      BY <1>3, <1>4, <3>1, <3>2
    <3>3. CASE k + 1 # n
      <4>1. k + 1 \in 1 .. n - 1
        BY <1>1, <3>3
      <4> QED
        BY <1>4, <3>1, <4>1
    <3> QED
      BY <3>2, <3>3
  <2>3. ASSUME NEW j \in 1 .. n, NEW k \in 1 .. n, j < k
        PROVE  Cur(j)' < Nxt(j)' /\ Nxt(j)' < Cur(k)'
    <3>1. j \in 1 .. n - 1
      BY <1>1, <2>3
    <3>2. Cur(j) < Nxt(j) /\ Nxt(j) < Cur(k) /\ Nxt(j) < c /\ Nxt(j) \in Nat
      BY <1>1, <2>3, <3>1 DEF Underway, CallsNest
    <3>3. CASE k = n
      BY <1>1, <1>3, <1>4, <3>1, <3>2, <3>3
    <3>4. CASE k \in 1 .. n - 1
      BY <1>4, <3>1, <3>2, <3>4
    <3> QED
      BY <1>6, <3>3, <3>4
  <2> QED
    BY <1>4, <1>5, <2>1, <2>2, <2>3 DEF CallsNest
<1>9. InDocumentOrder'
  <2>1. ASSUME NEW k \in 1 .. n, NEW t \in Later(Cur(k)')
        PROVE  sub < t /\ \A j \in 1 .. n : Cur(j)' < t
    <3>1. Cur(k)' \in Dies
      BY <1>1, <1>3, <1>4, <1>6
    <3>2. t \in Dies /\ t \in Nat /\ Cur(k)' < t /\ Parent(t) = Parent(Cur(k)')
      BY <3>1, LaterIs
    <3>3. \E l \in 1 .. n : t \in Later(Cur(l))
      <4>1. CASE k = n
        <5>1. t > c
          BY <1>1, <1>3, <1>4, <3>2, <4>1
        <5>2. Parent(t) = Parent(c)
          BY <1>3, <1>4, <3>2, <4>1
        <5>3. t \in Later(Cur(n))
          BY <3>2, <5>1, <5>2 DEF Later
        <5> QED
          BY <1>7, <5>3
      <4>2. CASE k \in 1 .. n - 1
        BY <1>4, <4>2
      <4> QED
        BY <1>6, <4>1, <4>2
    <3>4. sub < t /\ \A j \in 1 .. n : Cur(j) < t
      BY <3>3 DEF Underway, InDocumentOrder
    <3>5. s < t
      <4>1. CASE k = n
        BY <1>4, <3>2, <4>1
      <4>2. CASE k \in 1 .. n - 1
        <5>1. n # 1 /\ n - 1 \in 1 .. n - 1 /\ (n - 1) + 1 = n
          BY <1>1, <4>2
        <5>2. Parent(Cur((n - 1) + 1)) = Nxt(n - 1)
          BY <5>1 DEF Underway, CallsNest
        <5>3. Parent(s) = Nxt(n - 1)
          BY <1>3, <5>1, <5>2
        <5>4. Nxt(n - 1) < c /\ c < t /\ Nxt(n - 1) \in Nat
          BY <1>1, <1>7, <3>4, <5>1
        <5>5. Parent(t) < Cur(k) /\ Parent(t) \in Nat /\ Cur(k) \in Nat
          BY <1>1, <1>4, <3>1, <3>2, <4>2, DieTypes DEF Underway
        <5>6. Cur(k) < Nxt(n - 1)
          <6>1. CASE k = n - 1
            BY <1>1, <4>2, <6>1
          <6>2. CASE k # n - 1
            <7>1. k \in 1 .. n /\ n - 1 \in 1 .. n /\ k < n - 1
              BY <1>1, <4>2, <5>1, <6>2
            <7>2. Cur(k) < Nxt(k) /\ Nxt(k) < Cur(n - 1) /\ Cur(n - 1) < Nxt(n - 1)
              BY <1>1, <4>2, <5>1, <7>1 DEF Underway, CallsNest
            <7>3. Cur(n - 1) \in Nat /\ Nxt(k) \in Nat
              BY <1>1, <4>2, <7>1
            <7> QED
              BY <5>4, <5>5, <7>2, <7>3
          <6> QED
            BY <6>1, <6>2
        <5>7. Parent(t) < Parent(s) /\ Parent(s) < t
          BY <1>1, <3>2, <5>3, <5>4, <5>5, <5>6
        <5> QED
          BY <1>3, <3>2, <5>7, BelowIsBefore DEF Underway
      <4> QED
        BY <1>6, <4>1, <4>2
    <3>6. ASSUME NEW j \in 1 .. n PROVE Cur(j)' < t
      BY <1>4, <1>6, <3>4, <3>5
    <3> QED
      BY <3>4, <3>6
  <2> QED
    BY <1>4, <1>5, <2>1 DEF InDocumentOrder
<1>10. NotYetVisited'
  <2>1. Cur(Level)' = s
    BY <1>4 DEF Cur, Level
  <2>2. sub < s
    BY <1>2, <1>7 DEF Underway, InDocumentOrder
  <2> QED
    BY <2>1, <2>2 DEF NotYetVisited
<1>11. AnswerIsKept'
  BY <1>4, <1>5, DroppedIs DEF Underway, AnswerIsKept
<1>12. HandlesAreHeld'
  <2>1. ASSUME NEW d \in live' PROVE Held(d)'
    <3>1. CASE d = s
      BY <1>4, <1>7, <3>1 DEF Held
    <3>2. CASE d \in Dropped
      <4>1. d \in live /\ (d = c => d \in Holders)
        BY <1>1, <3>2, DroppedIs
      <4>2. Held(d)
        BY <4>1 DEF Underway, HandlesAreHeld
      <4>3. d \in Holders \/ \E k \in 1 .. n - 1 : d = Cur(k) \/ d = Nxt(k)
        BY <1>6, <4>1, <4>2 DEF Held
      <4>4. ASSUME NEW k \in 1 .. n - 1, d = Cur(k) \/ d = Nxt(k) PROVE Held(d)'
        <5>1. k \in 1 .. n
          BY <1>1
        <5> QED
          BY <1>4, <4>4, <5>1 DEF Held
      <4> QED
        BY <1>5, <4>3, <4>4 DEF Held
    <3> QED
      BY <3>1, <3>2
  <2> QED
    BY <2>1 DEF HandlesAreHeld
<1>13. TopLevelIsSeen'
  <2>1. ASSUME NEW d \in Holders, Parent(d) = 0, Passed(d)' PROVE sub # 0
    <3>1. d \in Dies /\ d \in Nat
      BY DieNumbers DEF Holders
    <3>2. CASE n = 1
      <4>1. d < s
        BY <1>4, <2>1, <3>2 DEF Passed
      <4>2. d \notin Later(c)
        BY <1>2, <1>3, <3>1, <4>1
      <4>3. Parent(c) = 0
        BY <3>2 DEF Underway, CallsNest
      <4>4. ~ c < d
        BY <2>1, <3>1, <4>2, <4>3 DEF Later
      <4>5. Passed(d)
        BY <1>1, <3>1, <3>2, <4>4 DEF Passed
      <4> QED
        BY <2>1, <4>5 DEF Underway, TopLevelIsSeen
    <3>3. CASE n # 1
      <4>1. 1 \in 1 .. n - 1 /\ n > 1
        BY <1>1, <3>3
      <4>2. Passed(d)
        BY <1>4, <2>1, <4>1 DEF Passed
      <4> QED
        BY <2>1, <4>2 DEF Underway, TopLevelIsSeen
    <3> QED
      BY <3>2, <3>3
  <2> QED
    BY <1>5, <2>1 DEF TopLevelIsSeen
<1>14. live' \subseteq Dies
  BY <1>3, DroppedIs DEF Underway
<1> QED
  BY <1>4, <1>8, <1>9, <1>10, <1>11, <1>12, <1>13, <1>14 DEF Underway

(* The innermost call returns, and its caller goes on with its own die.    *)
LEMMA SiblingReturns ==
  ASSUME Underway, at = "sibling", dwarf_siblingof_c(cur_die) = 0, Level > 1,
         frames' = Callers, live' = Dropped \ {Callers[Len(Callers)].next}, UNCHANGED <<tree, at, sub, res>>
  PROVE  Underway'
<1> SUFFICES ASSUME NEW n, n = Level, NEW c, c = Cur(n) PROVE Underway'
  OBVIOUS
<1>1. /\ n \in Nat \ {0} /\ n > 1 /\ cur_die = c
      /\ \A k \in 1 .. n : Cur(k) \in Dies /\ Cur(k) \in Nat
  BY CallsRise
<1>2. /\ frames' \in Seq(Frames) /\ Level' = n - 1
      /\ \A k \in 1 .. n - 1 : Cur(k)' = Cur(k) /\ Nxt(k)' = Nxt(k)
  BY PoppedFrames DEF Underway
<1>3. n - 1 \in 1 .. n - 1 /\ 1 \in 1 .. n - 1 /\ frames' # <<>>
  <2>1. n - 1 \in 1 .. n - 1 /\ 1 \in 1 .. n - 1
    BY <1>1
  <2>2. frames' # <<>>
    BY <1>1, <1>2 DEF Level
  <2> QED
    BY <2>1, <2>2
<1>4. Callers[Len(Callers)].next = Nxt(n - 1)
  <2>1. Nxt(n - 1)' = Callers[n - 1].next /\ Len(Callers) = n - 1
    BY <1>2 DEF Nxt, Level
  <2> QED
    BY <1>2, <1>3, <2>1
<1>5. Holders' = Holders /\ \A d : Parent(d)' = Parent(d) /\ Later(d)' = Later(d)
  BY SameTree
<1>6. \A k \in 1 .. n - 1 : k \in 1 .. n
  BY <1>1
<1>7. \A k \in 1 .. (n - 1) - 1 : k \in 1 .. n - 1 /\ k + 1 \in 1 .. n - 1
  BY <1>1
<1>8. CallsNest'
  BY <1>2, <1>3, <1>5, <1>6, <1>7 DEF Underway, CallsNest
<1>9. InDocumentOrder' /\ NotYetVisited'
  BY <1>2, <1>5, <1>6 DEF Underway, InDocumentOrder, NotYetVisited
<1>10. AnswerIsKept'
  BY <1>2, <1>3, <1>4, <1>5, <1>7, DroppedIs DEF Underway, AnswerIsKept
<1>11. HandlesAreHeld'
  <2>1. ASSUME NEW d \in live' PROVE Held(d)'
    <3>1. d \in live /\ d # Nxt(n - 1) /\ (d = c => d \in Holders) /\ Held(d)
      BY <1>1, <1>4, DroppedIs DEF Underway, HandlesAreHeld
    <3>2. \A k \in 1 .. n : k \in 1 .. n - 1 \/ k = n
      BY <1>1
    <3>3. \A k \in 1 .. n - 1 : k \in 1 .. (n - 1) - 1 \/ k = n - 1
      BY <1>1
    <3>4. \/ d \in Holders
          \/ \E k \in 1 .. n - 1 : d = Cur(k)
          \/ \E k \in 1 .. (n - 1) - 1 : d = Nxt(k)
      BY <3>1, <3>2, <3>3 DEF Held
    <3> QED
      BY <1>2, <1>5, <1>7, <3>4 DEF Held
  <2> QED
    BY <2>1 DEF HandlesAreHeld
<1>12. TopLevelIsSeen'
  <2>1. ASSUME NEW d, Passed(d)' PROVE Passed(d)
    <3>1. Cur(1)' = Cur(1)
      BY <1>2, <1>3
    <3> QED
      BY <1>1, <2>1, <3>1 DEF Passed
  <2> QED
    BY <1>5, <2>1 DEF Underway, TopLevelIsSeen
<1>13. live' \subseteq Dies
  BY DroppedIs DEF Underway
<1> QED
  BY <1>2, <1>3, <1>8, <1>9, <1>10, <1>11, <1>12, <1>13 DEF Underway

(* The outermost call returns: the search is over.                         *)
LEMMA SiblingEnds ==
  ASSUME Underway, at = "sibling", dwarf_siblingof_c(cur_die) = 0, Level = 1,
         live' = Dropped, UNCHANGED <<tree, sub, res>>
  PROVE  Over'
<1>1. cur_die = Cur(1) /\ cur_die \in Dies /\ cur_die \in Nat
  BY CallsRise
<1>2. Later(cur_die) = {} /\ Parent(cur_die) = 0
  BY <1>1, SiblingIsNext DEF Underway, CallsNest
<1>3. ASSUME NEW d \in Holders, Parent(d) = 0 PROVE sub # 0
  <2>1. d \in Dies /\ d \in Nat
    BY DieNumbers DEF Holders
  <2>2. ~ cur_die < d
    BY <1>2, <1>3, <2>1 DEF Later
  <2>3. Passed(d)
    BY <1>1, <2>1, <2>2 DEF Passed
  <2> QED
    BY <1>3, <2>3 DEF Underway, TopLevelIsSeen
<1>4. live' \subseteq Holders
  <2>1. ASSUME NEW d \in live' PROVE d \in Holders
    <3>1. d \in live /\ (d = cur_die => d \in Holders) /\ Held(d)
      BY DroppedIs DEF Underway, HandlesAreHeld
    <3>2. 1 .. Level = {1} /\ 1 .. Level - 1 = {}
      OBVIOUS
    <3> QED
      BY <1>1, <3>1, <3>2 DEF Held
  <2> QED
    BY <2>1
<1>5. sub # 0 => sub \in Holders /\ sub \in live'
  BY DroppedIs DEF Underway, AnswerIsKept
<1> QED
  BY <1>3, <1>4, <1>5, SameTree DEF Over

(* The call for the unit itself.                                           *)
LEMMA BeginFinds ==
  ASSUME tree \in Trees, live = {}, sub = 0, res = "NO_ENTRY",
         NEW c, c = dwarf_child(0), c # 0,
         frames' = <<Frame(c)>>, live' = {c}, at' = "visit", UNCHANGED <<tree, sub, res>>
  PROVE  Underway'
<1>1. c \in Dies /\ Parent(c) = 0 /\ 0 < c /\ \A d \in Dies : Parent(d) = 0 => c <= d
  BY ChildIsFirst
<1>2. frames' \in Seq(Frames) /\ frames' # <<>> /\ Level' = 1 /\ Cur(1)' = c
  BY <1>1 DEF Frame, Frames, Level, Cur
<1>3. 1 .. 1 = {1} /\ 1 .. 1 - 1 = {}
  OBVIOUS
<1>4. Holders' = Holders /\ \A d : Parent(d)' = Parent(d) /\ Later(d)' = Later(d)
  BY SameTree
<1>5. CallsNest'
  BY <1>1, <1>2, <1>3, <1>4 DEF CallsNest
<1>6. InDocumentOrder'
  <2>1. ASSUME NEW s \in Later(c) PROVE 0 < s /\ c < s
    BY <1>1, <2>1, LaterIs
  <2> QED
    BY <1>2, <1>3, <1>4, <2>1 DEF InDocumentOrder
<1>7. NotYetVisited'
  BY <1>1, <1>2 DEF NotYetVisited, Level, Cur
<1>8. AnswerIsKept' /\ HandlesAreHeld'
  BY <1>1, <1>2, <1>3 DEF AnswerIsKept, HandlesAreHeld, Held
<1>9. TopLevelIsSeen'
  <2>1. ASSUME NEW d \in Holders, Parent(d) = 0, Passed(d)' PROVE FALSE
    <3>1. d \in Dies /\ d \in Nat /\ c \in Nat /\ c <= d
      BY <1>1, <2>1, DieNumbers DEF Holders
    <3>2. d < c
      BY <1>2, <2>1 DEF Passed
    <3> QED
      BY <3>1, <3>2
  <2> QED
    BY <1>4, <2>1 DEF TopLevelIsSeen
<1> QED
  BY <1>1, <1>2, <1>5, <1>6, <1>7, <1>8, <1>9 DEF Underway

LEMMA BeginNothing ==
  ASSUME tree \in Trees, live = {}, sub = 0, dwarf_child(0) = 0, UNCHANGED <<tree, live, sub>>
  PROVE  Over'
<1>1. \A d \in Holders : Parent(d) # 0
  BY ChildIsFirst DEF Holders
<1> QED
  BY <1>1, SameTree DEF Over

LEMMA IsUnderway == ASSUME SearchInv, at \in {"visit", "sibling"} PROVE Underway
BY DEF SearchInv

LEMMA SearchInvInit == ASSUME tree \in Trees, SearchInit PROVE SearchInv
BY DEF SearchInit, SearchInv, SearchTypeOK, Over

(* An error has been found: it goes up through the calls.                  *)
LEMMA Abandons ==
  ASSUME SearchInv, at \in {"visit", "sibling"}, NEW h \in SUBSET Dies, Abandon(h),
         sub' \in Dies \cup {0}, UNCHANGED <<tree, res>>
  PROVE  SearchInv'
<1>1. Underway
  BY IsUnderway
<1>2. frames' \in Seq(Frames)
  BY <1>1, PoppedFrames DEF Underway, Abandon
<1> QED
  BY <1>2 DEF SearchInv, SearchTypeOK, Abandon, Frames

LEMMA BeginPreserves == ASSUME SearchInv, Begin PROVE SearchInv'
<1>1. tree \in Trees /\ frames = <<>> /\ live = {} /\ sub = 0 /\ res = "NO_ENTRY" /\ UNCHANGED <<tree, sub, res>>
  BY DEF SearchInv, SearchTypeOK, Begin
<1>2. CASE dwarf_child(0) = 0 /\ at' = "done" /\ UNCHANGED <<frames, live>>
  BY <1>1, <1>2, BeginNothing DEF SearchInv, SearchTypeOK
<1>3. CASE /\ dwarf_child(0) # 0 /\ at' = "visit"
           /\ frames' = <<Frame(dwarf_child(0))>> /\ live' = {dwarf_child(0)}
  <2>1. Underway'
    BY <1>1, <1>3, BeginFinds
  <2> QED
    BY <1>3, <2>1 DEF Underway, SearchInv, SearchTypeOK, Frames
<1>4. CASE at' = "fail" /\ UNCHANGED <<frames, live>>
  BY <1>1, <1>4 DEF SearchInv, SearchTypeOK
<1> QED
  BY <1>2, <1>3, <1>4 DEF Begin

LEMMA VisitPreserves == ASSUME SearchInv, Visit PROVE SearchInv'
<1> DEFINE c == cur_die
           n == dwarf_child(c)
           g == dwarf_child(n)
           Answers == sub' = IF Matches(c) THEN c ELSE sub
<1>1. at = "visit" /\ Underway /\ UNCHANGED <<tree, res>>
  BY IsUnderway DEF Visit
<1>2. c \in Dies /\ live \subseteq Dies /\ sub \in Dies \cup {0} /\ tree \in Trees
  BY <1>1, FrameTypes DEF Underway, Level, cur_die
<1>3. n # 0 => n \in Dies /\ Parent(n) = c
  BY <1>2, ChildIsFirst
<1>4. g # 0 => g \in Dies /\ Parent(g) = n
  BY <1>2, ChildIsFirst
<1>5. Answers => sub' \in Dies \cup {0}
  BY <1>2
<1>6. CASE \/ Abandon(live \ {c}) /\ (UNCHANGED sub \/ Answers)
           \/ n # 0 /\ Abandon((live \cup {n}) \ {c}) /\ Answers
  <2>1. PICK h \in SUBSET Dies : Abandon(h)
    BY <1>2, <1>3, <1>6
  <2> QED
    BY <1>1, <1>2, <1>5, <1>6, <2>1, Abandons
<1>7. CASE Answers /\ at' = "sibling" /\ UNCHANGED <<frames, live>>
  <2>1. Underway'
    BY <1>1, <1>7, VisitStays
  <2> QED
    BY <1>7, <2>1 DEF Underway, SearchInv, SearchTypeOK, Frames
<1>8. CASE /\ Answers /\ n # 0 /\ g # 0
           /\ frames' = Append(Append(Callers, [cur |-> c, next |-> n]), Frame(g))
           /\ live' = live \cup {n, g} /\ UNCHANGED at
  <2>1. Descends(n, g)
    BY <1>8 DEF Descends
  <2>2. Underway'
    BY <1>1, <1>3, <1>4, <1>8, <2>1, VisitDescends
  <2> QED
    BY <1>1, <1>8, <2>2 DEF Underway, SearchInv, SearchTypeOK, Frames
<1> QED
  BY <1>6, <1>7, <1>8 DEF Visit

LEMMA SiblingPreserves == ASSUME SearchInv, Sibling PROVE SearchInv'
<1> DEFINE s == dwarf_siblingof_c(cur_die)
<1>1. at = "sibling" /\ Underway /\ UNCHANGED <<tree, sub, res>>
  BY IsUnderway DEF Sibling
<1>2. Dropped \subseteq Dies /\ sub \in Dies \cup {0} /\ tree \in Trees /\ res = "NO_ENTRY"
  BY <1>1, DroppedIs DEF Underway
<1>3. CASE ~Last(s) /\ frames' = Move(s) /\ live' = Dropped \cup {s} /\ at' = "visit"
  <2>1. Underway'
    BY <1>1, <1>3, SiblingMoves DEF Last
  <2> QED
    BY <1>3, <2>1 DEF Underway, SearchInv, SearchTypeOK, Frames
<1>4. CASE /\ Last(s) /\ Len(frames) > 1
           /\ frames' = Callers /\ live' = Dropped \ {Callers[Len(Callers)].next} /\ UNCHANGED at
  <2>1. Underway'
    BY <1>1, <1>4, SiblingReturns DEF Last, Level
  <2> QED
    BY <1>1, <1>4, <2>1 DEF Underway, SearchInv, SearchTypeOK, Frames
<1>5. CASE Last(s) /\ Len(frames) = 1 /\ frames' = <<>> /\ live' = Dropped /\ at' = "done"
  <2>1. Over'
    BY <1>1, <1>5, SiblingEnds DEF Last, Level
  <2> QED
    BY <1>1, <1>2, <1>5, <2>1 DEF SearchInv, SearchTypeOK
<1>6. CASE Abandon(Dropped)
  BY <1>1, <1>2, <1>6, Abandons
<1> QED
  BY <1>3, <1>4, <1>5, <1>6 DEF Sibling

LEMMA FailPreserves == ASSUME SearchInv, Fail PROVE SearchInv'
<1>1. /\ at = "fail" /\ tree \in Trees /\ frames \in Seq(Frames) /\ live \subseteq Dies
      /\ sub \in Dies \cup {0} /\ UNCHANGED <<tree, sub>>
  BY DEF SearchInv, SearchTypeOK, Fail, Frames
<1>2. CASE frames # <<>> /\ live' = live \ {cur_die} /\ frames' = Callers /\ UNCHANGED <<at, res>>
  <2>1. frames' \in Seq(Frames)
    BY <1>1, <1>2, PoppedFrames
  <2> QED
    BY <1>1, <1>2, <2>1 DEF SearchInv, SearchTypeOK, Frames
<1>3. CASE frames = <<>> /\ at' = "done" /\ res' = "ERROR" /\ UNCHANGED <<frames, live>>
  BY <1>1, <1>3 DEF SearchInv, SearchTypeOK, Over, Finished, Frames
<1> QED
  BY <1>2, <1>3 DEF Fail

(* The search keeps its invariant.                                         *)
LEMMA SearchPreserves == ASSUME SearchInv, Search PROVE SearchInv' /\ tree' = tree
<1>1. tree' = tree
  BY DEF Search, Begin, Visit, Sibling, Fail
<1> QED
  BY <1>1, BeginPreserves, VisitPreserves, SiblingPreserves, FailPreserves DEF Search
-----------------------------------------------------------------------------
(* The calls of get_local_var_from_name that are active: the block that    *)
(* each is for, and the child whose own call is next or under way.         *)
Deep     == Len(calls)
Block(k) == calls[k].block
Child(k) == calls[k].child
Sib(k)   == calls[k].next
Act(k)   == IF Sib(k) = 0 THEN Child(k) ELSE Sib(k)

(* The calls go down the tree; one that has not moved is at a first child. *)
BlocksNest ==
  /\ \A k \in 1 .. Deep : /\ Parent(Child(k)) = Block(k) /\ Parent(Act(k)) = Block(k)
                          /\ Sib(k) # 0 => Child(k) < Sib(k)
  /\ \A j, k \in 1 .. Deep : j < k => Act(j) < Child(k)
  /\ \A k \in 1 .. Deep : Sib(k) = 0 /\ (step = "sibling" => k < Deep) => Child(k) = dwarf_child(Block(k))

(* The variable is found: its handle is the innermost call's, or the calls *)
(* that are left are for blocks around it.  Then the handle is dead        *)
(* exactly if the variable is a first child.                               *)
HandleIsRight == var_die \in live <=> ~IsFirst(var_die)
Pending       == Deep # 0 /\ var_die = Act(Deep) /\ var_die \in live
Decided       == (\A k \in 1 .. Deep : Act(k) < var_die) /\ HandleIsRight

(* Whose handles may be live during the walk over the blocks.              *)
Known(d) == d \in Holders \/ d = var_die \/ \E k \in 1 .. Deep : d = Child(k) \/ d = Sib(k)

LookupPhase ==
  /\ cmd.what = "local" /\ sub \in Holders /\ walks = <<>> /\ faults = {}
  /\ BlocksNest
  /\ \A d \in live : Known(d)
  /\ step = "call" => /\ var_die = 0 /\ target \in Dies
                      /\ Deep = 0 => target = sub
                      /\ Deep # 0 => target = Act(Deep) /\ target \in live
  /\ step = "return" /\ var_die # 0 => IsNamed(var_die) /\ (Pending \/ Decided)
  /\ step = "sibling" => var_die = 0 /\ Deep # 0 /\ Sib(Deep) = 0

(* The walks that are active.  Only the innermost may not have begun.      *)
Walking     == Len(walks)
WalkOf(k)   == walks[k].of
WalkCur(k)  == walks[k].cur
WalkNext(k) == walks[k].next
Handle(k)   == walks[k].handle

WalkIsRight(k) ==
  /\ IF cmd.what = "params" /\ k = 1 THEN WalkOf(k) = sub ELSE tree[WalkOf(k)].tag = "struct"
  /\ WalkCur(k) = 0 => k = Walking /\ step = "walk" /\ Handle(k) = "null"
  /\ WalkCur(k) # 0 => Parent(WalkCur(k)) = WalkOf(k) /\ Handle(k) = "live"
  /\ WalkNext(k) # 0 => WalkNext(k) = WalkCur(k) /\ WalkCur(k) # dwarf_child(WalkOf(k))

(* The parameters that the walk has gone past have been named.             *)
Params == {d \in ChildrenOf(sub) : tree[d].tag = "param"}
Gone   == {d \in Params : d < WalkCur(1) \/ (d = WalkCur(1) /\ (Walking > 1 \/ step \notin {"tag", "item"}))}
Names  == {listed[k] : k \in DOMAIN listed}

PrintPhase ==
  /\ cmd.what \in {"local", "params"} /\ sub \in Holders
  /\ \A k \in 1 .. Walking : WalkIsRight(k)
  /\ step \in {"walk", "tag", "item"} \/ cmd.what = "params" => Walking # 0
  /\ step = "item" => tree[top.cur].tag = Wanted
  /\ cmd.what = "local" => /\ live \subseteq (Holders \ {sub}) \cup {var_die}
                           /\ var_die # 0 /\ HandleIsRight
                           /\ "var" \in faults <=> IsFirst(var_die)
  /\ cmd.what = "params" => live \subseteq Holders /\ "var" \notin faults /\ InOrder(listed) /\ Names = Gone

EndPhase ==
  /\ ret = "OK" => sub \in Holders /\ live \subseteq Holders \ {sub}
  /\ DanglesIfFirst /\ ParametersAreListed

SearchPhase ==
  /\ SearchInv /\ (cmd.what = "other" => at = "call")
  /\ calls = <<>> /\ walks = <<>> /\ listed = <<>> /\ faults = {} /\ var_die = 0

Calls == [block: Dies, child: Dies, next: Dies \cup {0}]
Walks == [of: Dies, cur: Dies \cup {0}, next: Dies \cup {0}, handle: {"null", "live", "freed"}, base: Nat]

VarTypes ==
  /\ tree \in Trees /\ live \subseteq Dies /\ sub \in Dies \cup {0}
  /\ cmd.what \in {"local", "params", "other"}
  /\ step \in {"search", "call", "return", "sibling", "walk", "tag", "item", "type", "printed", "end"}
  /\ calls \in Seq(Calls) /\ walks \in Seq(Walks) /\ base \in Nat
  /\ target \in Dies \cup {0} /\ var_die \in Dies \cup {0} /\ (step = "type" => target # 0)
  /\ listed \in Seq(Dies)

VarInv ==
  /\ VarTypes
  /\ step = "search" => SearchPhase
  /\ step \in {"call", "return", "sibling"} => LookupPhase
  /\ step \in {"walk", "tag", "item", "type", "printed"} => PrintPhase
  /\ step = "end" => EndPhase

(* The calls and the walks, by their levels.                               *)
LEMMA CallTypes ==
  ASSUME calls \in Seq(Calls)
  PROVE  /\ Deep \in Nat /\ (calls # <<>> <=> Deep # 0)
         /\ \A k \in 1 .. Deep : /\ Block(k) \in Dies /\ Child(k) \in Dies /\ Sib(k) \in Dies \cup {0}
                               /\ Act(k) \in Dies
         /\ Deep # 0 => Inner \in Calls /\ Inner.block = Block(Deep) /\ Inner.child = Child(Deep)
                        /\ Inner.next = Sib(Deep)
<1>1. /\ Deep \in Nat /\ (calls # <<>> <=> Deep # 0)
      /\ \A k \in 1 .. Deep : calls[k] \in Calls
  BY DEF Deep
<1>2. \A k \in 1 .. Deep : Block(k) \in Dies /\ Child(k) \in Dies /\ Sib(k) \in Dies \cup {0}
  BY <1>1 DEF Calls, Block, Child, Sib
<1>3. \A k \in 1 .. Deep : Act(k) \in Dies
  BY <1>2 DEF Act
<1>4. Deep # 0 => Inner \in Calls
  BY <1>1 DEF Inner, Deep
<1> QED
  BY <1>1, <1>2, <1>3, <1>4 DEF Inner, Deep, Block, Child, Sib

LEMMA PoppedCalls ==
  ASSUME calls \in Seq(Calls), calls # <<>>, NEW n, n = Deep, calls' = Outer
  PROVE  /\ calls' \in Seq(Calls) /\ Deep' = n - 1
         /\ \A k \in 1 .. n - 1 : Block(k)' = Block(k) /\ Child(k)' = Child(k) /\ Sib(k)' = Sib(k)
                               /\ Act(k)' = Act(k)
<1>1. calls' = Front(calls)
  BY DEF Outer, Front
<1>2. /\ calls' \in Seq(Calls) /\ Len(calls') = Len(calls) - 1
      /\ \A k \in 1 .. Len(calls) - 1 : calls'[k] = calls[k]
  BY <1>1, Pop
<1> QED
  BY <1>2 DEF Deep, Block, Child, Sib, Act

LEMMA ReplacedCalls ==
  ASSUME calls \in Seq(Calls), calls # <<>>, NEW n, n = Deep, NEW r \in Calls, calls' = Append(Outer, r)
  PROVE  /\ calls' \in Seq(Calls) /\ calls' # <<>> /\ Deep' = n
         /\ \A k \in 1 .. n - 1 : Block(k)' = Block(k) /\ Child(k)' = Child(k) /\ Sib(k)' = Sib(k)
                               /\ Act(k)' = Act(k)
         /\ Block(n)' = r.block /\ Child(n)' = r.child /\ Sib(n)' = r.next
<1>1. calls' = Append(Front(calls), r) /\ Len(calls) \in Nat \ {0}
  BY DEF Outer, Front
<1>2. /\ calls' \in Seq(Calls) /\ Len(calls') = Len(calls)
      /\ \A k \in 1 .. Len(calls) - 1 : calls'[k] = calls[k]
      /\ calls'[Len(calls)] = r
  BY <1>1, Replace
<1> QED
  BY <1>1, <1>2 DEF Deep, Block, Child, Sib, Act

LEMMA PushedCalls ==
  ASSUME calls \in Seq(Calls), NEW n, n = Deep, NEW r \in Calls, calls' = Append(calls, r)
  PROVE  /\ calls' \in Seq(Calls) /\ calls' # <<>> /\ Deep' = n + 1
         /\ \A k \in 1 .. n : Block(k)' = Block(k) /\ Child(k)' = Child(k) /\ Sib(k)' = Sib(k)
                            /\ Act(k)' = Act(k)
         /\ Block(n + 1)' = r.block /\ Child(n + 1)' = r.child /\ Sib(n + 1)' = r.next
<1>1. /\ calls' \in Seq(Calls) /\ Len(calls') = Len(calls) + 1 /\ Len(calls) \in Nat
      /\ \A k \in 1 .. Len(calls) : calls'[k] = calls[k]
      /\ calls'[Len(calls) + 1] = r
  BY Push
<1> QED
  BY <1>1 DEF Deep, Block, Child, Sib, Act

(* What is the same in the same tree, and for the same variable.           *)
LEMMA SameDies ==
  ASSUME tree' = tree
  PROVE  /\ Holders' = Holders
         /\ \A d : Parent(d)' = Parent(d) /\ dwarf_child(d)' = dwarf_child(d) /\ tree'[d].tag = tree[d].tag
BY DEF Holders, Parent, dwarf_child

LEMMA SameVariable ==
  ASSUME UNCHANGED <<tree, var_die>>
  PROVE  /\ IsNamed(var_die)' <=> IsNamed(var_die)
         /\ HandleIsRight' <=> (var_die \in live' <=> ~IsFirst(var_die))
BY DEF IsNamed, HandleIsRight, IsFirst, dwarf_child

LEMMA HolderIsNoName == ASSUME NEW d \in Holders PROVE d \in Dies /\ d # 0 /\ ~IsNamed(d)
BY DieNumbers DEF Holders, IsNamed

LEMMA LookupIs ==
  ASSUME VarInv, step \in {"call", "return", "sibling"}
  PROVE  /\ VarTypes /\ LookupPhase /\ tree \in Trees /\ calls \in Seq(Calls) /\ live \subseteq Dies
         /\ sub \in Dies /\ var_die \in Dies \cup {0} /\ target \in Dies \cup {0}
BY HolderIsNoName DEF VarInv, VarTypes, LookupPhase

(* A call returns without having called.                                   *)
LEMMA LookupReturns ==
  ASSUME VarInv, step = "call", step' = "return",
         UNCHANGED <<tree, sub, cmd, calls, live, walks, faults, var_die>>
  PROVE  LookupPhase'
<1>1. Deep' = Deep /\ \A k : /\ Block(k)' = Block(k) /\ Child(k)' = Child(k)
                             /\ Sib(k)' = Sib(k) /\ Act(k)' = Act(k)
  BY DEF Deep, Block, Child, Sib, Act
<1>2. BlocksNest'
  BY <1>1, SameDies, LookupIs DEF LookupPhase, BlocksNest
<1>3. \A d \in live' : Known(d)'
  BY <1>1, SameDies, LookupIs DEF LookupPhase, Known
<1> QED
  BY <1>2, <1>3, SameDies, LookupIs DEF LookupPhase

(* It has found the variable.                                              *)
LEMMA LookupFinds ==
  ASSUME VarInv, step = "call", step' = "return", IsNamed(target), var_die' = target,
         UNCHANGED <<tree, sub, cmd, calls, live, walks, faults>>
  PROVE  LookupPhase'
<1>1. Deep' = Deep /\ \A k : /\ Block(k)' = Block(k) /\ Child(k)' = Child(k)
                             /\ Sib(k)' = Sib(k) /\ Act(k)' = Act(k)
  BY DEF Deep, Block, Child, Sib, Act
<1>2. BlocksNest'
  BY <1>1, SameDies, LookupIs DEF LookupPhase, BlocksNest
<1>3. Deep # 0 /\ target = Act(Deep) /\ target \in live
  BY LookupIs, HolderIsNoName DEF LookupPhase
<1>4. Pending'
  BY <1>3 DEF Pending, Act, Child, Sib, Deep
<1>5. IsNamed(var_die)'
  BY DEF IsNamed
<1>6. ASSUME NEW d \in live' PROVE Known(d)'
  <2>1. Known(d) /\ d \in Dies
    BY LookupIs DEF LookupPhase
  <2>2. d # var_die
    BY <2>1, LookupIs, DieNumbers DEF LookupPhase
  <2> QED
    BY <1>1, <2>1, <2>2, SameDies DEF Known
<1> QED
  BY <1>2, <1>4, <1>5, <1>6, SameDies, LookupIs DEF LookupPhase

(* It calls for the first child of its block.                              *)
LEMMA LookupDescends ==
  ASSUME VarInv, step = "call", NEW c, c = dwarf_child(target), c # 0,
         calls' = Append(calls, [block |-> target, child |-> c, next |-> 0]),
         target' = c, live' = live \cup {c},
         UNCHANGED <<tree, sub, cmd, step, walks, faults, var_die>>
  PROVE  LookupPhase'
<1> SUFFICES ASSUME NEW n, n = Deep, NEW t, t = target PROVE LookupPhase'
  OBVIOUS
<1> DEFINE r == [block |-> t, child |-> c, next |-> 0]
<1>1. /\ tree \in Trees /\ calls \in Seq(Calls) /\ live \subseteq Dies /\ t \in Dies /\ LookupPhase
      /\ var_die = 0 /\ BlocksNest
  BY LookupIs DEF LookupPhase
<1>2. c \in Dies /\ Parent(c) = t /\ t < c /\ c \in Nat /\ t \in Nat
  BY <1>1, ChildIsFirst, DieNumbers
<1>3. r \in Calls /\ r.block = t /\ r.child = c /\ r.next = 0
  BY <1>1, <1>2 DEF Calls
<1> HIDE DEF r
<1>4. n \in Nat /\ \A k \in 1 .. n : Act(k) \in Dies /\ Child(k) \in Dies /\ Sib(k) \in Dies \cup {0}
  BY <1>1, CallTypes
<1>5. /\ Deep' = n + 1
      /\ \A k \in 1 .. n : Block(k)' = Block(k) /\ Child(k)' = Child(k) /\ Sib(k)' = Sib(k) /\ Act(k)' = Act(k)
      /\ Block(n + 1)' = t /\ Child(n + 1)' = c /\ Sib(n + 1)' = 0
  <2>1. calls' = Append(calls, r)
    BY DEF r
  <2> QED
    BY <1>1, <1>3, <2>1, PushedCalls
<1>6. Act(n + 1)' = c
  BY <1>5 DEF Act
<1>7. \A k \in 1 .. n + 1 : k \in 1 .. n \/ k = n + 1
  BY <1>4
<1>8. \A k \in 1 .. n : Act(k) < c /\ Act(k) \in Nat
  <2>1. \A k \in 1 .. n : Act(k) <= t /\ Act(k) \in Nat
    <3>1. CASE n = 0
      BY <3>1
    <3>2. CASE n # 0
      <4>1. t = Act(n)
        BY <1>1, <3>2 DEF LookupPhase
      <4>2. \A k \in 1 .. n : Act(k) \in Nat /\ Child(k) \in Nat /\ Child(k) <= Act(k)
        <5>1. \A k \in 1 .. n : Act(k) \in Nat /\ Child(k) \in Nat /\ Sib(k) \in Nat
          BY <1>4, DieNumbers
        <5> QED
          BY <1>1, <5>1 DEF BlocksNest, Act
      <4>3. \A k \in 1 .. n : k < n => Act(k) < Child(n)
        BY <1>1, <1>4 DEF BlocksNest
      <4>4. n \in 1 .. n /\ \A k \in 1 .. n : k < n \/ k = n
        BY <1>4, <3>2
      <4> QED
        BY <1>2, <4>1, <4>2, <4>3, <4>4
    <3> QED
      BY <3>1, <3>2
  <2> QED
    BY <1>2, <2>1
<1>9. \A d : Parent(d)' = Parent(d) /\ dwarf_child(d)' = dwarf_child(d)
  BY SameDies
<1>10. BlocksNest'
  <2>1. ASSUME NEW k \in 1 .. n + 1
        PROVE  /\ Parent(Child(k)') = Block(k)' /\ Parent(Act(k)') = Block(k)'
               /\ Sib(k)' # 0 => Child(k)' < Sib(k)'
               /\ Sib(k)' = 0 => Child(k)' = dwarf_child(Block(k)')
    <3>1. CASE k = n + 1
      BY <1>2, <1>5, <1>6, <3>1
    <3>2. CASE k \in 1 .. n
      BY <1>1, <1>5, <3>2 DEF BlocksNest
    <3> QED
      BY <1>7, <3>1, <3>2
  <2>2. ASSUME NEW j \in 1 .. n + 1, NEW k \in 1 .. n + 1, j < k PROVE Act(j)' < Child(k)'
    <3>1. j \in 1 .. n
      BY <1>4, <2>2
    <3>2. CASE k = n + 1
      BY <1>5, <1>8, <3>1, <3>2
    <3>3. CASE k \in 1 .. n
      BY <1>1, <1>5, <2>2, <3>1, <3>3 DEF BlocksNest
    <3> QED
      BY <1>7, <3>2, <3>3
  <2> QED
    BY <1>5, <1>9, <2>1, <2>2 DEF BlocksNest
<1>11. ASSUME NEW d \in live' PROVE Known(d)'
  <2>1. n + 1 \in 1 .. n + 1 /\ \A k \in 1 .. n : k \in 1 .. n + 1
    BY <1>4
  <2>2. CASE d = c
    BY <1>5, <2>1, <2>2 DEF Known
  <2>3. CASE d \in live
    <3>1. d \in Holders \/ \E k \in 1 .. n : d = Child(k) \/ d = Sib(k)
      BY <1>1, <2>3, DieNumbers DEF LookupPhase, Known
    <3> QED
      BY <1>5, <2>1, <3>1, SameDies DEF Known
  <2> QED
    BY <2>2, <2>3
<1>12. target' = Act(Deep)' /\ Deep' # 0
  <2>1. Act(Deep)' = c
    BY <1>5, <1>6 DEF Act, Child, Sib, Deep
  <2> QED
    BY <1>4, <1>5, <2>1
<1> QED
  BY <1>1, <1>2, <1>10, <1>11, <1>12, SameDies DEF LookupPhase

(* A call returns to its caller, with the variable or without it.          *)
LEMMA LookupPops ==
  ASSUME VarInv, step \in {"return", "sibling"}, calls # <<>>, calls' = Outer, step' = "return",
         NEW n, n = Deep,
         live' \subseteq live, \A d \in live' : d = Child(n) \/ d = Sib(n) => d = var_die,
         var_die # 0 => /\ IsNamed(var_die) /\ (var_die \in live' <=> ~IsFirst(var_die))
                        /\ \A k \in 1 .. n - 1 : Act(k) < var_die,
         UNCHANGED <<tree, sub, cmd, walks, faults, var_die>>
  PROVE  LookupPhase'
<1>1. calls \in Seq(Calls) /\ LookupPhase /\ BlocksNest
  BY LookupIs DEF LookupPhase
<1>2. n \in Nat \ {0}
  BY <1>1, CallTypes
<1>3. /\ Deep' = n - 1
      /\ \A k \in 1 .. n - 1 : /\ Block(k)' = Block(k) /\ Child(k)' = Child(k) /\ Sib(k)' = Sib(k)
                               /\ Act(k)' = Act(k)
  BY <1>1, PoppedCalls
<1>4. \A k \in 1 .. n - 1 : k \in 1 .. n /\ k < n
  BY <1>2
<1>5. BlocksNest'
  BY <1>1, <1>3, <1>4, SameDies DEF BlocksNest
<1>6. ASSUME NEW d \in live' PROVE Known(d)'
  <2>1. Known(d)
    BY <1>1 DEF LookupPhase
  <2>2. \A k \in 1 .. n : k \in 1 .. n - 1 \/ k = n
    BY <1>2
  <2>3. d \in Holders \/ d = var_die \/ \E k \in 1 .. n - 1 : d = Child(k) \/ d = Sib(k)
    BY <2>1, <2>2 DEF Known
  <2> QED
    BY <1>3, <2>3, SameDies DEF Known
<1>7. var_die' # 0 => IsNamed(var_die)' /\ Decided'
  BY <1>3, SameVariable DEF Decided
<1> QED
  BY <1>1, <1>5, <1>6, <1>7, SameDies DEF LookupPhase

(* The die that a call is for comes before what is found further inside.   *)
LEMMA ActsRise ==
  ASSUME VarInv, step \in {"call", "return", "sibling"}, NEW n, n = Deep, n # 0
  PROVE  /\ n \in Nat /\ Child(n) \in Dies /\ Act(n) \in Dies /\ Child(n) \in Nat /\ Act(n) \in Nat
         /\ Child(n) <= Act(n)
         /\ Parent(Child(n)) = Block(n) /\ Parent(Act(n)) = Block(n)
         /\ \A k \in 1 .. n - 1 : Act(k) < Child(n) /\ Act(k) < Act(n)
         /\ Inner.child = Child(n) /\ Inner.next = Sib(n) /\ Inner.block = Block(n)
         /\ Inner \in Calls /\ calls # <<>> /\ Sib(n) \in Dies \cup {0} /\ Sib(n) \in Nat
<1>1. calls \in Seq(Calls) /\ BlocksNest
  BY LookupIs DEF LookupPhase
<1>2. /\ n \in Nat \ {0} /\ n \in 1 .. n
      /\ \A k \in 1 .. n : Child(k) \in Dies /\ Act(k) \in Dies /\ Sib(k) \in Dies \cup {0}
      /\ Inner \in Calls /\ Inner.block = Block(n) /\ Inner.child = Child(n) /\ Inner.next = Sib(n)
      /\ calls # <<>>
  BY <1>1, CallTypes
<1>3. \A k \in 1 .. n : Child(k) \in Nat /\ Act(k) \in Nat /\ Sib(k) \in Nat
  BY <1>2, DieNumbers
<1>4. Child(n) <= Act(n) /\ Parent(Child(n)) = Block(n) /\ Parent(Act(n)) = Block(n)
  BY <1>1, <1>2, <1>3 DEF BlocksNest, Act
<1>5. \A k \in 1 .. n - 1 : Act(k) < Child(n) /\ k \in 1 .. n
  BY <1>1, <1>2 DEF BlocksNest
<1> QED
  BY <1>2, <1>3, <1>4, <1>5

(* The call for the first child has returned an answer or an error.        *)
LEMMA FirstAnswers ==
  ASSUME VarInv, step = "return", calls # <<>>, Inner.next = 0, step' = "return",
         live' = live \ {Inner.child}, calls' = Outer,
         UNCHANGED <<tree, sub, cmd, walks, faults, var_die>>
  PROVE  LookupPhase'
<1> SUFFICES ASSUME NEW n, n = Deep PROVE LookupPhase'
  OBVIOUS
<1>1. n # 0
  BY LookupIs, CallTypes
<1>2. /\ n \in Nat /\ Child(n) \in Nat /\ Parent(Child(n)) = Block(n)
      /\ Inner.child = Child(n) /\ Sib(n) = 0 /\ Act(n) = Child(n)
      /\ \A k \in 1 .. n - 1 : Act(k) < Child(n)
  BY <1>1, ActsRise DEF Act
<1>3. /\ BlocksNest /\ live \subseteq Dies
      /\ var_die # 0 => IsNamed(var_die) /\ (Pending \/ Decided)
  BY LookupIs DEF LookupPhase
<1>4. Child(n) = dwarf_child(Parent(Child(n)))
  <2>1. n \in 1 .. n
    BY <1>1, <1>2
  <2> QED
    BY <1>2, <1>3, <2>1 DEF BlocksNest
<1>5. ASSUME var_die # 0
      PROVE  /\ IsNamed(var_die) /\ (var_die \in live' <=> ~IsFirst(var_die))
             /\ \A k \in 1 .. n - 1 : Act(k) < var_die
  <2>1. CASE Pending
    <3>1. var_die = Child(n)
      BY <1>2, <2>1 DEF Pending
    <3>2. IsFirst(var_die)
      BY <1>3, <1>4, <1>5, <3>1 DEF IsFirst, Parent
    <3> QED
      BY <1>2, <1>3, <1>5, <3>1, <3>2
  <2>2. CASE Decided
    <3>1. n \in 1 .. n /\ \A k \in 1 .. n - 1 : k \in 1 .. n
      BY <1>1, <1>2
    <3>2. Child(n) < var_die
      BY <1>2, <2>2, <3>1 DEF Decided
    <3>3. var_die # Child(n)
      BY <1>2, <3>2
    <3> QED
      BY <1>2, <1>3, <1>5, <2>2, <3>1, <3>3 DEF Decided, HandleIsRight
  <2> QED
    BY <1>3, <1>5, <2>1, <2>2
<1>6. \A d \in live' : d # Child(n) /\ d # Sib(n)
  BY <1>2, <1>3, DieNumbers
<1> QED
  BY <1>5, <1>6, LookupPops

(* The call for a later child has.                                         *)
LEMMA LaterAnswers ==
  ASSUME VarInv, step = "return", calls # <<>>, Inner.next # 0, step' = "return",
         live' = KeepsAnswer(Inner.next) \ {Inner.child}, calls' = Outer,
         UNCHANGED <<tree, sub, cmd, walks, faults, var_die>>
  PROVE  LookupPhase'
<1> SUFFICES ASSUME NEW n, n = Deep PROVE LookupPhase'
  OBVIOUS
<1>1. n # 0
  BY LookupIs, CallTypes
<1>2. /\ n \in Nat /\ Child(n) \in Nat /\ Sib(n) \in Nat /\ Parent(Child(n)) = Block(n)
      /\ Inner.child = Child(n) /\ Inner.next = Sib(n) /\ Sib(n) # 0 /\ Act(n) = Sib(n)
      /\ Parent(Sib(n)) = Block(n) /\ Child(n) \in Dies
      /\ \A k \in 1 .. n - 1 : Act(k) < Sib(n)
  BY <1>1, ActsRise DEF Act
<1>3. n \in 1 .. n /\ \A k \in 1 .. n - 1 : k \in 1 .. n
  BY <1>1, <1>2
<1>4. /\ BlocksNest /\ live \subseteq Dies /\ tree \in Trees
      /\ var_die # 0 => IsNamed(var_die) /\ (Pending \/ Decided)
  BY LookupIs DEF LookupPhase
<1>5. Child(n) < Sib(n)
  BY <1>2, <1>3, <1>4 DEF BlocksNest
<1>6. ASSUME var_die # 0
      PROVE  /\ IsNamed(var_die) /\ (var_die \in live' <=> ~IsFirst(var_die))
             /\ \A k \in 1 .. n - 1 : Act(k) < var_die
  <2>1. CASE Pending
    <3>1. var_die = Sib(n) /\ var_die \in live
      BY <1>2, <2>1 DEF Pending
    <3>2. dwarf_child(Block(n)) \in Nat /\ dwarf_child(Block(n)) <= Child(n)
      BY <1>2, <1>4, ChildIsFirst, DieNumbers
    <3>3. dwarf_child(Parent(var_die)) # var_die
      BY <1>2, <1>5, <3>1, <3>2
    <3>4. ~IsFirst(var_die)
      BY <3>3 DEF IsFirst, Parent
    <3>5. var_die # Child(n)
      BY <1>2, <1>5, <3>1
    <3> QED
      BY <1>2, <1>4, <1>6, <3>1, <3>4, <3>5 DEF KeepsAnswer
  <2>2. CASE Decided
    <3>1. Sib(n) < var_die /\ \A k \in 1 .. n - 1 : Act(k) < var_die
      BY <1>2, <1>3, <2>2 DEF Decided
    <3>2. var_die \in Nat
      BY LookupIs, DieNumbers
    <3>3. var_die # Child(n) /\ var_die # Sib(n)
      BY <1>2, <1>5, <3>1, <3>2
    <3> QED
      BY <1>2, <1>4, <1>6, <2>2, <3>1, <3>3 DEF Decided, HandleIsRight, KeepsAnswer
  <2> QED
    BY <1>4, <1>6, <2>1, <2>2
<1>7. live' \subseteq live /\ \A d \in live' : d = Child(n) \/ d = Sib(n) => d = var_die
  BY <1>2 DEF KeepsAnswer
<1> QED
  BY <1>6, <1>7, LookupPops

(* The innermost call goes on to the next child: it has left the one that  *)
(* was its last, or it has the sibling, for which it now calls.            *)
LEMMA LookupMoves ==
  ASSUME VarInv, step \in {"return", "sibling"}, calls # <<>>, NEW n, n = Deep,
         NEW r \in Calls, r.block = Block(n), Parent(r.child) = Block(n), Child(n) <= r.child,
         r.next # 0 => Parent(r.next) = Block(n) /\ r.child < r.next,
         calls' = Append(Outer, r), var_die = 0,
         \A d \in live' : (d \in live /\ d # Child(n) /\ d # Sib(n)) \/ d = r.child \/ d = r.next,
         (step' = "sibling" /\ r.next = 0)
           \/ (step' = "call" /\ r.next # 0 /\ target' = r.next /\ r.next \in live'),
         UNCHANGED <<tree, sub, cmd, walks, faults, var_die>>
  PROVE  LookupPhase'
<1> DEFINE c == r.child
           s == r.next
           a == IF s = 0 THEN c ELSE s
<1>1. calls \in Seq(Calls) /\ LookupPhase /\ BlocksNest /\ c \in Dies /\ c \in Nat /\ s \in Dies \cup {0} /\ s \in Nat
  BY LookupIs, DieNumbers DEF LookupPhase, Calls
<1>2. n \in Nat \ {0} /\ n \in 1 .. n /\ n - 1 \in Nat
  BY <1>1, CallTypes
<1>3. /\ Deep' = n
      /\ \A k \in 1 .. n - 1 : /\ Block(k)' = Block(k) /\ Child(k)' = Child(k) /\ Sib(k)' = Sib(k)
                               /\ Act(k)' = Act(k)
      /\ Block(n)' = Block(n) /\ Child(n)' = c /\ Sib(n)' = s
  BY <1>1, ReplacedCalls
<1>4. Act(n)' = a
  BY <1>3 DEF Act
<1>5. \A k \in 1 .. n : (k \in 1 .. n - 1 /\ k < n) \/ k = n
  BY <1>2
<1>6. \A k \in 1 .. n - 1 : Act(k) < c
  <2>1. \A k \in 1 .. n - 1 : Act(k) < Child(n) /\ k \in 1 .. n
    BY <1>2, LookupIs, CallTypes, ActsRise
  <2>2. Child(n) \in Nat /\ \A k \in 1 .. n : Act(k) \in Dies /\ Act(k) \in Nat
    BY <1>1, <1>2, CallTypes, DieNumbers
  <2> QED
    BY <1>1, <2>1, <2>2
<1>7. Parent(c) = Block(n) /\ Parent(a) = Block(n) /\ (s # 0 => c < s)
  OBVIOUS
<1> HIDE DEF c, s, a
<1>8. \A d : Parent(d)' = Parent(d) /\ dwarf_child(d)' = dwarf_child(d)
  BY SameDies
<1>9. BlocksNest'
  <2>1. ASSUME NEW k \in 1 .. n
        PROVE  /\ Parent(Child(k)') = Block(k)' /\ Parent(Act(k)') = Block(k)'
               /\ Sib(k)' # 0 => Child(k)' < Sib(k)'
               /\ Sib(k)' = 0 /\ (step' = "sibling" => k < n) => Child(k)' = dwarf_child(Block(k)')
    <3>1. CASE k = n
      BY <1>3, <1>4, <1>7, <3>1, <1>2 DEF c, s, a
    <3>2. CASE k \in 1 .. n - 1 /\ k < n
      BY <1>1, <1>2, <1>3, <3>2, CallTypes DEF BlocksNest
    <3> QED
      BY <1>5, <3>1, <3>2
  <2>2. ASSUME NEW j \in 1 .. n, NEW k \in 1 .. n, j < k PROVE Act(j)' < Child(k)'
    <3>1. j \in 1 .. n - 1
      BY <1>2, <2>2
    <3>2. CASE k = n
      BY <1>3, <1>6, <3>1, <3>2
    <3>3. CASE k \in 1 .. n - 1
      BY <1>1, <1>3, <2>2, <3>1, <3>3 DEF BlocksNest
    <3> QED
      BY <1>5, <3>2, <3>3
  <2> QED
    BY <1>3, <1>8, <2>1, <2>2 DEF BlocksNest
<1>10. ASSUME NEW d \in live' PROVE Known(d)'
  <2>1. CASE d = c \/ d = s
    BY <1>2, <1>3, <2>1 DEF Known
  <2>2. CASE d \in live /\ d # Child(n) /\ d # Sib(n)
    <3>1. Known(d)
      BY <1>1, <2>2 DEF LookupPhase
    <3>2. d \in Holders \/ d = var_die \/ \E k \in 1 .. n - 1 : d = Child(k) \/ d = Sib(k)
      BY <1>5, <2>2, <3>1 DEF Known
    <3>3. \A k \in 1 .. n - 1 : k \in 1 .. n
      BY <1>2
    <3> QED
      BY <1>3, <3>2, <3>3, SameDies DEF Known
  <2> QED
    BY <2>1, <2>2 DEF c, s
<1>11. Sib(Deep)' = s /\ Act(Deep)' = a /\ Deep' # 0
  BY <1>2, <1>3, <1>4 DEF Act, Child, Sib, Deep
<1> QED
  BY <1>1, <1>9, <1>10, <1>11, SameDies DEF LookupPhase, s, a

(* A command that fails, ends with what it knows of its handles.           *)
LEMMA EndsBadly ==
  ASSUME tree' = tree, var_die' = var_die, sub' = sub, ret' # "OK", step' = "end",
         "var" \in faults' => IsFirst(var_die)
  PROVE  EndPhase'
BY SameDies DEF EndPhase, DanglesIfFirst, ParametersAreListed, IsFirst, IsNamed, dwarf_child

(* The steps of the walk over the blocks.                                  *)
LEMMA CallPreserves == ASSUME VarInv, get_local_var_from_name PROVE VarInv'
<1> DEFINE c == dwarf_child(target)
           push == /\ calls' = Append(calls, [block |-> target, child |-> c, next |-> 0])
                   /\ target' = c /\ live' = live \cup {c} /\ UNCHANGED <<step, ret>>
<1>1. /\ step = "call" /\ UNCHANGED <<tree, frames, at, sub, res, cmd, walks, base, out, listed, faults>>
      /\ \/ Returns(ret') /\ UNCHANGED <<calls, target, live, var_die>>
         \/ Returns("OK") /\ IsNamed(target) /\ var_die' = target /\ UNCHANGED <<calls, target, live>>
         \/ End("crash") /\ UNCHANGED <<calls, target, live, var_die>>
         \/ c # 0 /\ push /\ UNCHANGED var_die
  BY DEF get_local_var_from_name, Returns
<1>2. VarTypes /\ LookupPhase /\ target \in Dies /\ faults = {} /\ tree \in Trees
  BY <1>1, LookupIs DEF LookupPhase
<1>3. CASE Returns(ret') /\ UNCHANGED <<calls, target, live, var_die>>
  <2>1. VarTypes' /\ step' = "return"
    BY <1>1, <1>2, <1>3 DEF VarTypes, Returns
  <2> QED
    BY <1>1, <1>3, <2>1, LookupReturns DEF VarInv
<1>4. CASE Returns("OK") /\ IsNamed(target) /\ var_die' = target /\ UNCHANGED <<calls, target, live>>
  <2>1. VarTypes' /\ step' = "return"
    BY <1>1, <1>2, <1>4 DEF VarTypes, Returns
  <2> QED
    BY <1>1, <1>4, <2>1, LookupFinds DEF VarInv
<1>5. CASE End("crash") /\ UNCHANGED <<calls, target, live, var_die>>
  <2>1. VarTypes' /\ step' = "end"
    BY <1>1, <1>2, <1>5 DEF VarTypes, End
  <2>2. EndPhase'
    BY <1>1, <1>2, <1>5, EndsBadly DEF End
  <2> QED
    BY <2>1, <2>2 DEF VarInv
<1>6. CASE c # 0 /\ push /\ UNCHANGED var_die
  <2>1. c \in Dies
    BY <1>2, <1>6, ChildIsFirst
  <2>2. calls' \in Seq(Calls)
    <3> DEFINE r == [block |-> target, child |-> c, next |-> 0]
    <3>1. r \in Calls
      BY <1>2, <2>1 DEF Calls
    <3> HIDE DEF r
    <3>2. calls' \in Seq(Calls)
      <4>1. calls \in Seq(Calls) /\ calls' = Append(calls, r)
        BY <1>2, <1>6 DEF VarTypes, r
      <4> QED
        BY <3>1, <4>1
    <3> QED
      BY <3>2
  <2>3. VarTypes' /\ step' = "call"
    BY <1>1, <1>2, <1>6, <2>1, <2>2 DEF VarTypes
  <2>4. LookupPhase'
    BY <1>1, <1>6, LookupDescends
  <2> QED
    BY <2>3, <2>4 DEF VarInv
<1> HIDE DEF push
<1> QED
  BY <1>1, <1>3, <1>4, <1>5, <1>6

LEMMA ReturnPreserves == ASSUME VarInv, AfterCall PROVE VarInv'
<1> SUFFICES ASSUME NEW n, n = Deep, NEW c, c = IF Inner.next = 0 THEN Inner.child ELSE Inner.next PROVE VarInv'
  OBVIOUS
<1> DEFINE r == [Inner EXCEPT !.child = c, !.next = 0]
           back == (ret # "OK" \/ var_die # 0) /\ calls' = Outer /\ step' = "return"
           stay == /\ var_die = 0 /\ step' = "sibling" /\ calls' = Append(Outer, r)
                   /\ live' = IF Inner.next = 0 THEN live ELSE live \ {Inner.child}
<1>1. /\ step = "return" /\ calls # <<>>
      /\ UNCHANGED <<tree, frames, at, sub, res, cmd, target, var_die, walks, base, out, listed, faults>>
      /\ \/ back /\ Inner.next = 0 /\ live' = live \ {Inner.child}
         \/ back /\ Inner.next # 0 /\ live' = KeepsAnswer(Inner.next) \ {Inner.child}
         \/ stay
  BY DEF AfterCall, Returns
<1>2. VarTypes /\ LookupPhase /\ calls \in Seq(Calls) /\ live \subseteq Dies
  BY <1>1, LookupIs
<1>3. n # 0
  BY <1>1, <1>2, CallTypes
<1>4. /\ n \in Nat /\ Inner \in Calls /\ Inner.block = Block(n) /\ Inner.child = Child(n) /\ Inner.next = Sib(n)
      /\ Child(n) \in Dies /\ Act(n) \in Dies /\ Child(n) <= Act(n) /\ Parent(Act(n)) = Block(n)
      /\ Sib(n) \in Dies \cup {0} /\ c = Act(n)
  BY <1>1, <1>3, ActsRise DEF Act
<1>5. live' \subseteq Dies
  BY <1>1, <1>2 DEF KeepsAnswer
<1>6. r \in Calls /\ r.block = Block(n) /\ r.child = c /\ r.next = 0
  BY <1>4 DEF Calls
<1> HIDE DEF r
<1>7. calls' \in Seq(Calls)
  BY <1>1, <1>2, <1>6, PoppedCalls, ReplacedCalls
<1>8. VarTypes'
  BY <1>1, <1>2, <1>5, <1>7 DEF VarTypes
<1>9. CASE back /\ Inner.next = 0 /\ live' = live \ {Inner.child}
  BY <1>1, <1>8, <1>9, FirstAnswers DEF VarInv
<1>10. CASE back /\ Inner.next # 0 /\ live' = KeepsAnswer(Inner.next) \ {Inner.child}
  BY <1>1, <1>8, <1>10, LaterAnswers DEF VarInv
<1>11. CASE stay
  <2>1. \A d \in live' : (d \in live /\ d # Child(n) /\ d # Sib(n)) \/ d = r.child \/ d = r.next
    BY <1>2, <1>4, <1>6, <1>11, DieNumbers
  <2>2. LookupPhase'
    <3>1. /\ step \in {"return", "sibling"} /\ Parent(r.child) = Block(n) /\ Child(n) <= r.child
          /\ step' = "sibling" /\ r.next = 0 /\ calls' = Append(Outer, r) /\ var_die = 0
          /\ UNCHANGED <<tree, sub, cmd, walks, faults, var_die>>
      BY <1>1, <1>4, <1>6, <1>11
    <3>2. calls # <<>>
      BY <1>1
    <3> HIDE DEF stay, back
    <3> QED
      BY <1>6, <2>1, <3>1, <3>2, LookupMoves
  <2> QED
    BY <1>8, <1>11, <2>2 DEF VarInv
<1> QED
  BY <1>1, <1>9, <1>10, <1>11

LEMMA SiblingCallPreserves == ASSUME VarInv, NextSibling PROVE VarInv'
<1> SUFFICES ASSUME NEW n, n = Deep, NEW c, c = Inner.child, NEW s, s = dwarf_siblingof_c(c) PROVE VarInv'
  OBVIOUS
<1> DEFINE r == [Inner EXCEPT !.next = s]
           move == /\ s # 0 /\ live' = live \cup {s} /\ calls' = Append(Outer, r)
                   /\ step' = "call" /\ target' = s
           back == step' = "return" /\ live' = KeepsAnswer(c) /\ calls' = Outer /\ UNCHANGED target
<1>1. /\ step = "sibling" /\ (move \/ back)
      /\ UNCHANGED <<tree, frames, at, sub, res, cmd, var_die, walks, base, out, listed, faults>>
  BY DEF NextSibling, Returns
<1>2. /\ VarTypes /\ LookupPhase /\ calls \in Seq(Calls) /\ live \subseteq Dies /\ tree \in Trees
      /\ var_die = 0 /\ n # 0 /\ Sib(n) = 0
  BY <1>1, LookupIs DEF LookupPhase
<1>3. /\ n \in Nat /\ Inner \in Calls /\ Inner.block = Block(n) /\ c = Child(n) /\ Inner.next = Sib(n)
      /\ c \in Dies /\ c \in Nat /\ Parent(c) = Block(n) /\ calls # <<>>
  BY <1>1, <1>2, ActsRise
<1>4. s # 0 => s \in Dies /\ c < s /\ Parent(s) = Block(n)
  BY <1>2, <1>3, SiblingIsNext, LaterIs
<1>5. live' \subseteq Dies
  BY <1>1, <1>2, <1>4 DEF KeepsAnswer
<1>6. s # 0 => r \in Calls /\ r.block = Block(n) /\ r.child = c /\ r.next = s
  BY <1>3, <1>4 DEF Calls
<1> HIDE DEF r
<1>7. calls' \in Seq(Calls)
  BY <1>1, <1>2, <1>3, <1>6, PoppedCalls, ReplacedCalls
<1>8. VarTypes'
  BY <1>1, <1>2, <1>4, <1>5, <1>7 DEF VarTypes
<1>9. CASE move
  <2>1. \A d \in live' : (d \in live /\ d # Child(n) /\ d # Sib(n)) \/ d = r.child \/ d = r.next
    BY <1>2, <1>3, <1>6, <1>9, DieNumbers
  <2>2. LookupPhase'
    <3>1. /\ step \in {"return", "sibling"} /\ Parent(r.child) = Block(n) /\ Child(n) <= r.child
          /\ r \in Calls /\ r.block = Block(n) /\ r.next # 0 /\ Parent(r.next) = Block(n) /\ r.child < r.next
          /\ step' = "call" /\ calls' = Append(Outer, r) /\ target' = r.next /\ r.next \in live'
          /\ UNCHANGED <<tree, sub, cmd, walks, faults, var_die>>
      BY <1>1, <1>3, <1>4, <1>6, <1>9
    <3> HIDE DEF move, back
    <3> QED
      BY <1>2, <1>3, <2>1, <3>1, LookupMoves
  <2> QED
    BY <1>8, <1>9, <2>2 DEF VarInv
<1>10. CASE back
  <2>1. live' \subseteq live /\ \A d \in live' : d # Child(n) /\ d # Sib(n)
    BY <1>2, <1>3, <1>10, DieNumbers DEF KeepsAnswer
  <2>2. LookupPhase'
    BY <1>1, <1>2, <1>3, <1>10, <2>1, LookupPops
  <2> QED
    BY <1>8, <1>10, <2>2 DEF VarInv
<1> QED
  BY <1>1, <1>9, <1>10

(* The walk over the blocks has returned to the command.                   *)
LEMMA FoundPreserves == ASSUME VarInv, Found PROVE VarInv'
<1> DEFINE good == /\ var_die # 0 /\ step' = "type" /\ target' = var_die /\ live' = live \ {sub}
                   /\ faults' = IF var_die \in live \ {sub} THEN faults ELSE faults \cup {"var"}
           late == /\ var_die # 0 /\ End("ERROR") /\ live' = live \ {sub, var_die} /\ UNCHANGED target
                   /\ faults' = IF var_die \in live \ {sub} THEN faults ELSE faults \cup {"var"}
           none == End("ERROR") /\ live' = live \ {sub} /\ UNCHANGED <<target, faults>>
<1>1. /\ step = "return" /\ calls = <<>> /\ cmd.what = "local" /\ (good \/ late \/ none)
      /\ UNCHANGED <<tree, frames, at, sub, res, cmd, calls, var_die, walks, base, out, listed>>
  BY DEF Found
<1>2. /\ VarTypes /\ LookupPhase /\ live \subseteq Dies /\ faults = {} /\ sub \in Holders /\ walks = <<>>
      /\ tree \in Trees /\ calls \in Seq(Calls) /\ var_die \in Dies \cup {0}
  BY <1>1, LookupIs DEF LookupPhase
<1>3. Deep = 0
  BY <1>1, <1>2, CallTypes
<1>4. VarTypes'
  BY <1>1, <1>2 DEF VarTypes, End
<1>5. var_die # 0 => IsNamed(var_die) /\ HandleIsRight /\ var_die # sub /\ var_die \in Dies
  BY <1>1, <1>2, <1>3, HolderIsNoName DEF LookupPhase, Pending, Decided
<1>6. \A d \in live : d \in Holders \/ d = var_die
  BY <1>2, <1>3 DEF LookupPhase, Known
<1>7. var_die # 0 => (var_die \in live \ {sub} <=> ~IsFirst(var_die))
  BY <1>5 DEF HandleIsRight
<1>8. IsFirst(var_die)' <=> IsFirst(var_die)
  BY <1>1, SameDies DEF IsFirst, IsNamed, dwarf_child
<1>11. CASE good
  <2>1. Walking' = 0
    BY <1>1, <1>2 DEF Walking
  <2>2. live' \subseteq (Holders \ {sub}) \cup {var_die} /\ var_die # 0
    BY <1>6, <1>11
  <2>3. HandleIsRight'
    BY <1>1, <1>5, <1>7, <1>11, SameVariable
  <2>4. "var" \in faults' <=> IsFirst(var_die)
    BY <1>2, <1>7, <1>11
  <2>5. PrintPhase'
    <3>1. \A k \in 1 .. Walking' : FALSE
      BY <2>1
    <3>2. step' = "type" /\ cmd' = cmd /\ cmd.what = "local"
      BY <1>1, <1>11
    <3>3. /\ \A k \in 1 .. Walking' : WalkIsRight(k)'
          /\ sub' \in Holders' /\ live' \subseteq (Holders' \ {sub'}) \cup {var_die'} /\ var_die' # 0
          /\ "var" \in faults' <=> IsFirst(var_die)'
      BY <1>1, <1>2, <1>8, <2>2, <2>4, <3>1, SameDies
    <3> QED
      BY <2>3, <3>2, <3>3 DEF PrintPhase
  <2> QED
    BY <1>4, <1>11, <2>5 DEF VarInv
<1>12. CASE late \/ none
  <2>1. step' = "end" /\ ret' # "OK"
    BY <1>12 DEF End
  <2>2. "var" \in faults' => IsFirst(var_die)
    BY <1>2, <1>7, <1>12
  <2>3. EndPhase'
    BY <1>1, <2>1, <2>2, EndsBadly
  <2> QED
    BY <1>4, <2>1, <2>3 DEF VarInv
<1> HIDE DEF good, late, none
<1> QED
  BY <1>1, <1>11, <1>12

(* The search of the subprogram, and the way from it to the two walks.     *)
LEMMA SearchIs ==
  ASSUME VarInv, step = "search"
  PROVE  VarTypes /\ SearchPhase /\ tree \in Trees
BY DEF VarInv, VarTypes

LEMMA OptionPreserves == ASSUME VarInv, handle_var PROVE VarInv'
<1>1. /\ step = "search" /\ step' = "end" /\ ret' # "OK"
      /\ UNCHANGED <<searchVars, cmd, calls, target, var_die, walks, base, out, listed, faults>>
  BY DEF handle_var, End
<1>2. VarTypes' /\ faults' = {}
  BY <1>1, SearchIs DEF VarTypes, SearchPhase, searchVars
<1>3. EndPhase'
  BY <1>1, <1>2, EndsBadly DEF searchVars
<1> QED
  BY <1>1, <1>2, <1>3 DEF VarInv

LEMMA SearchStepPreserves == ASSUME VarInv, FindSubprogram PROVE VarInv'
<1>1. step = "search" /\ cmd.what # "other" /\ Search /\ UNCHANGED varVars
  BY DEF FindSubprogram
<1>2. VarTypes /\ SearchPhase
  BY <1>1, SearchIs
<1>3. SearchInv' /\ tree' = tree
  BY <1>1, <1>2, SearchPreserves DEF SearchPhase
<1>4. VarTypes' /\ step' = "search"
  BY <1>1, <1>2, <1>3 DEF VarTypes, varVars, SearchInv, SearchTypeOK
<1>5. SearchPhase'
  BY <1>1, <1>2, <1>3 DEF SearchPhase, varVars
<1> QED
  BY <1>4, <1>5 DEF VarInv

LEMMA FramePreserves == ASSUME VarInv, FrameBase PROVE VarInv'
<1> DEFINE bad   == step' = "end" /\ ret' # "OK" /\ live' \subseteq live /\ UNCHANGED <<target, walks>>
           found == res # "ERROR" /\ sub # 0 /\ UNCHANGED live
           local == cmd.what = "local" /\ step' = "call" /\ target' = sub /\ UNCHANGED walks
           param == cmd.what # "local" /\ step' = "walk" /\ walks' = <<Walk(sub, 0)>> /\ UNCHANGED target
<1>1. /\ step = "search" /\ at = "done" /\ (bad \/ (found /\ (local \/ param)))
      /\ UNCHANGED <<tree, frames, at, sub, res, cmd, calls, var_die, base, out, listed, faults>>
  BY DEF FrameBase, End
<1>2. VarTypes /\ SearchPhase /\ SearchInv /\ cmd.what \in {"local", "params"} /\ sub \in Dies \cup {0}
  BY <1>1, SearchIs DEF SearchPhase, VarTypes
<1>3. calls = <<>> /\ walks = <<>> /\ listed = <<>> /\ faults = {} /\ var_die = 0 /\ live \subseteq Dies
  BY <1>2 DEF SearchPhase, VarTypes
<1>4. "var" \notin faults'
  BY <1>1, <1>3
<1>5. CASE bad
  <2>1. VarTypes' /\ step' = "end"
    BY <1>1, <1>2, <1>5 DEF VarTypes
  <2>2. EndPhase'
    BY <1>1, <1>4, <1>5, EndsBadly
  <2> QED
    BY <2>1, <2>2 DEF VarInv
<1>6. ASSUME found PROVE sub \in Holders /\ sub \in Dies /\ live \subseteq Holders
  BY <1>1, <1>2, <1>6 DEF SearchInv, Over, Finished, Holders
<1>7. CASE found /\ local
  <2>1. VarTypes' /\ step' = "call"
    BY <1>1, <1>2, <1>6, <1>7 DEF VarTypes
  <2>2. Deep' = 0
    BY <1>1, <1>3 DEF Deep
  <2>3. \A k \in 1 .. Deep' : FALSE
    BY <2>2
  <2>4. BlocksNest'
    BY <2>3 DEF BlocksNest
  <2>5. \A d \in live' : Known(d)'
    BY <1>1, <1>6, <1>7, SameDies DEF Known
  <2>6. LookupPhase'
    BY <1>1, <1>3, <1>6, <1>7, <2>1, <2>2, <2>4, <2>5, SameDies DEF LookupPhase
  <2> QED
    BY <2>1, <2>6 DEF VarInv
<1>8. CASE found /\ param
  <2> DEFINE w == Walk(sub, 0)
  <2>1. w \in Walks /\ w.of = sub /\ w.cur = 0 /\ w.next = 0 /\ w.handle = "null"
    BY <1>6, <1>8 DEF Walk, Walks
  <2> HIDE DEF w
  <2>2. walks' = <<w>> /\ walks' \in Seq(Walks) /\ Len(walks') = 1 /\ walks'[1] = w
    <3>1. walks' = <<w>>
      BY <1>8 DEF w
    <3> QED
      BY <2>1, <3>1
  <2>3. /\ Walking' = 1 /\ WalkOf(1)' = sub /\ WalkCur(1)' = 0 /\ WalkNext(1)' = 0
        /\ Handle(1)' = "null"
    BY <2>1, <2>2 DEF Walking, WalkOf, WalkCur, WalkNext, Handle
  <2>4. VarTypes' /\ step' = "walk" /\ cmd.what = "params" /\ cmd' = cmd
    BY <1>1, <1>2, <1>6, <1>8, <2>2 DEF VarTypes
  <2>5. ASSUME NEW k \in 1 .. Walking' PROVE WalkIsRight(k)'
    <3>1. k = 1
      BY <2>3, <2>5
    <3>2. WalkIsRight(1)'
      BY <1>1, <2>3, <2>4 DEF WalkIsRight
    <3> QED
      BY <3>1, <3>2
  <2>6. Names' = Gone' /\ InOrder(listed)'
    <3>1. Names' = {} /\ InOrder(listed)'
      BY <1>1, <1>3 DEF Names, InOrder
    <3>2. Gone' = {}
      <4>1. \A d \in Dies : ~ d < 0 /\ d # 0
        BY DieNumbers
      <4> QED
        BY <2>3, <4>1 DEF Gone, Params, ChildrenOf
    <3> QED
      BY <3>1, <3>2
  <2>7. PrintPhase'
    BY <1>1, <1>4, <1>6, <1>8, <2>3, <2>4, <2>5, <2>6, SameDies DEF PrintPhase
  <2> QED
    BY <2>4, <2>7 DEF VarInv
<1> HIDE DEF bad, found, local, param
<1> QED
  BY <1>1, <1>5, <1>7, <1>8

-----------------------------------------------------------------------------
(* The walks, by their levels.                                             *)
LEMMA WalkTypes ==
  ASSUME walks \in Seq(Walks), NEW n, n = Walking
  PROVE  /\ n \in Nat /\ (walks # <<>> <=> n # 0)
         /\ \A k \in 1 .. n : WalkOf(k) \in Dies /\ WalkCur(k) \in Dies \cup {0} /\ WalkNext(k) \in Dies \cup {0}
         /\ n # 0 => /\ top \in Walks /\ top.of = WalkOf(n) /\ top.cur = WalkCur(n)
                     /\ top.next = WalkNext(n) /\ top.handle = Handle(n)
         /\ Members <=> n # 0 /\ tree[WalkOf(n)].tag = "struct"
<1>1. /\ n \in Nat /\ (walks # <<>> <=> n # 0)
      /\ \A k \in 1 .. n : walks[k] \in Walks
  BY DEF Walking
<1>2. \A k \in 1 .. n : WalkOf(k) \in Dies /\ WalkCur(k) \in Dies \cup {0} /\ WalkNext(k) \in Dies \cup {0}
  BY <1>1 DEF Walks, WalkOf, WalkCur, WalkNext
<1>3. n # 0 => top \in Walks /\ top = walks[n]
  <2>1. n # 0 => n \in 1 .. n
    BY <1>1
  <2> QED
    BY <1>1, <2>1 DEF top, Walking
<1> QED
  BY <1>1, <1>2, <1>3 DEF WalkOf, WalkCur, WalkNext, Handle, Members

LEMMA PoppedWalks ==
  ASSUME walks \in Seq(Walks), walks # <<>>, NEW n, n = Walking, walks' = Below
  PROVE  /\ walks' \in Seq(Walks) /\ Walking' = n - 1
         /\ \A k \in 1 .. n - 1 : /\ WalkOf(k)' = WalkOf(k) /\ WalkCur(k)' = WalkCur(k)
                                  /\ WalkNext(k)' = WalkNext(k) /\ Handle(k)' = Handle(k)
<1>1. walks' = Front(walks)
  BY DEF Below, Front
<1>2. /\ walks' \in Seq(Walks) /\ Len(walks') = Len(walks) - 1
      /\ \A k \in 1 .. Len(walks) - 1 : walks'[k] = walks[k]
  BY <1>1, Pop
<1> QED
  BY <1>2 DEF Walking, WalkOf, WalkCur, WalkNext, Handle

LEMMA ReplacedWalks ==
  ASSUME walks \in Seq(Walks), walks # <<>>, NEW n, n = Walking, NEW w \in Walks, walks' = Append(Below, w)
  PROVE  /\ walks' \in Seq(Walks) /\ Walking' = n
         /\ \A k \in 1 .. n - 1 : /\ WalkOf(k)' = WalkOf(k) /\ WalkCur(k)' = WalkCur(k)
                                  /\ WalkNext(k)' = WalkNext(k) /\ Handle(k)' = Handle(k)
         /\ WalkOf(n)' = w.of /\ WalkCur(n)' = w.cur /\ WalkNext(n)' = w.next /\ Handle(n)' = w.handle
<1>1. walks' = Append(Front(walks), w) /\ Len(walks) \in Nat \ {0}
  BY DEF Below, Front
<1>2. /\ walks' \in Seq(Walks) /\ Len(walks') = Len(walks)
      /\ \A k \in 1 .. Len(walks) - 1 : walks'[k] = walks[k]
      /\ walks'[Len(walks)] = w
  BY <1>1, Replace
<1> QED
  BY <1>1, <1>2 DEF Walking, WalkOf, WalkCur, WalkNext, Handle

LEMMA PushedWalks ==
  ASSUME walks \in Seq(Walks), NEW n, n = Walking, NEW w \in Walks, walks' = Append(walks, w)
  PROVE  /\ walks' \in Seq(Walks) /\ Walking' = n + 1
         /\ \A k \in 1 .. n : /\ WalkOf(k)' = WalkOf(k) /\ WalkCur(k)' = WalkCur(k)
                              /\ WalkNext(k)' = WalkNext(k) /\ Handle(k)' = Handle(k)
         /\ WalkOf(n + 1)' = w.of /\ WalkCur(n + 1)' = w.cur /\ WalkNext(n + 1)' = w.next
         /\ Handle(n + 1)' = w.handle
<1>1. /\ walks' \in Seq(Walks) /\ Len(walks') = Len(walks) + 1 /\ Len(walks) \in Nat
      /\ \A k \in 1 .. Len(walks) : walks'[k] = walks[k]
      /\ walks'[Len(walks) + 1] = w
  BY Push
<1> QED
  BY <1>1 DEF Walking, WalkOf, WalkCur, WalkNext, Handle

(* The steps in which values are printed.                                  *)
Printing == step \in {"walk", "tag", "item", "type", "printed"}

(* The innermost walk is one over members, or the one over the parameters. *)
LEMMA PrintIs ==
  ASSUME VarInv, Printing, NEW n, n = Walking
  PROVE  /\ VarTypes /\ PrintPhase /\ tree \in Trees /\ walks \in Seq(Walks) /\ cmd.what \in {"local", "params"}
         /\ sub \in Holders /\ sub \in Dies /\ tree[sub].tag = "subprogram" /\ live \subseteq Dies
         /\ \A k \in 1 .. n : WalkIsRight(k)
         /\ \A k \in 1 .. n - 1 : WalkIsRight(k) /\ WalkCur(k) # 0
         /\ n # 0 => n \in 1 .. n /\ WalkIsRight(n)
         /\ Members /\ cmd.what = "params" => n > 1 /\ 1 \in 1 .. n - 1
         /\ ~Members /\ n # 0 => cmd.what = "params" /\ n = 1 /\ WalkOf(n) = sub
<1>1. /\ VarTypes /\ PrintPhase /\ tree \in Trees /\ walks \in Seq(Walks) /\ live \subseteq Dies
      /\ cmd.what \in {"local", "params"} /\ sub \in Holders
      /\ \A k \in 1 .. n : WalkIsRight(k)
  BY DEF VarInv, VarTypes, Printing, PrintPhase
<1>2. /\ n \in Nat /\ (n # 0 => n \in 1 .. n) /\ (Members <=> n # 0 /\ tree[WalkOf(n)].tag = "struct")
  BY <1>1, WalkTypes
<1>3. sub \in Dies /\ tree[sub].tag = "subprogram"
  BY <1>1 DEF Holders
<1>4. \A k \in 1 .. n - 1 : k \in 1 .. n /\ k # n
  BY <1>2
<1>5. \A k \in 1 .. n - 1 : WalkIsRight(k) /\ WalkCur(k) # 0
  BY <1>1, <1>4 DEF WalkIsRight
<1>6. ~Members /\ n # 0 => cmd.what = "params" /\ n = 1 /\ WalkOf(n) = sub
  BY <1>1, <1>2 DEF WalkIsRight
<1>7. Members /\ cmd.what = "params" => n # 1 /\ n # 0
  <2>1. Members /\ cmd.what = "params" /\ n = 1 => WalkOf(n) = sub
    BY <1>1, <1>2 DEF WalkIsRight
  <2> QED
    BY <1>2, <1>3, <2>1
<1> QED
  BY <1>1, <1>2, <1>3, <1>5, <1>6, <1>7

(* A walk that has begun stays as it is.                                   *)
LEMMA KeptWalk ==
  ASSUME UNCHANGED <<tree, sub, cmd>>, NEW k, WalkIsRight(k), WalkCur(k) # 0,
         WalkOf(k)' = WalkOf(k), WalkCur(k)' = WalkCur(k), WalkNext(k)' = WalkNext(k), Handle(k)' = Handle(k)
  PROVE  WalkIsRight(k)'
BY SameDies DEF WalkIsRight

(* What is left to show of a step after which values are still printed.    *)
LEMMA PrintGoesOn ==
  ASSUME VarInv, Printing, Printing', UNCHANGED <<tree, sub, cmd, var_die, live, listed>>,
         "var" \in faults' <=> "var" \in faults,
         \A k \in 1 .. Walking' : WalkIsRight(k)',
         step' \in {"walk", "tag", "item"} \/ cmd.what = "params" => Walking' # 0,
         step' = "item" => tree[top.cur].tag = Wanted /\ walks' = walks,
         cmd.what = "params" => Gone' = Gone
  PROVE  PrintPhase'
<1>1. PrintPhase /\ cmd.what \in {"local", "params"}
  BY PrintIs
<1>2. step' = "item" => tree'[top'.cur].tag = Wanted'
  BY DEF Wanted, Members, top
<1>3. HandleIsRight' <=> HandleIsRight
  BY SameVariable DEF HandleIsRight
<1>4. IsFirst(var_die)' <=> IsFirst(var_die)
  BY SameDies DEF IsFirst, IsNamed, dwarf_child
<1>5. Names' = Names /\ (InOrder(listed)' <=> InOrder(listed)) /\ Holders' = Holders
  BY SameDies DEF Names, InOrder
<1> QED
  BY <1>1, <1>2, <1>3, <1>4, <1>5 DEF PrintPhase

(* The walk over the parameters has not moved.                             *)
LEMMA GoneStays ==
  ASSUME UNCHANGED <<tree, sub>>, WalkCur(1)' = WalkCur(1), Walking > 1 \/ step \notin {"tag", "item"},
         Walking' > 1 \/ step' \notin {"tag", "item"}
  PROVE  Gone' = Gone
BY SameDies DEF Gone, Params, ChildrenOf

(* A struct is left: its walk has ended, or a member could not be printed. *)
LEMMA StructIsLeft ==
  ASSUME VarInv, Printing, Members, walks' = Below, step' = "printed",
         UNCHANGED <<tree, sub, cmd, var_die, live, listed>>,
         "var" \in faults' <=> "var" \in faults
  PROVE  PrintPhase' /\ walks' \in Seq(Walks)
<1> SUFFICES ASSUME NEW n, n = Walking PROVE PrintPhase' /\ walks' \in Seq(Walks)
  OBVIOUS
<1>1. /\ walks \in Seq(Walks) /\ n \in Nat /\ n # 0 /\ walks # <<>>
      /\ \A k \in 1 .. n - 1 : WalkIsRight(k) /\ WalkCur(k) # 0
      /\ cmd.what = "params" => n > 1 /\ 1 \in 1 .. n - 1
  BY PrintIs, WalkTypes
<1>2. /\ walks' \in Seq(Walks) /\ Walking' = n - 1
      /\ \A k \in 1 .. n - 1 : /\ WalkOf(k)' = WalkOf(k) /\ WalkCur(k)' = WalkCur(k)
                               /\ WalkNext(k)' = WalkNext(k) /\ Handle(k)' = Handle(k)
  BY <1>1, PoppedWalks
<1>3. \A k \in 1 .. Walking' : WalkIsRight(k)'
  BY <1>1, <1>2, KeptWalk
<1>4. cmd.what = "params" => Gone' = Gone /\ Walking' # 0
  BY <1>1, <1>2, GoneStays
<1>5. Printing'
  BY DEF Printing
<1> QED
  BY <1>2, <1>3, <1>4, <1>5, PrintGoesOn

(* A walk ends.                                                            *)
LEMMA WalkEndsPreserves ==
  ASSUME VarInv, step \in {"walk", "tag"}, NEW w, NEW r, WalkEnds(w, r),
         r = "OK" /\ ~Members => Params \subseteq Gone,
         UNCHANGED <<tree, frames, at, sub, res, cmd, calls, target, var_die, base, listed>>
  PROVE  VarInv'
<1> SUFFICES ASSUME NEW n, n = Walking PROVE VarInv'
  OBVIOUS
<1>1. Printing
  BY DEF Printing
<1>2. /\ VarTypes /\ PrintPhase /\ walks \in Seq(Walks) /\ sub \in Holders /\ live \subseteq Dies /\ n # 0
      /\ walks # <<>> /\ Members \in BOOLEAN
  BY <1>1, PrintIs, WalkTypes DEF PrintPhase, Members
<1>3. "var" \in faults' <=> "var" \in faults
  BY DEF WalkEnds
<1>4. walks' = Below /\ walks' \in Seq(Walks)
  BY <1>2, PoppedWalks DEF WalkEnds
<1>5. CASE Members
  <2>1. UNCHANGED live /\ (End("overrun") \/ step' = "printed")
    BY <1>5 DEF WalkEnds, Write
  <2>2. VarTypes'
    BY <1>2, <1>4, <2>1 DEF VarTypes, End
  <2>3. CASE step' = "printed"
    BY <1>1, <1>3, <1>4, <1>5, <2>1, <2>2, <2>3, StructIsLeft DEF VarInv
  <2>4. CASE End("overrun")
    <3>1. step' = "end" /\ ret' # "OK"
      BY <2>4 DEF End
    <3>2. "var" \in faults' => IsFirst(var_die)
      BY <1>2, <1>3, PrintIs, <1>1 DEF PrintPhase
    <3>3. EndPhase'
      BY <3>1, <3>2, EndsBadly
    <3> QED
      BY <2>2, <3>1, <3>3 DEF VarInv
  <2> QED
    BY <2>1, <2>3, <2>4
<1>6. CASE ~Members
  <2>1. step' = "end" /\ ret' = r /\ live' = live \ {sub}
    BY <1>6 DEF WalkEnds, End
  <2>2. VarTypes'
    BY <1>2, <1>4, <2>1 DEF VarTypes
  <2>3. cmd.what = "params" /\ live \subseteq Holders /\ "var" \notin faults' /\ InOrder(listed) /\ Names = Gone
    BY <1>1, <1>2, <1>3, <1>6, PrintIs DEF PrintPhase
  <2>4. ParametersAreListed'
    <3>1. r = "OK" => Names = Params
      BY <1>6, <2>3 DEF Gone
    <3>2. Names' = Names /\ Params' = Params /\ (InOrder(listed)' <=> InOrder(listed))
      BY SameDies DEF Names, Params, ChildrenOf, InOrder
    <3> QED
      BY <2>1, <2>3, <3>1, <3>2 DEF ParametersAreListed, Names, Params
  <2>5. DanglesIfFirst'
    BY <2>3 DEF DanglesIfFirst
  <2>6. sub' \in Holders' /\ live' \subseteq Holders' \ {sub'}
    BY <1>2, <2>1, <2>3, SameDies
  <2>7. EndPhase'
    BY <2>4, <2>5, <2>6 DEF EndPhase
  <2> QED
    BY <2>1, <2>2, <2>7 DEF VarInv
<1> QED
  BY <1>5, <1>6

(* A walk comes to a die.                                                  *)
LEMMA WalkMoves ==
  ASSUME VarInv, step \in {"walk", "tag"}, NEW n, n = Walking, n # 0,
         NEW x \in Walks, walks' = Append(Below, x), step' = "tag",
         x.of = WalkOf(n), x.cur # 0, Parent(x.cur) = WalkOf(n), x.handle = "live",
         x.next # 0 => x.next = x.cur /\ x.cur # dwarf_child(WalkOf(n)),
         ~Members => \A d \in Params : d < x.cur <=> d \in Gone,
         UNCHANGED <<tree, sub, cmd, calls, target, var_die, base, listed, live, faults>>
  PROVE  VarInv'
<1> DEFINE c == x.cur
           m == x.next
           o == x.of
           h == x.handle
<1>1. Printing /\ Printing'
  BY DEF Printing
<1>2. /\ VarTypes /\ PrintPhase /\ walks \in Seq(Walks) /\ walks # <<>> /\ n \in Nat
      /\ \A k \in 1 .. n - 1 : WalkIsRight(k) /\ WalkCur(k) # 0
      /\ WalkIsRight(n)
      /\ Members /\ cmd.what = "params" => n > 1 /\ 1 \in 1 .. n - 1
      /\ ~Members => n = 1
  BY <1>1, PrintIs, WalkTypes
<1>3. /\ walks' \in Seq(Walks) /\ Walking' = n
      /\ \A k \in 1 .. n - 1 : /\ WalkOf(k)' = WalkOf(k) /\ WalkCur(k)' = WalkCur(k)
                               /\ WalkNext(k)' = WalkNext(k) /\ Handle(k)' = Handle(k)
      /\ WalkOf(n)' = o /\ WalkCur(n)' = c /\ WalkNext(n)' = m /\ Handle(n)' = h
  BY <1>2, ReplacedWalks
<1>4. /\ o = WalkOf(n) /\ c # 0 /\ Parent(c) = WalkOf(n) /\ h = "live"
      /\ (m # 0 => m = c /\ c # dwarf_child(WalkOf(n)))
      /\ (~Members => \A d \in Params : d < c <=> d \in Gone)
  OBVIOUS
<1> HIDE DEF c, m, o, h
<1>5. WalkIsRight(n)'
  <2>1. IF cmd.what = "params" /\ n = 1 THEN WalkOf(n) = sub ELSE tree[WalkOf(n)].tag = "struct"
    BY <1>2 DEF WalkIsRight
  <2>2. WalkOf(n)' = WalkOf(n) /\ WalkCur(n)' = c /\ WalkNext(n)' = m /\ Handle(n)' = "live"
    BY <1>3, <1>4
  <2>3. IF cmd'.what = "params" /\ n = 1 THEN WalkOf(n)' = sub' ELSE tree'[WalkOf(n)'].tag = "struct"
    BY <2>1, <2>2
  <2>4. tree'[c].parent = WalkOf(n)
    BY <1>4 DEF Parent
  <2>5. WalkNext(n)' # 0 => WalkNext(n)' = c /\ c # First({k \in Dies : tree'[k].parent = WalkOf(n)})
    BY <1>4, <2>2 DEF dwarf_child
  <2> QED
    BY <1>4, <2>2, <2>3, <2>4, <2>5 DEF WalkIsRight, Parent, dwarf_child
<1>6. \A k \in 1 .. Walking' : WalkIsRight(k)'
  <2>1. \A k \in 1 .. n : k \in 1 .. n - 1 \/ k = n
    BY <1>2
  <2> QED
    BY <1>2, <1>3, <1>5, <2>1, KeptWalk
<1>7. cmd.what = "params" => Gone' = Gone
  <2>1. CASE Members
    BY <1>2, <1>3, <2>1, GoneStays
  <2>2. CASE ~Members
    <3>1. Gone' = {d \in Params : d < c}
      BY <1>2, <1>3, <2>2, SameDies DEF Gone, Params, ChildrenOf
    <3>2. Gone \subseteq Params
      BY DEF Gone
    <3> QED
      BY <1>4, <2>2, <3>1, <3>2
  <2> QED
    BY <2>1, <2>2
<1>9. PrintPhase'
  BY <1>1, <1>3, <1>6, <1>7, PrintGoesOn
<1>10. VarTypes'
  BY <1>2, <1>3 DEF VarTypes
<1> QED
  BY <1>9, <1>10 DEF VarInv

(* The parameters that a walk which moves has gone past.                   *)
LEMMA GoneIs ==
  ASSUME VarInv, step \in {"walk", "tag"}, ~Members, Walking # 0, NEW c, c = WalkCur(1)
  PROVE  /\ Params \subseteq Dies /\ \A d \in Params : Parent(d) = WalkOf(1) /\ d \in Nat /\ tree[d].tag = "param"
         /\ step = "walk" => \A d \in Params : d \in Gone <=> d <= c
         /\ step = "tag" => \A d \in Params : d \in Gone <=> d < c
         /\ Walking = 1 /\ c \in Nat /\ WalkOf(1) = sub /\ tree \in Trees
<1>1. Walking = 1 /\ WalkOf(1) = sub /\ tree \in Trees /\ c \in Nat
  <2>1. Printing
    BY DEF Printing
  <2>2. Walking = 1 /\ WalkOf(1) = sub /\ tree \in Trees /\ walks \in Seq(Walks) /\ 1 \in 1 .. 1
    BY <2>1, PrintIs
  <2> QED
    BY <2>2, WalkTypes, DieNumbers
<1>2. Params \subseteq Dies /\ \A d \in Params : Parent(d) = sub /\ d \in Nat /\ tree[d].tag = "param"
  BY DieNumbers DEF Params, ChildrenOf, Parent
<1>3. \A d \in Params : d \in Gone <=> d < c \/ (d = c /\ step # "tag")
  BY <1>1 DEF Gone
<1>4. \A d \in Params : d <= c <=> d < c \/ d = c
  BY <1>1, <1>2
<1> QED
  BY <1>1, <1>2, <1>3, <1>4

(* A walk that moves to the sibling s, and one that finds none.            *)
LEMMA SiblingIsInOrder ==
  ASSUME VarInv, step \in {"walk", "tag"}, ~Members, Walking # 0, NEW c, c = WalkCur(1), c # 0,
         step = "tag" => tree[c].tag # "param", NEW s, s = dwarf_siblingof_c(c)
  PROVE  /\ s # 0 => \A d \in Params : d < s <=> d \in Gone
         /\ s = 0 => Params \subseteq Gone
<1>1. /\ \A d \in Params : d \in Dies /\ Parent(d) = WalkOf(1) /\ d \in Nat /\ tree[d].tag = "param"
      /\ step = "walk" => \A d \in Params : d \in Gone <=> d <= c
      /\ step = "tag" => \A d \in Params : d \in Gone <=> d < c
      /\ Walking = 1 /\ c \in Nat /\ tree \in Trees
  BY GoneIs
<1>2. WalkIsRight(1) /\ c \in Dies /\ Parent(c) = WalkOf(1)
  <2>1. Printing
    BY DEF Printing
  <2>2. WalkIsRight(1) /\ walks \in Seq(Walks) /\ 1 \in 1 .. 1
    BY <1>1, <2>1, PrintIs
  <2>3. c \in Dies
    BY <1>1, <2>2, WalkTypes
  <2> QED
    BY <2>2, <2>3 DEF WalkIsRight
<1>3. \A d \in Params : d \in Gone <=> d <= c
  <2>1. CASE step = "walk"
    BY <1>1, <2>1
  <2>2. CASE step = "tag"
    <3>1. \A d \in Params : d # c
      BY <1>1, <2>2
    <3>2. \A d \in Params : d <= c <=> d < c
      BY <1>1, <3>1
    <3> QED
      BY <1>1, <2>2, <3>2
  <2> QED
    BY <2>1, <2>2
<1>4. \A d \in Params : d <= c \/ d \in Later(c)
  BY <1>1, <1>2 DEF Later
<1>5. ASSUME s # 0, NEW d \in Params PROVE d < s <=> d <= c
  <2>1. s \in Later(c) /\ \A e \in Later(c) : s <= e
    BY <1>1, <1>2, <1>5, SiblingIsNext
  <2>2. s \in Nat /\ c < s
    BY <1>2, <2>1, LaterIs
  <2>3. CASE d <= c
    BY <1>1, <2>2, <2>3
  <2>4. CASE d \in Later(c)
    <3>1. s <= d /\ c < d /\ d \in Nat
      BY <1>1, <1>2, <2>1, <2>4, LaterIs
    <3> QED
      BY <1>1, <2>2, <3>1
  <2> QED
    BY <1>4, <2>3, <2>4
<1>6. ASSUME s = 0 PROVE Params \subseteq Gone
  <2>1. Later(c) = {}
    BY <1>1, <1>2, <1>6, SiblingIsNext
  <2> QED
    BY <1>3, <1>4, <2>1
<1> QED
  BY <1>3, <1>5, <1>6

LEMMA WalkOnPreserves == ASSUME VarInv, WalkOn PROVE VarInv'
<1> SUFFICES ASSUME NEW n, n = Walking, NEW w, w = [top EXCEPT !.next = 0],
                    NEW c, c = dwarf_child(w.of), NEW s, s = dwarf_siblingof_c(w.cur)
             PROVE  VarInv'
  OBVIOUS
<1> DEFINE x == [w EXCEPT !.cur = c, !.handle = "live"]
           same == UNCHANGED <<tree, frames, at, sub, res, cmd, calls, target, var_die, base, listed>>
           tag == step' = "tag" /\ UNCHANGED <<live, ret, out, faults>>
           first == w.cur = 0 /\ c # 0 /\ walks' = Append(Below, x) /\ tag
           empty == w.cur = 0 /\ \/ c = 0 /\ WalkEnds(w, "OK")
                                 \/ WalkEnds(w, "ERROR")
           next == w.cur # 0 /\ s # 0 /\ walks' = Append(Below, Moved(w)) /\ tag
           stop == w.cur # 0 /\ \/ s = 0 /\ WalkEnds(Stopped(w), "OK")
                                \/ WalkEnds(Stopped(w), "ERROR")
<1>1. step = "walk" /\ same /\ (first \/ empty \/ next \/ stop)
  BY DEF WalkOn
<1>2. Printing
  BY <1>1 DEF Printing
<1>3. /\ PrintPhase /\ tree \in Trees /\ walks \in Seq(Walks) /\ n # 0 /\ Walking # 0
      /\ n \in 1 .. n /\ WalkIsRight(n)
      /\ ~Members => n = 1
  BY <1>1, <1>2, PrintIs DEF PrintPhase
<1>4. /\ top \in Walks /\ top.of = WalkOf(n) /\ top.cur = WalkCur(n) /\ top.handle = Handle(n)
      /\ WalkOf(n) \in Dies /\ WalkCur(n) \in Dies \cup {0}
  BY <1>3, WalkTypes
<1>5. /\ w \in Walks /\ w.of = WalkOf(n) /\ w.cur = WalkCur(n) /\ w.next = 0 /\ w.handle = Handle(n)
      /\ c = dwarf_child(WalkOf(n)) /\ s = dwarf_siblingof_c(WalkCur(n))
  BY <1>4 DEF Walks
<1>6. c # 0 => c \in Dies /\ Parent(c) = WalkOf(n)
  BY <1>3, <1>4, <1>5, ChildIsFirst
<1>7. CASE first
  <2>1. x \in Walks /\ x.of = WalkOf(n) /\ x.cur = c /\ x.next = 0 /\ x.handle = "live"
    BY <1>5, <1>6, <1>7 DEF Walks
  <2> HIDE DEF x
  <2>2. ASSUME ~Members, NEW d \in Params PROVE d < c <=> d \in Gone
    <3>1. n = 1 /\ Parent(d) = WalkOf(n) /\ d \in Dies /\ d \in Nat /\ (d \in Gone <=> d <= WalkCur(n))
      BY <1>1, <1>3, <2>2, GoneIs
    <3>2. c <= d /\ c \in Nat
      BY <1>3, <1>5, <1>6, <1>7, <3>1, ChildIsFirst, DieNumbers
    <3>3. ~ d <= 0
      BY <3>1, DieNumbers
    <3> QED
      BY <1>5, <1>7, <3>1, <3>2, <3>3
  <2>3. UNCHANGED <<tree, sub, cmd, calls, target, var_die, base, listed, live, faults>> /\ step' = "tag"
    BY <1>1, <1>7
  <2>4. walks' = Append(Below, x) /\ c # 0 /\ step \in {"walk", "tag"}
    BY <1>1, <1>7
  <2> HIDE DEF first, tag, same
  <2> QED
    BY <1>3, <1>6, <2>1, <2>2, <2>3, <2>4, WalkMoves
<1>8. CASE empty
  <2>2. ASSUME ~Members, c = 0 PROVE Params \subseteq Gone
    <3>1. \A d \in Params : Parent(d) = WalkOf(n) /\ d \in Dies
      BY <1>1, <1>3, <2>2, GoneIs
    <3> QED
      BY <1>3, <1>5, <2>2, <3>1, ChildIsFirst
  <2>3. CASE c = 0 /\ WalkEnds(w, "OK")
    BY <1>1, <2>2, <2>3, WalkEndsPreserves
  <2>4. CASE WalkEnds(w, "ERROR")
    BY <1>1, <2>4, WalkEndsPreserves
  <2> QED
    BY <1>8, <2>3, <2>4
<1>9. CASE next
  <2>1. WalkCur(n) \in Dies /\ Parent(WalkCur(n)) = WalkOf(n) /\ s \in Later(WalkCur(n))
    BY <1>3, <1>4, <1>5, <1>9, SiblingIsNext DEF WalkIsRight
  <2>2. s \in Dies /\ s \in Nat /\ WalkCur(n) \in Nat /\ WalkCur(n) < s /\ Parent(s) = WalkOf(n)
    BY <2>1, LaterIs
  <2>3. s # c
    <3>1. c \in Nat /\ c <= WalkCur(n)
      BY <1>3, <1>5, <1>6, <2>1, ChildIsFirst, DieNumbers
    <3> QED
      BY <2>2, <3>1
  <2> DEFINE y == Moved(w)
  <2>4. y \in Walks /\ y.of = WalkOf(n) /\ y.cur = s /\ y.next = s /\ y.handle = "live"
    BY <1>5, <2>2 DEF Walks, Moved
  <2>5. walks' = Append(Below, y) /\ step' = "tag"
    BY <1>9
  <2> HIDE DEF y
  <2>6. ~Members => \A d \in Params : d < s <=> d \in Gone
    BY <1>1, <1>3, <1>5, <1>9, SiblingIsInOrder
  <2>7. UNCHANGED <<tree, sub, cmd, calls, target, var_die, base, listed, live, faults>>
    BY <1>1, <1>9
  <2>8. s # 0 /\ step \in {"walk", "tag"}
    BY <1>1, <1>9
  <2> HIDE DEF next, tag, same
  <2> QED
    BY <1>3, <1>5, <2>2, <2>3, <2>4, <2>5, <2>6, <2>7, <2>8, WalkMoves
<1>10. CASE stop
  <2>2. ASSUME ~Members, s = 0 PROVE Params \subseteq Gone
    BY <1>1, <1>3, <1>5, <1>10, <2>2, SiblingIsInOrder
  <2>3. CASE s = 0 /\ WalkEnds(Stopped(w), "OK")
    BY <1>1, <2>2, <2>3, WalkEndsPreserves
  <2>4. CASE WalkEnds(Stopped(w), "ERROR")
    BY <1>1, <2>4, WalkEndsPreserves
  <2> QED
    BY <1>10, <2>3, <2>4
<1> HIDE DEF first, empty, next, stop
<1> QED
  BY <1>1, <1>7, <1>8, <1>9, <1>10

LEMMA WalkTagPreserves == ASSUME VarInv, WalkTag PROVE VarInv'
<1> SUFFICES ASSUME NEW n, n = Walking, NEW w, w = top, NEW s, s = dwarf_siblingof_c(w.cur)
             PROVE  VarInv'
  OBVIOUS
<1> DEFINE same == UNCHANGED <<tree, frames, at, sub, res, cmd, calls, target, var_die, base, listed>>
           found == tree[w.cur].tag = Wanted /\ step' = "item" /\ UNCHANGED <<walks, live, ret, out, faults>>
           next == /\ tree[w.cur].tag # Wanted /\ s # 0 /\ walks' = Append(Below, Moved(w))
                   /\ UNCHANGED <<step, live, ret, out, faults>>
           stop == tree[w.cur].tag # Wanted /\ \/ s = 0 /\ WalkEnds(Stopped(w), "OK")
                                               \/ WalkEnds(Stopped(w), "ERROR")
<1>1. step = "tag" /\ same /\ (WalkEnds(w, "ERROR") \/ found \/ next \/ stop)
  BY DEF WalkTag
<1>2. Printing
  BY <1>1 DEF Printing
<1>3. /\ PrintPhase /\ VarTypes /\ tree \in Trees /\ walks \in Seq(Walks) /\ n # 0 /\ Walking # 0
      /\ n \in 1 .. n /\ WalkIsRight(n)
      /\ ~Members => n = 1
  BY <1>1, <1>2, PrintIs DEF PrintPhase
<1>4. /\ w \in Walks /\ w.of = WalkOf(n) /\ w.cur = WalkCur(n) /\ w.next = WalkNext(n) /\ w.handle = Handle(n)
      /\ WalkOf(n) \in Dies /\ WalkCur(n) \in Dies /\ s = dwarf_siblingof_c(WalkCur(n))
      /\ Parent(WalkCur(n)) = WalkOf(n) /\ Handle(n) = "live" /\ WalkCur(n) # 0
      /\ (WalkNext(n) # 0 => WalkCur(n) # dwarf_child(WalkOf(n)))
  BY <1>1, <1>3, WalkTypes DEF WalkIsRight
<1>5. CASE WalkEnds(w, "ERROR")
  BY <1>1, <1>5, WalkEndsPreserves
<1>6. CASE found
  <2>1. /\ Walking' = n /\ WalkCur(1)' = WalkCur(1)
        /\ \A k : WalkOf(k)' = WalkOf(k) /\ WalkCur(k)' = WalkCur(k) /\ WalkNext(k)' = WalkNext(k)
                  /\ Handle(k)' = Handle(k)
    BY <1>6 DEF Walking, WalkOf, WalkCur, WalkNext, Handle
  <2>2. \A k \in 1 .. n : WalkIsRight(k) /\ WalkCur(k) # 0
    BY <1>1, <1>3 DEF PrintPhase, WalkIsRight
  <2>3. \A k \in 1 .. Walking' : WalkIsRight(k)'
    BY <1>1, <2>1, <2>2, KeptWalk
  <2>4. Gone' = Gone
    BY <1>1, <1>6, <2>1, SameDies DEF Gone, Params, ChildrenOf
  <2>6. Printing' /\ VarTypes'
    BY <1>1, <1>3, <1>6 DEF Printing, VarTypes
  <2>7. PrintPhase'
    BY <1>1, <1>2, <1>3, <1>6, <2>1, <2>3, <2>4, <2>6, PrintGoesOn
  <2> QED
    BY <1>6, <2>6, <2>7 DEF VarInv
<1>7. ~Members => Wanted = "param"
  BY DEF Wanted
<1>8. CASE next
  <2>1. s \in Later(WalkCur(n))
    BY <1>3, <1>4, <1>8, SiblingIsNext
  <2>2. s \in Dies /\ s \in Nat /\ WalkCur(n) \in Nat /\ WalkCur(n) < s /\ Parent(s) = WalkOf(n)
    BY <1>4, <2>1, LaterIs
  <2>3. s # dwarf_child(WalkOf(n))
    <3>1. dwarf_child(WalkOf(n)) \in Nat /\ dwarf_child(WalkOf(n)) <= WalkCur(n)
      BY <1>3, <1>4, ChildIsFirst, DieNumbers
    <3> QED
      BY <2>2, <3>1
  <2> DEFINE y == Moved(w)
  <2>4. y \in Walks /\ y.of = WalkOf(n) /\ y.cur = s /\ y.next = s /\ y.handle = "live"
    BY <1>4, <2>2 DEF Walks, Moved
  <2>5. walks' = Append(Below, y) /\ step' = "tag"
    BY <1>1, <1>8
  <2> HIDE DEF y
  <2>6. ~Members => \A d \in Params : d < s <=> d \in Gone
    BY <1>1, <1>3, <1>4, <1>7, <1>8, SiblingIsInOrder
  <2>7. UNCHANGED <<tree, sub, cmd, calls, target, var_die, base, listed, live, faults>>
    BY <1>1, <1>8
  <2>8. s # 0 /\ step \in {"walk", "tag"}
    BY <1>1, <1>8
  <2> HIDE DEF next, same
  <2> QED
    BY <1>3, <2>2, <2>3, <2>4, <2>5, <2>6, <2>7, <2>8, WalkMoves
<1>9. CASE stop
  <2>2. ASSUME ~Members, s = 0 PROVE Params \subseteq Gone
    BY <1>1, <1>3, <1>4, <1>7, <1>9, <2>2, SiblingIsInOrder
  <2>3. CASE s = 0 /\ WalkEnds(Stopped(w), "OK")
    BY <1>1, <2>2, <2>3, WalkEndsPreserves
  <2>4. CASE WalkEnds(Stopped(w), "ERROR")
    BY <1>1, <2>4, WalkEndsPreserves
  <2> QED
    BY <1>9, <2>3, <2>4
<1> HIDE DEF found, next, stop
<1> QED
  BY <1>1, <1>5, <1>6, <1>8, <1>9

(* The steps between two steps of a walk.                                  *)
LEMMA SameWalks ==
  ASSUME VarInv, step \in {"item", "type", "printed"}, walks' = walks, UNCHANGED <<tree, sub, cmd>>
  PROVE  /\ Walking' = Walking /\ WalkCur(1)' = WalkCur(1)
         /\ \A k \in 1 .. Walking' : WalkIsRight(k)'
<1>1. /\ Walking' = Walking
      /\ \A k : WalkOf(k)' = WalkOf(k) /\ WalkCur(k)' = WalkCur(k) /\ WalkNext(k)' = WalkNext(k)
                /\ Handle(k)' = Handle(k)
  BY DEF Walking, WalkOf, WalkCur, WalkNext, Handle
<1>2. Printing
  BY DEF Printing
<1>3. \A k \in 1 .. Walking : WalkIsRight(k) /\ WalkCur(k) # 0
  BY <1>2, PrintIs DEF WalkIsRight
<1> QED
  BY <1>1, <1>3, KeptWalk

LEMMA SameFaults ==
  ASSUME VarInv, Printing, UNCHANGED <<tree, sub, var_die, faults>>
  PROVE  "var" \in faults' => IsFirst(var_die)
BY PrintIs DEF PrintPhase

LEMMA PrintEndsBadly ==
  ASSUME VarInv, Printing, step' = "end", ret' # "OK", UNCHANGED <<tree, sub, var_die, faults>>, VarTypes'
  PROVE  VarInv'
BY SameFaults, EndsBadly DEF VarInv

LEMMA ParameterPreserves == ASSUME VarInv, Parameter PROVE VarInv'
<1> DEFINE bad  == End("ERROR") /\ live' \subseteq live /\ walks' = <<>> /\ UNCHANGED <<target, listed>>
           good == /\ listed' = Append(listed, top.cur) /\ UNCHANGED <<live, walks>>
                   /\ (step' = "walk" /\ target' = target) \/ (step' = "type" /\ target' = top.cur)
<1>1. /\ step = "item" /\ ~Members /\ (bad \/ good) /\ base' = 0
      /\ UNCHANGED <<tree, frames, at, sub, res, cmd, calls, var_die, faults>>
  BY DEF Parameter
<1>2. Printing
  BY <1>1 DEF Printing
<1>3. /\ VarTypes /\ PrintPhase /\ tree \in Trees /\ walks \in Seq(Walks) /\ live \subseteq Dies
      /\ sub \in Holders /\ Walking # 0 /\ cmd.what = "params" /\ Walking = 1 /\ WalkOf(1) = sub
      /\ WalkIsRight(1)
  BY <1>1, <1>2, PrintIs DEF PrintPhase
<1>4. CASE bad
  <2>1. VarTypes' /\ step' = "end" /\ ret' # "OK"
    BY <1>1, <1>3, <1>4 DEF VarTypes, End
  <2> QED
    BY <1>1, <1>2, <2>1, PrintEndsBadly
<1>5. CASE good
  <2> SUFFICES ASSUME NEW c, c = WalkCur(1) PROVE VarInv'
    OBVIOUS
  <2>1. top.cur = c /\ c \in Dies \cup {0}
    BY <1>3, WalkTypes
  <2>2. c \in Dies /\ c \in Nat /\ Parent(c) = sub /\ tree[c].tag = "param"
    <3>1. c # 0 => Parent(c) = sub
      BY <1>3 DEF WalkIsRight
    <3>2. c # 0
      BY <1>1, <1>3 DEF WalkIsRight
    <3>3. tree[c].tag = "param"
      BY <1>1, <1>3, <2>1 DEF PrintPhase, Wanted
    <3> QED
      BY <2>1, <3>1, <3>2, <3>3, DieNumbers
  <2>3. c \in Params
    BY <2>2 DEF Params, ChildrenOf, Parent
  <2>4. listed \in Seq(Dies) /\ Names = Gone /\ InOrder(listed)
    BY <1>3 DEF VarTypes, PrintPhase
  <2>5. Gone = {d \in Params : d < c}
    BY <1>1, <1>3 DEF Gone
  <2>6. /\ listed' \in Seq(Dies) /\ Len(listed') = Len(listed) + 1
        /\ \A k \in 1 .. Len(listed) : listed'[k] = listed[k]
        /\ listed'[Len(listed) + 1] = c /\ Len(listed) \in Nat
    BY <1>5, <2>1, <2>2, <2>4, Push
  <2>7. \A k \in 1 .. Len(listed') : k \in 1 .. Len(listed) \/ k = Len(listed) + 1
    BY <2>6
  <2>8. \A k \in 1 .. Len(listed) : listed[k] < c /\ listed[k] \in Gone
    BY <2>4, <2>5 DEF Names
  <2>9. DOMAIN listed' = 1 .. Len(listed') /\ DOMAIN listed = 1 .. Len(listed)
    BY <2>4, <2>6
  <2>10. InOrder(listed)'
    <3>1. ASSUME NEW a \in 1 .. Len(listed'), NEW b \in 1 .. Len(listed'), a < b
          PROVE  listed'[a] < listed'[b]
      <4>1. a \in 1 .. Len(listed)
        BY <2>6, <3>1
      <4>2. CASE b \in 1 .. Len(listed)
        BY <2>4, <2>6, <2>9, <3>1, <4>1, <4>2 DEF InOrder
      <4>3. CASE b = Len(listed) + 1
        BY <2>6, <2>8, <4>1, <4>3
      <4> QED
        BY <2>7, <4>2, <4>3
    <3> QED
      BY <2>9, <3>1 DEF InOrder
  <2>11. Names' = Gone \cup {c}
    <3>1. ASSUME NEW d \in Names' PROVE d \in Gone \cup {c}
      <4>1. PICK k \in 1 .. Len(listed') : d = listed'[k]
        BY <2>9 DEF Names
      <4> QED
        BY <2>6, <2>7, <2>8, <4>1
    <3>2. ASSUME NEW d \in Gone \cup {c} PROVE d \in Names'
      <4>1. CASE d = c
        <5>1. Len(listed) + 1 \in DOMAIN listed'
          BY <2>6, <2>9
        <5> QED
          BY <2>6, <4>1, <5>1 DEF Names
      <4>2. CASE d \in Gone
        <5>1. PICK k \in 1 .. Len(listed) : d = listed[k]
          BY <2>4, <2>9, <4>2 DEF Names
        <5>2. k \in DOMAIN listed'
          BY <2>6, <2>9
        <5> QED
          BY <2>6, <5>1, <5>2 DEF Names
      <4> QED
        BY <3>2, <4>1, <4>2
    <3> QED
      BY <3>1, <3>2
  <2>12. Walking' = 1 /\ WalkCur(1)' = c /\ \A k \in 1 .. Walking' : WalkIsRight(k)'
    BY <1>1, <1>3, <1>5, SameWalks
  <2>13. Gone' = Gone \cup {c}
    <3>1. Params' = Params
      BY <1>1, SameDies DEF Params, ChildrenOf
    <3>2. step' \notin {"tag", "item"}
      BY <1>5
    <3>3. Gone' = {d \in Params : d < c \/ d = c}
      BY <2>12, <3>1, <3>2 DEF Gone
    <3> QED
      BY <2>3, <2>5, <3>3
  <2>15. PrintPhase'
    BY <1>1, <1>3, <1>5, <2>10, <2>11, <2>12, <2>13, SameDies DEF PrintPhase
  <2>16. target' \in Dies \cup {0} /\ (step' = "type" => target' # 0)
    BY <1>3, <1>5, <2>1, <2>2, DieNumbers DEF VarTypes
  <2>17. VarTypes' /\ step' \in {"walk", "type"}
    BY <1>1, <1>3, <1>5, <2>6, <2>16 DEF VarTypes
  <2> QED
    BY <2>15, <2>17 DEF VarInv
<1> HIDE DEF bad, good
<1> QED
  BY <1>1, <1>4, <1>5

(* The steps of Member, Type and Printed that leave the walks as they are. *)
LEMMA WalksStay ==
  ASSUME VarInv, step \in {"item", "type", "printed"}, step = "item" => Members,
         step' \in {"walk", "type", "printed"}, step' = "walk" => walks # <<>>,
         UNCHANGED <<tree, sub, cmd, var_die, live, listed, faults, walks>>, VarTypes'
  PROVE  VarInv'
<1>1. Printing /\ Printing'
  BY DEF Printing
<1>2. /\ Walking' = Walking /\ WalkCur(1)' = WalkCur(1)
      /\ \A k \in 1 .. Walking' : WalkIsRight(k)'
  BY SameWalks
<1>3. cmd.what = "params" => Walking # 0 /\ (step = "item" => Walking > 1)
  BY <1>1, PrintIs DEF PrintPhase
<1>4. walks # <<>> => Walking # 0
  BY <1>1, PrintIs, WalkTypes
<1>5. cmd.what = "params" => Gone' = Gone
  BY <1>2, <1>3, GoneStays
<1>7. step' # "item" /\ (step' \in {"walk", "tag", "item"} \/ cmd.what = "params" => Walking' # 0)
  BY <1>2, <1>3, <1>4
<1>8. PrintPhase'
  BY <1>1, <1>2, <1>5, <1>7, PrintGoesOn
<1> QED
  BY <1>8 DEF VarInv

LEMMA WriteIs ==
  ASSUME NEW t, NEW s, Write(t, s)
  PROVE  (step' = "end" /\ ret' # "OK") \/ step' = s
BY DEF Write, End

LEMMA MemberPreserves == ASSUME VarInv, Member PROVE VarInv'
<1> SUFFICES ASSUME NEW d, d = top.cur PROVE VarInv'
  OBVIOUS
<1> DEFINE next  == \/ step' = "end" /\ ret' # "OK"
                    \/ step' = "type"
           close == (step' = "end" /\ ret' # "OK") \/ step' = "printed"
           on    == base' \in MemberAddress(top.base, d) /\ target' = d /\ next /\ UNCHANGED walks
           left  == close /\ walks' = Below /\ UNCHANGED <<target, base>>
           crash == End("crash") /\ UNCHANGED <<walks, target, base>>
<1>1. /\ step = "item" /\ Members /\ (on \/ left \/ crash)
      /\ UNCHANGED <<tree, frames, at, live, sub, res, cmd, calls, var_die, listed, faults>>
  <2>1. /\ step = "item" /\ Members
        /\ UNCHANGED <<tree, frames, at, live, sub, res, cmd, calls, var_die, listed, faults>>
        /\ \/ Prints("ERROR") /\ walks' = Below /\ UNCHANGED <<target, base>>
           \/ \E a \in MemberAddress(top.base, d) :
                base' = a /\ target' = d /\ Write(Name(d), "type") /\ UNCHANGED walks
           \/ Write(Name(d), "printed") /\ walks' = Below /\ UNCHANGED <<target, base>>
           \/ crash
    BY DEF Member
  <2>2. CASE Prints("ERROR") /\ walks' = Below /\ UNCHANGED <<target, base>>
    BY <2>1, <2>2 DEF Prints
  <2>3. CASE \E a \in MemberAddress(top.base, d) :
               base' = a /\ target' = d /\ Write(Name(d), "type") /\ UNCHANGED walks
    <3>1. PICK a \in MemberAddress(top.base, d) :
               base' = a /\ target' = d /\ Write(Name(d), "type") /\ UNCHANGED walks
      BY <2>3
    <3>2. next
      BY <3>1, WriteIs
    <3> HIDE DEF next
    <3>3. on
      BY <3>1, <3>2
    <3> QED
      BY <2>1, <3>3
  <2>4. CASE Write(Name(d), "printed") /\ walks' = Below /\ UNCHANGED <<target, base>>
    <3>1. close
      BY <2>4, WriteIs
    <3> HIDE DEF close
    <3>2. left
      BY <2>4, <3>1
    <3> QED
      BY <2>1, <3>2
  <2> HIDE DEF on, left
  <2> QED
    BY <2>1, <2>2, <2>3, <2>4
<1>2. Printing
  BY <1>1 DEF Printing
<1>3. /\ VarTypes /\ walks \in Seq(Walks) /\ tree \in Trees /\ Walking # 0 /\ WalkIsRight(Walking) /\ walks # <<>>
  BY <1>1, <1>2, PrintIs, WalkTypes DEF PrintPhase
<1>4. top \in Walks /\ d = WalkCur(Walking) /\ Walking \in 1 .. Walking
  BY <1>2, <1>3, PrintIs, WalkTypes
<1>5. d \in Dies
  <2>1. d # 0
    BY <1>1, <1>3, <1>4 DEF WalkIsRight
  <2> QED
    BY <1>4, <2>1 DEF Walks
<1>6. MemberAddress(top.base, d) \subseteq Nat
  <2>1. top.base \in Nat
    BY <1>4 DEF Walks
  <2>2. tree[d].offset \in Nat
    BY <1>3, <1>5, TreesAssumption DEF Die
  <2>3. top.base + tree[d].offset \in Nat /\ top.base + 1 \in Nat
    BY <2>1, <2>2
  <2> QED
    BY <2>1, <2>3 DEF MemberAddress
<1>7. base' \in Nat /\ target' \in Dies \cup {0} /\ (step' = "type" => target' # 0)
  BY <1>1, <1>3, <1>5, <1>6, DieNumbers DEF VarTypes, End
<1>8. walks' \in Seq(Walks)
  BY <1>1, <1>3, PoppedWalks
<1>9. step' \in {"end", "type", "printed"} => VarTypes'
  BY <1>1, <1>3, <1>7, <1>8 DEF VarTypes
<1>10. CASE on
  BY <1>1, <1>2, <1>9, <1>10, WalksStay, PrintEndsBadly
<1>11. CASE left
  <2>1. CASE step' = "printed"
    <3>2. PrintPhase'
      BY <1>1, <1>2, <1>11, <2>1, StructIsLeft
    <3> QED
      BY <1>9, <2>1, <3>2 DEF VarInv
  <2> QED
    BY <1>1, <1>2, <1>9, <1>11, <2>1, PrintEndsBadly
<1>12. CASE crash
  BY <1>1, <1>2, <1>9, <1>12, PrintEndsBadly DEF End
<1> HIDE DEF on, left, crash
<1> QED
  BY <1>1, <1>10, <1>11, <1>12

LEMMA TypePreserves == ASSUME VarInv, Type PROVE VarInv'
<1> SUFFICES ASSUME NEW t, t = tree[target].type PROVE VarInv'
  OBVIOUS
<1> DEFINE ends == step' = "end" /\ ret' # "OK"
           stay == step' \in {"type", "printed"} /\ walks' = walks /\ (target' = target \/ (t # 0 /\ target' = t))
           goes == /\ step' = "walk" /\ t # 0 /\ tree[t].tag = "struct"
                   /\ walks' = Append(walks, Walk(t, base)) /\ UNCHANGED target
           over == ends /\ UNCHANGED target
                   /\ (walks' = walks \/ (t # 0 /\ walks' = Append(walks, Walk(t, base))))
<1>1. /\ step = "type" /\ (stay \/ goes \/ over)
      /\ UNCHANGED <<tree, frames, at, live, sub, res, cmd, calls, var_die, base, listed, faults>>
  <2>1. /\ step = "type"
        /\ UNCHANGED <<tree, frames, at, live, sub, res, cmd, calls, var_die, base, listed, faults>>
        /\ \/ step' = "printed" /\ UNCHANGED <<target, walks>>
           \/ t # 0 /\ target' = t /\ UNCHANGED <<step, walks>>
           \/ \E x : Write(x, "printed") /\ UNCHANGED <<target, walks>>
           \/ /\ t # 0 /\ tree[t].tag = "struct" /\ walks' = Append(walks, Walk(t, base)) /\ UNCHANGED target
              /\ \E x : Write(x, "walk")
    BY DEF Type, Prints
  <2>2. \A x, s : Write(x, s) => ends \/ step' = s
    BY WriteIs
  <2> QED
    BY <2>1, <2>2
<1>2. Printing
  BY <1>1 DEF Printing
<1>3. /\ VarTypes /\ PrintPhase /\ walks \in Seq(Walks) /\ tree \in Trees /\ live \subseteq Dies
      /\ target \in Dies \cup {0} /\ base \in Nat
  BY <1>2, PrintIs DEF VarTypes
<1>4. t # 0 => t \in Dies /\ Walk(t, base) \in Walks
  <2>1. t \in Dies \cup {0}
    BY <1>1, <1>3, DieTypes DEF VarTypes
  <2> QED
    BY <1>3, <2>1 DEF Walk, Walks
<1>5. walks' \in Seq(Walks)
  BY <1>1, <1>3, <1>4, PushedWalks
<1>6. VarTypes'
  <2>1. target' \in Dies \cup {0} /\ (step' = "type" => target' # 0)
    BY <1>1, <1>3, <1>4 DEF VarTypes
  <2>2. step' \in {"walk", "type", "printed", "end"}
    BY <1>1
  <2> QED
    BY <1>1, <1>3, <1>5, <2>1, <2>2 DEF VarTypes
<1>7. CASE stay
  BY <1>1, <1>6, <1>7, WalksStay
<1>8. CASE over
  BY <1>1, <1>2, <1>6, <1>8, PrintEndsBadly
<1>9. CASE goes
  <2> SUFFICES ASSUME NEW n, n = Walking, NEW w, w = Walk(t, base) PROVE VarInv'
    OBVIOUS
  <2>1. w \in Walks /\ w.of = t /\ w.cur = 0 /\ w.next = 0 /\ w.handle = "null"
    BY <1>4, <1>9 DEF Walk
  <2>2. /\ n \in Nat /\ (cmd.what = "params" => n # 0)
        /\ \A k \in 1 .. n : WalkIsRight(k) /\ WalkCur(k) # 0
    <3>1. n \in Nat /\ (cmd.what = "params" => n # 0) /\ \A k \in 1 .. n : WalkIsRight(k)
      BY <1>2, <1>3, WalkTypes DEF PrintPhase
    <3> QED
      BY <1>1, <3>1 DEF WalkIsRight
  <2>3. /\ Walking' = n + 1
        /\ \A k \in 1 .. n : /\ WalkOf(k)' = WalkOf(k) /\ WalkCur(k)' = WalkCur(k)
                             /\ WalkNext(k)' = WalkNext(k) /\ Handle(k)' = Handle(k)
        /\ WalkOf(n + 1)' = t /\ WalkCur(n + 1)' = 0 /\ WalkNext(n + 1)' = 0 /\ Handle(n + 1)' = "null"
    BY <1>3, <1>9, <2>1, PushedWalks
  <2>4. WalkIsRight(n + 1)'
    <3>1. ~(cmd'.what = "params" /\ n + 1 = 1)
      BY <1>1, <2>2
    <3> QED
      BY <1>1, <1>9, <2>3, <3>1 DEF WalkIsRight
  <2>5. \A k \in 1 .. Walking' : WalkIsRight(k)'
    <3>1. \A k \in 1 .. n + 1 : k \in 1 .. n \/ k = n + 1
      BY <2>2
    <3> QED
      BY <1>1, <2>2, <2>3, <2>4, <3>1, KeptWalk
  <2>6. cmd.what = "params" => Gone' = Gone
    <3>1. cmd.what = "params" => WalkCur(1)' = WalkCur(1) /\ Walking' > 1
      <4>1. cmd.what = "params" => 1 \in 1 .. n /\ n + 1 > 1
        BY <2>2
      <4> QED
        BY <2>3, <4>1
    <3> QED
      BY <1>1, <3>1, GoneStays
  <2>7. Walking' # 0 /\ step' = "walk" /\ Printing'
    BY <1>9, <2>2, <2>3 DEF Printing
  <2>9. PrintPhase'
    BY <1>1, <1>2, <2>5, <2>6, <2>7, PrintGoesOn
  <2> QED
    BY <1>6, <2>7, <2>9 DEF VarInv
<1> HIDE DEF stay, goes, over
<1> QED
  BY <1>1, <1>7, <1>8, <1>9

LEMMA PrintedPreserves == ASSUME VarInv, Printed PROVE VarInv'
<1> DEFINE left == Members /\ walks' = Below /\ UNCHANGED <<step, live, faults>>
           next == walks # <<>> /\ step' = "walk" /\ UNCHANGED <<walks, live, faults>>
           ends == /\ walks = <<>> /\ step' = "end" /\ live' = live \ {var_die} /\ UNCHANGED walks
                   /\ faults' = IF var_die \in live THEN faults ELSE faults \cup {"var"}
<1>1. /\ step = "printed" /\ (left \/ next \/ ends)
      /\ UNCHANGED <<tree, frames, at, sub, res, cmd, calls, target, var_die, base, out, listed>>
  BY DEF Printed, End
<1>2. Printing
  BY <1>1 DEF Printing
<1>3. /\ VarTypes /\ PrintPhase /\ walks \in Seq(Walks) /\ live \subseteq Dies /\ sub \in Holders
      /\ cmd.what \in {"local", "params"}
  BY <1>2, PrintIs
<1>4. CASE left
  <2>1. step' = "printed"
    BY <1>1, <1>4
  <2>2. PrintPhase' /\ walks' \in Seq(Walks)
    BY <1>1, <1>2, <1>4, <2>1, StructIsLeft
  <2>3. VarTypes'
    BY <1>1, <1>3, <1>4, <2>1, <2>2 DEF VarTypes
  <2> QED
    BY <2>1, <2>2, <2>3 DEF VarInv
<1>5. CASE next
  <2>1. VarTypes'
    BY <1>1, <1>3, <1>5 DEF VarTypes
  <2> QED
    BY <1>1, <1>5, <2>1, WalksStay
<1>6. CASE ends
  <2>1. VarTypes'
    BY <1>1, <1>3, <1>6 DEF VarTypes
  <2>2. cmd.what = "local"
    <3>1. Walking = 0
      BY <1>3, <1>6, WalkTypes
    <3> QED
      BY <1>3, <3>1 DEF PrintPhase
  <2>3. /\ live \subseteq (Holders \ {sub}) \cup {var_die} /\ HandleIsRight
        /\ "var" \in faults <=> IsFirst(var_die)
    BY <1>3, <2>2 DEF PrintPhase
  <2>4. "var" \in faults' <=> IsFirst(var_die)
    BY <1>6, <2>3 DEF HandleIsRight
  <2>5. IsFirst(var_die)' <=> IsFirst(var_die)
    BY <1>1, SameDies DEF IsFirst, IsNamed, dwarf_child
  <2>7. DanglesIfFirst' /\ ParametersAreListed'
    BY <1>1, <2>2, <2>4, <2>5 DEF DanglesIfFirst, ParametersAreListed
  <2>8. sub' \in Holders' /\ live' \subseteq Holders' \ {sub'}
    BY <1>1, <1>3, <1>6, <2>3, SameDies
  <2>9. EndPhase'
    BY <2>7, <2>8 DEF EndPhase
  <2> QED
    BY <1>6, <2>1, <2>9 DEF VarInv
<1> HIDE DEF left, next, ends
<1> QED
  BY <1>1, <1>4, <1>5, <1>6

-----------------------------------------------------------------------------
(* The invariant holds at the beginning and in every step.                 *)
LEMMA VarInvInit == Init => VarInv
<1> SUFFICES ASSUME Init PROVE VarInv
  OBVIOUS
<1>1. PICK c \in Commands : cmd = [how |-> c.how, what |-> c.what, name |-> c.name] /\ tree = c.tree
  BY DEF Init
<1>2. tree \in Trees /\ cmd.what \in {"local", "params", "other"}
  BY <1>1, CommandsAssumption
<1>3. /\ step = "search" /\ calls = <<>> /\ walks = <<>> /\ target = 0 /\ var_die = 0 /\ base = 0
      /\ listed = <<>> /\ faults = {} /\ SearchInit
  BY DEF Init
<1>4. SearchInv /\ at = "call"
  BY <1>2, <1>3, SearchInvInit DEF SearchInit
<1>5. VarTypes
  BY <1>2, <1>3, <1>4 DEF VarTypes, SearchInit
<1>6. SearchPhase
  BY <1>3, <1>4 DEF SearchPhase
<1> QED
  BY <1>3, <1>5, <1>6 DEF VarInv

LEMMA VarInvStutter == ASSUME VarInv, UNCHANGED vars PROVE VarInv'
<1>1. UNCHANGED <<tree, frames, at, live, sub, res, cmd, step, calls, target, ret, var_die, walks, base, out,
                  listed, faults>>
  BY DEF vars, searchVars, varVars
<1>2. VarTypes' <=> VarTypes
  BY <1>1 DEF VarTypes
<1>3. SearchPhase' <=> SearchPhase
  BY <1>1 DEF SearchPhase, SearchInv, SearchTypeOK, Over, Underway, CallsNest, InDocumentOrder, NotYetVisited,
              AnswerIsKept, HandlesAreHeld, TopLevelIsSeen, Held, Passed, Level, Cur, Nxt, Parent, Later,
              Holders, Finished
<1>4. LookupPhase' <=> LookupPhase
  BY <1>1 DEF LookupPhase, BlocksNest, HandleIsRight, Pending, Decided, Known, Deep, Block, Child, Sib, Act,
              Holders, Parent, dwarf_child, IsFirst, IsNamed
<1>5. PrintPhase' <=> PrintPhase
  BY <1>1 DEF PrintPhase, WalkIsRight, Walking, WalkOf, WalkCur, WalkNext, Handle, Gone, Params, Names,
              HandleIsRight, ChildrenOf, InOrder, Wanted, Members, top,
              Holders, Parent, dwarf_child, IsFirst, IsNamed
<1>6. EndPhase' <=> EndPhase
  BY <1>1 DEF EndPhase, DanglesIfFirst, ParametersAreListed, ChildrenOf, InOrder, Holders, dwarf_child, IsFirst, IsNamed
<1> QED
  BY <1>1, <1>2, <1>3, <1>4, <1>5, <1>6 DEF VarInv

(* The invariant in every state.                                           *)
THEOREM VarInvariant == Spec => []VarInv
<1>1. VarInv /\ [Next]_vars => VarInv'
  BY OptionPreserves, SearchStepPreserves, FramePreserves, CallPreserves, ReturnPreserves, SiblingCallPreserves,
     FoundPreserves, WalkOnPreserves, WalkTagPreserves, ParameterPreserves, MemberPreserves, TypePreserves,
     PrintedPreserves, VarInvStutter DEF Next, Var
<1> QED
  BY VarInvInit, <1>1, PTL DEF Spec

(* The answer of the search is a subprogram that contains the pc, its      *)
(* handle may still be used, and no subprogram directly below the unit is  *)
(* missed: get_sub_prog_die_in_die_from_addr, in every tree.               *)
THEOREM SubprogramCorrect == Spec => []SubprogramIsUsable
<1>1. VarInv => SubprogramIsUsable
  <2> SUFFICES ASSUME VarInv, step = "search", at = "done", Over
               PROVE  AnswerIsUsable /\ TopLevelIsFound
    BY DEF VarInv, SearchPhase, SearchInv, SubprogramIsUsable, AnswerIsUsable, TopLevelIsFound, Finished
  <2> QED
    BY DEF Over, AnswerIsUsable, TopLevelIsFound, Parent
<1> QED
  BY VarInvariant, <1>1, PTL

(* A command that succeeds has given back the handles of the subprogram,   *)
(* of the blocks and of the variable, if at most one subprogram contains   *)
(* the pc: handle_get_local_var and handle_param_var free what             *)
(* get_sub_prog_die_from_addr and get_local_var_from_name leave them.      *)
THEOREM HandlesCorrect == Spec => []HandlesAreReturned
<1>1. VarInv => HandlesAreReturned
  BY DEF VarInv, EndPhase, HandlesAreReturned
<1> QED
  BY VarInvariant, <1>1, PTL

(* The variable's handle is dead when it is used exactly if the variable   *)
(* is the first child of its block: get_local_var_from_name's first call.  *)
THEOREM DanglesCorrect == Spec => []DanglesIfFirst
<1>1. VarInv => DanglesIfFirst
  <2> SUFFICES ASSUME VarInv PROVE DanglesIfFirst
    OBVIOUS
  <2>1. step \in {"search", "call", "return", "sibling"} => faults = {} /\ step # "end"
    BY DEF VarInv, SearchPhase, LookupPhase
  <2>2. Printing => ("var" \in faults => IsFirst(var_die)) /\ step # "end"
    BY PrintIs DEF PrintPhase, Printing
  <2>3. step = "end" => DanglesIfFirst
    BY DEF VarInv, EndPhase
  <2> QED
    BY <2>1, <2>2, <2>3 DEF VarInv, VarTypes, Printing, DanglesIfFirst
<1> QED
  BY VarInvariant, <1>1, PTL

(* A walk that has not moved in this call is at the first die: the handle  *)
(* that is left over in next_die says which.                               *)
NextIsRight == step = "tag" /\ top.next = 0 => top.cur = dwarf_child(top.of)

(* The walk has come to its next die.                                      *)
LEMMA NextIsRightAt ==
  ASSUME walks \in Seq(Walks), walks # <<>>, NEW w \in Walks, walks' = Append(Below, w), UNCHANGED tree,
         w.next = 0 => w.cur = dwarf_child(w.of)
  PROVE  NextIsRight'
<1>1. walks' = Append(Front(walks), w)
  BY DEF Below, Front
<1>2. Len(walks') = Len(walks) /\ walks'[Len(walks)] = w
  BY <1>1, Replace
<1>3. top' = w
  BY <1>2 DEF top
<1> QED
  BY <1>3, SameDies DEF NextIsRight, dwarf_child

LEMMA NextIsRightKept == ASSUME VarInv, NextIsRight, [Next]_vars PROVE NextIsRight'
<1> SUFFICES ASSUME step' = "tag" PROVE NextIsRight'
  BY DEF NextIsRight
<1>1. step \in {"walk", "tag"} => /\ walks \in Seq(Walks) /\ walks # <<>> /\ top \in Walks
  BY PrintIs, WalkTypes DEF Printing, PrintPhase
<1>2. \A w, r : ~WalkEnds(w, r)
  BY DEF WalkEnds, Write, End
<1>3. CASE WalkOn
  <2>1. PICK w : w = [top EXCEPT !.next = 0]
    OBVIOUS
  <2>2. step = "walk" /\ UNCHANGED tree /\ w \in Walks /\ w.next = 0
    BY <1>1, <1>3, <2>1, DieNumbers DEF WalkOn, Walks
  <2>3. CASE dwarf_child(w.of) # 0 /\ walks' = Append(Below, [w EXCEPT !.cur = dwarf_child(w.of), !.handle = "live"])
    <3> DEFINE x == [w EXCEPT !.cur = dwarf_child(w.of), !.handle = "live"]
    <3>1. dwarf_child(w.of) \in Dies
      BY <1>1, <2>2, <2>3, ChildIsFirst DEF Walks, VarInv, VarTypes
    <3>2. x \in Walks /\ x.cur = dwarf_child(x.of)
      BY <2>2, <3>1 DEF Walks
    <3> HIDE DEF x
    <3>3. walks' = Append(Below, x)
      BY <2>3 DEF x
    <3> QED
      BY <1>1, <2>2, <3>2, <3>3, NextIsRightAt
  <2>4. CASE w.cur # 0 /\ dwarf_siblingof_c(w.cur) # 0 /\ walks' = Append(Below, Moved(w))
    <3>1. dwarf_siblingof_c(w.cur) \in Dies
      BY <1>1, <2>2, <2>4, SiblingIsNext DEF Walks, VarInv, VarTypes, Later
    <3>2. Moved(w) \in Walks /\ Moved(w).next # 0
      BY <2>2, <2>4, <3>1 DEF Moved, Walks
    <3> QED
      BY <1>1, <2>2, <2>4, <3>2, NextIsRightAt
  <2> QED
    BY <1>2, <1>3, <2>1, <2>3, <2>4 DEF WalkOn
<1>4. CASE WalkTag
  <2>1. step = "tag" /\ UNCHANGED tree /\ top \in Walks
    BY <1>1, <1>4 DEF WalkTag
  <2>2. /\ dwarf_siblingof_c(top.cur) # 0 /\ walks' = Append(Below, Moved(top))
    BY <1>2, <1>4 DEF WalkTag
  <2>3. top.cur \in Dies
    BY <2>1, PrintIs, WalkTypes DEF Printing, PrintPhase, WalkIsRight
  <2>4. dwarf_siblingof_c(top.cur) \in Dies
    BY <2>2, <2>3, SiblingIsNext DEF VarInv, VarTypes, Later
  <2>5. Moved(top) \in Walks /\ Moved(top).next # 0
    BY <2>1, <2>2, <2>4 DEF Moved, Walks
  <2> QED
    BY <1>1, <2>1, <2>2, <2>5, NextIsRightAt
<1>5. CASE UNCHANGED vars
  BY <1>5 DEF NextIsRight, vars, searchVars, varVars, top, dwarf_child
<1>6. CASE \/ handle_var \/ FindSubprogram \/ FrameBase \/ get_local_var_from_name \/ AfterCall \/ NextSibling
           \/ Found \/ Parameter \/ Member \/ Type \/ Printed
  BY <1>6 DEF handle_var, FindSubprogram, varVars, FrameBase, get_local_var_from_name, AfterCall, NextSibling,
              Returns, Found, Parameter, Member, Type, Printed, Write, Prints, End
<1> QED
  BY <1>3, <1>4, <1>5, <1>6 DEF Next, Var

(* A walk that has ended is one shorter than one that has moved.           *)
LEMMA BelowIsShorter ==
  ASSUME walks \in Seq(Walks), walks # <<>>
  PROVE  Below # walks /\ \A w \in Walks : Below # Append(Below, w)
<1>1. Below \in Seq(Walks) /\ Len(Below) = Len(walks) - 1 /\ Len(walks) \in Nat
  BY Pop DEF Below, Front
<1>2. \A w \in Walks : Len(Append(Below, w)) = Len(Below) + 1
  BY <1>1
<1> QED
  BY <1>1, <1>2

(* What the end of a walk does to the faults.                              *)
LEMMA WalkEndIs ==
  ASSUME NEW w, NEW r, WalkEnds(w, r)
  PROVE  /\ "walk" \in faults' \ faults => w.handle = "freed"
         /\ w.handle = "freed" => "walk" \in faults'
         /\ r = "ERROR" => IsCutShort
BY DEF WalkEnds, IsCutShort, End

(* How a walk ends.                                                        *)
LEMMA WalkEndsAsItShould ==
  ASSUME VarInv, NextIsRight, WalkOn \/ WalkTag, WalkIsOver
  PROVE  WalkEndsRightly
<1> SUFFICES ASSUME NEW n, n = Walking PROVE WalkEndsRightly
  OBVIOUS
<1>1. /\ tree \in Trees /\ walks \in Seq(Walks) /\ n \in 1 .. n /\ n # 0 /\ WalkIsRight(n) /\ walks # <<>>
      /\ top \in Walks /\ top.of = WalkOf(n) /\ top.cur = WalkCur(n) /\ top.next = WalkNext(n)
      /\ top.handle = Handle(n) /\ WalkOf(n) \in Dies /\ WalkCur(n) \in Dies \cup {0}
  BY PrintIs, WalkTypes DEF Printing, PrintPhase, WalkIsOver
<1>3. CASE WalkOn
  <2>1. PICK w : w = [top EXCEPT !.next = 0]
    OBVIOUS
  <2>2. w.next = 0 /\ (w.cur = 0 => w.handle = "null") /\ step = "walk"
    BY <1>1, <1>3, <2>1 DEF WalkIsRight, WalkOn, Walks
  <2>3. Stopped(w).handle = "null"
    BY <1>1, <2>1, <2>2 DEF Stopped, Walks
  <2>4. \/ UNCHANGED faults
        \/ \E r : (w.cur = 0 /\ WalkEnds(w, r)) \/ WalkEnds(Stopped(w), r)
    BY <1>3, <2>1 DEF WalkOn
  <2>5. "walk" \notin faults' \ faults
    BY <2>2, <2>3, <2>4, WalkEndIs
  <2> QED
    BY <2>2, <2>5 DEF WalkEndsRightly
<1>4. CASE WalkTag
  <2> DEFINE s == dwarf_siblingof_c(top.cur)
  <2>1. step = "tag" /\ WalkCur(n) # 0 /\ top.handle = "live" /\ Parent(top.cur) = top.of
    BY <1>1, <1>4 DEF WalkTag, WalkIsRight
  <2>2. s # 0 => Moved(top) \in Walks
    <3>1. s \in Dies \cup {0}
      BY <1>1, <2>1, SiblingIsNext DEF Later
    <3> QED
      BY <1>1, <3>1 DEF Moved, Walks
  <2>3. \/ WalkEnds(top, "ERROR")
        \/ tree[top.cur].tag # Wanted /\ s = 0 /\ WalkEnds(Stopped(top), "OK")
        \/ tree[top.cur].tag # Wanted /\ WalkEnds(Stopped(top), "ERROR")
    BY <1>1, <1>4, <2>2, BelowIsShorter DEF WalkTag, WalkIsOver
  <2>4. Stopped(top).handle = "freed" <=> top.next # 0
    BY <1>1 DEF Stopped, Walks
  <2>5. top.next # 0 <=> top.cur # dwarf_child(top.of)
    BY <1>1, <2>1 DEF WalkIsRight, NextIsRight
  <2>6. top.cur \in ChildrenOf(top.of)
    BY <1>1, <2>1 DEF ChildrenOf, Parent
  <2>7. CASE WalkEnds(top, "ERROR")
    <3>1. "walk" \notin faults' \ faults /\ IsCutShort
      BY <2>1, <2>7, WalkEndIs
    <3> QED
      BY <3>1 DEF WalkEndsRightly
  <2>8. CASE tree[top.cur].tag # Wanted /\ s = 0 /\ WalkEnds(Stopped(top), "OK")
    <3>1. /\ "walk" \in faults' \ faults => top.cur # dwarf_child(top.of)
          /\ top.cur # dwarf_child(top.of) => "walk" \in faults'
      BY <2>4, <2>5, <2>8, WalkEndIs
    <3>2. IsLast(top.cur) /\ (Trails(top.cur) <=> top.cur # dwarf_child(top.of))
      BY <2>6, <2>8 DEF IsLast, Trails
    <3> QED
      BY <3>1, <3>2 DEF WalkEndsRightly
  <2>9. CASE tree[top.cur].tag # Wanted /\ WalkEnds(Stopped(top), "ERROR")
    <3>1. IsCutShort /\ ("walk" \in faults' \ faults => top.cur # dwarf_child(top.of))
      BY <2>4, <2>5, <2>9, WalkEndIs
    <3>2. Trails(top.cur) <=> top.cur # dwarf_child(top.of)
      BY <2>6, <2>9 DEF Trails
    <3> QED
      BY <3>1, <3>2 DEF WalkEndsRightly
  <2> QED
    BY <2>3, <2>7, <2>8, <2>9
<1> QED
  BY <1>3, <1>4

(* get_formal_params and get_data_members give a handle back twice exactly *)
(* where the list that they walk ends in a die that is not looked for and  *)
(* is not the first, or is cut short at one.                               *)
THEOREM FreedTwiceCorrect == Spec => FreedTwiceIfTrailing
<1>1. Init => NextIsRight
  BY DEF Init, NextIsRight
<1>2. VarInv /\ NextIsRight /\ [Next]_vars => NextIsRight'
  BY NextIsRightKept
<1>3. VarInv /\ NextIsRight /\ [Next]_vars => [WalkIsOver => WalkEndsRightly]_vars
  <2> SUFFICES ASSUME VarInv, NextIsRight, Next, WalkIsOver PROVE WalkEndsRightly
    OBVIOUS
  <2>1. step \in {"walk", "tag"}
    BY DEF WalkIsOver
  <2>2. WalkOn \/ WalkTag
    BY <2>1 DEF Next, Var, handle_var, FindSubprogram, FrameBase, get_local_var_from_name, AfterCall, NextSibling,
                Found, Parameter, Member, Type, Printed
  <2> QED
    BY <2>2, WalkEndsAsItShould
<1> QED
  BY VarInvariant, <1>1, <1>2, <1>3, PTL DEF Spec, FreedTwiceIfTrailing

(* handle_param_var names every parameter of the subprogram, once and in   *)
(* order, for every tree.                                                  *)
THEOREM ListingCorrect == Spec => []ParametersAreListed
<1>1. VarInv => ParametersAreListed
  BY DEF VarInv, EndPhase, ParametersAreListed
<1> QED
  BY VarInvariant, <1>1, PTL
-----------------------------------------------------------------------------
(***************************************************************************)
(* The search finds the first visible variable.  Above[d] are d and the    *)
(* dies around it; whatever satisfies its recursion has the order of the   *)
(* document: a die's descendants come before its later siblings.           *)
(***************************************************************************)
AboveIs(A) == A = [d \in Dies |-> IF Parent(d) = 0 THEN {d} ELSE {d} \cup A[Parent(d)]]

LEMMA AboveEquation ==
  ASSUME tree \in Trees, NEW d \in Dies
  PROVE  Above[d] = IF Parent(d) = 0 THEN {d} ELSE {d} \cup Above[Parent(d)]
<1> DEFINE Closed(S) == \A x \in S : Parent(x) # 0 => Parent(x) \in S
           Up(x) == {e \in Dies : \A S \in SUBSET Dies : x \in S /\ Closed(S) => e \in S}
           A == [x \in Dies |-> Up(x)]
<1>1. ASSUME NEW x \in Dies PROVE x \in Up(x)
  OBVIOUS
<1>2. ASSUME NEW x \in Dies, Parent(x) = 0 PROVE Up(x) = {x}
  <2>1. {x} \in SUBSET Dies /\ Closed({x})
    BY <1>2
  <2>2. \A e \in Up(x) : e \in {x}
    BY <2>1
  <2> QED
    BY <1>1, <2>2
<1>3. ASSUME NEW x \in Dies, Parent(x) # 0 PROVE Up(x) = {x} \cup Up(Parent(x))
  <2>1. Parent(x) \in Dies
    BY <1>3, DieTypes
  <2>2. PICK p \in Dies : p = Parent(x)
    BY <2>1
  <2> DEFINE S == {x} \cup Up(p)
  <2>3. S \in SUBSET Dies
    OBVIOUS
  <2>4. ASSUME NEW y \in S, Parent(y) # 0 PROVE Parent(y) \in S
    <3>1. CASE y = x
      BY <1>1, <2>2, <3>1
    <3>2. CASE y \in Up(p)
      <4>1. y \in Dies /\ Parent(y) \in Dies
        BY <2>4, <3>2, DieTypes
      <4>2. ASSUME NEW Q \in SUBSET Dies, p \in Q, Closed(Q) PROVE Parent(y) \in Q
        <5>1. y \in Q
          BY <3>2, <4>2
        <5> QED
          BY <2>4, <4>2, <5>1
      <4>3. Parent(y) \in Up(p)
        BY <4>1, <4>2
      <4> QED
        BY <4>3
    <3> QED
      BY <3>1, <3>2
  <2>5. \A e \in Up(x) : e \in S
    <3>1. Closed(S)
      BY <2>4
    <3>2. x \in S
      OBVIOUS
    <3> HIDE DEF S, Closed
    <3> QED
      BY <2>3, <3>1, <3>2
  <2>6. ASSUME NEW e \in Up(p) PROVE e \in Up(x)
    <3>1. ASSUME NEW Q \in SUBSET Dies, x \in Q, Closed(Q) PROVE e \in Q
      <4>1. p \in Q
        BY <2>2, <3>1, DieNumbers
      <4> QED
        BY <2>6, <3>1, <4>1
    <3> QED
      BY <3>1
  <2> QED
    BY <1>1, <2>2, <2>5, <2>6
<1> HIDE DEF Up
<1>4. \A x \in Dies : A[x] = IF Parent(x) = 0 THEN {x} ELSE {x} \cup A[Parent(x)]
  <2> SUFFICES ASSUME NEW x \in Dies PROVE A[x] = IF Parent(x) = 0 THEN {x} ELSE {x} \cup A[Parent(x)]
    OBVIOUS
  <2>1. Parent(x) # 0 => Parent(x) \in Dies
    BY DieTypes
  <2> QED
    BY <1>2, <1>3, <2>1
<1>5. A = [x \in Dies |-> A[x]]
  OBVIOUS
<1> HIDE DEF A
<1>6. AboveIs(A)
  BY <1>4, <1>5 DEF AboveIs
<1>7. Above = CHOOSE B : AboveIs(B)
  BY DEF Above, AboveIs, Parent
<1>8. AboveIs(Above)
  <2> HIDE DEF AboveIs
  <2> QED
    BY <1>6, <1>7
<1> QED
  BY <1>8 DEF AboveIs

LEMMA AboveRises ==
  ASSUME tree \in Trees, NEW d \in Dies
  PROVE  d \in Above[d] /\ \A e \in Above[d] : e \in Dies /\ e <= d
<1>1. ASSUME NEW x \in Dies PROVE x \in Above[x]
  BY AboveEquation
<1> DEFINE Bad == {x \in Dies : ~ \A e \in Above[x] : e \in Dies /\ e <= x}
<1>2. CASE Bad = {}
  BY <1>1, <1>2
<1>3. CASE Bad # {}
  <2>1. Bad \subseteq Nat
    BY DieNumbers
  <2>2. PICK x \in Bad : \A y \in Bad : x <= y
    <3> HIDE DEF Bad
    <3> QED
      BY <1>3, <2>1, LeastNatural
  <2>3. x \in Dies /\ x \in Nat
    BY <2>1
  <2>4. PICK e \in Above[x] : ~(e \in Dies /\ e <= x)
    OBVIOUS
  <2>5. e # x
    BY <2>3, <2>4
  <2>6. Parent(x) # 0 /\ e \in Above[Parent(x)]
    BY <2>3, <2>5, AboveEquation
  <2>7. Parent(x) \in Dies /\ Parent(x) \in Nat /\ Parent(x) < x
    BY <2>3, <2>6, DieTypes
  <2>8. Parent(x) \notin Bad
    BY <2>2, <2>3, <2>7
  <2>9. e \in Dies /\ e <= Parent(x) /\ e \in Nat
    BY <2>6, <2>7, <2>8, DieNumbers
  <2> QED
    BY <2>3, <2>4, <2>7, <2>9
<1> QED
  BY <1>2, <1>3

(* Induction over the tree: a set that holds whatever holds of the parent. *)
LEMMA TreeInduction ==
  ASSUME tree \in Trees, NEW P, \A x \in Dies : (Parent(x) # 0 => Parent(x) \in P) => x \in P
  PROVE  Dies \subseteq P
<1> SUFFICES ASSUME {x \in Dies : x \notin P} # {} PROVE FALSE
  OBVIOUS
<1>1. {x \in Dies : x \notin P} \subseteq Nat
  BY DieNumbers
<1>2. PICK x \in {x \in Dies : x \notin P} : \A y \in {x_1 \in Dies : x_1 \notin P} : x <= y
  BY <1>1, LeastNatural
<1>3. Parent(x) # 0 => Parent(x) \in Dies /\ Parent(x) < x /\ Parent(x) \in Nat /\ x \in Nat
  BY <1>2, DieTypes
<1>4. Parent(x) # 0 => Parent(x) \in P
  BY <1>2, <1>3
<1> QED
  BY <1>2, <1>4

(* The dies below a die come one after the other in the document: between  *)
(* q and a die below it every die has a parent that is not before q, and   *)
(* so is below q too.                                                      *)
LEMMA ParentsBetween ==
  ASSUME tree \in Trees, NEW q \in Dies, NEW c \in Dies, q < c
  PROVE  \A d \in Dies : q \in Above[d] /\ c <= d => q <= Parent(c)
<1> DEFINE P == {d \in Dies : q \in Above[d] /\ c <= d => q <= Parent(c)}
<1>1. q \in Nat /\ c \in Nat /\ Parent(c) \in Nat
  BY DieTypes, DieNumbers
<1>2. ASSUME NEW x \in Dies, Parent(x) # 0 => Parent(x) \in P, q \in Above[x], c <= x
      PROVE  q <= Parent(c)
  <2>1. /\ x \in Nat /\ Parent(x) \in Nat /\ (Parent(x) # 0 => Parent(x) \in Dies)
        /\ \A e \in Dies : Parent(x) < e /\ e < x => Parent(e) >= Parent(x)
    BY <1>2, DieTypes
  <2>2. q # x
    BY <1>1, <1>2, <2>1
  <2>3. Parent(x) # 0 /\ q \in Above[Parent(x)]
    BY <1>2, <2>2, AboveEquation
  <2>4. q <= Parent(x)
    BY <2>1, <2>3, AboveRises
  <2>5. CASE c <= Parent(x)
    BY <1>2, <2>3, <2>5
  <2>6. CASE c = x
    BY <2>4, <2>6
  <2>7. CASE Parent(x) < c /\ c < x
    <3>1. Parent(x) <= Parent(c)
      BY <1>1, <2>1, <2>7
    <3> QED
      BY <1>1, <2>1, <2>4, <3>1
  <2> QED
    BY <1>1, <1>2, <2>1, <2>5, <2>6, <2>7
<1>3. \A x \in Dies : (Parent(x) # 0 => Parent(x) \in P) => x \in P
  BY <1>2
<1>4. Dies \subseteq P
  <2> HIDE DEF P
  <2> QED
    BY <1>3, TreeInduction
<1> QED
  BY <1>4

LEMMA BelowIsConnected ==
  ASSUME tree \in Trees, NEW q \in Dies, NEW d \in Dies, q \in Above[d]
  PROVE  \A c \in Dies : q <= c /\ c <= d => q \in Above[c]
<1> DEFINE P == {c \in Dies : q <= c /\ c <= d => q \in Above[c]}
<1>1. ASSUME NEW x \in Dies, Parent(x) # 0 => Parent(x) \in P, q <= x, x <= d
      PROVE  q \in Above[x]
  <2>1. /\ x \in Nat /\ q \in Nat \ {0} /\ d \in Nat /\ Parent(x) \in Nat /\ Parent(x) < x
        /\ (Parent(x) # 0 => Parent(x) \in Dies)
    BY DieTypes
  <2>2. CASE q = x
    BY <2>2, AboveRises
  <2>3. CASE q < x
    <3>1. q <= Parent(x) /\ Parent(x) # 0
      BY <1>1, <2>1, <2>3, ParentsBetween
    <3>2. Parent(x) <= d
      BY <1>1, <2>1
    <3>3. q \in Above[Parent(x)]
      BY <1>1, <3>1, <3>2
    <3> QED
      BY <3>1, <3>3, AboveEquation
  <2> QED
    BY <1>1, <2>1, <2>2, <2>3
<1>2. \A x \in Dies : (Parent(x) # 0 => Parent(x) \in P) => x \in P
  BY <1>1
<1>3. Dies \subseteq P
  <2> HIDE DEF P
  <2> QED
    BY <1>2, TreeInduction
<1> QED
  BY <1>3

(* The way from a die up to one around it ends with a child of that one.   *)
LEMMA ChildOnTheWay ==
  ASSUME tree \in Trees, NEW p \in Dies
  PROVE  \A d \in Dies : p \in Above[d] /\ d # p =>
           \E q \in Dies : Parent(q) = p /\ q \in Above[d] /\ q <= d
<1> DEFINE Way(d) == \E q \in Dies : Parent(q) = p /\ q \in Above[d] /\ q <= d
           P == {d \in Dies : p \in Above[d] /\ d # p => Way(d)}
<1>1. ASSUME NEW x \in Dies, Parent(x) # 0 => Parent(x) \in P, p \in Above[x], x # p
      PROVE  Way(x)
  <2>1. Parent(x) # 0 /\ p \in Above[Parent(x)]
    BY <1>1, AboveEquation
  <2>2. x \in Nat /\ Parent(x) \in Dies /\ Parent(x) \in Nat /\ Parent(x) < x
    BY <2>1, DieTypes
  <2>3. CASE Parent(x) = p
    BY <2>2, <2>3, AboveRises
  <2>4. CASE Parent(x) # p
    <3>1. PICK q \in Dies : Parent(q) = p /\ q \in Above[Parent(x)] /\ q <= Parent(x)
      BY <1>1, <2>1, <2>4
    <3>2. q \in Above[x] /\ q \in Nat
      BY <2>1, <3>1, AboveEquation, DieNumbers
    <3>3. q <= x
      BY <2>2, <3>1, <3>2
    <3> QED
      BY <3>1, <3>2, <3>3
  <2> QED
    BY <2>3, <2>4
<1> HIDE DEF Way
<1>2. \A x \in Dies : (Parent(x) # 0 => Parent(x) \in P) => x \in P
  BY <1>1
<1>3. Dies \subseteq P
  <2> HIDE DEF P
  <2> QED
    BY <1>2, TreeInduction
<1> QED
  BY <1>3 DEF Way

(* Of the children of p, only c is on the way from d up to p if d lies     *)
(* between c and the sibling after it.                                     *)
LEMMA WayIsThroughChild ==
  ASSUME tree \in Trees, NEW c \in Dies, NEW p \in Dies, Parent(c) = p,
         NEW d \in Dies, c < d, p \in Above[d], \A s \in Later(c) : d < s
  PROVE  c \in Above[d]
<1>1. c \in Nat /\ p \in Nat /\ d \in Nat /\ p < c /\ p # 0
  BY DieTypes
<1>2. PICK q \in Dies : Parent(q) = p /\ q \in Above[d] /\ q <= d
  BY <1>1, ChildOnTheWay
<1>3. q \in Nat /\ p < q
  BY <1>2, DieTypes
<1>4. ~ c < q
  BY <1>1, <1>2, <1>3 DEF Later
<1>5. ASSUME q < c PROVE FALSE
  <2>1. q \in Above[c]
    BY <1>1, <1>2, <1>3, <1>5, BelowIsConnected
  <2>2. Above[c] = {c} \cup Above[p]
    <3>1. Above[c] = IF Parent(c) = 0 THEN {c} ELSE {c} \cup Above[Parent(c)]
      BY AboveEquation
    <3> QED
      BY <1>1, <3>1
  <2>3. q # c
    BY <1>1, <1>3, <1>5
  <2>4. q \in Above[p]
    BY <2>1, <2>2, <2>3
  <2> QED
    BY <1>1, <1>3, <2>4, AboveRises
<1> QED
  BY <1>1, <1>2, <1>3, <1>4, <1>5

(* dwarf_siblingof_c and dwarf_child miss nothing: what comes after c and  *)
(* is not below it does not come before the next sibling, and if there is  *)
(* none it is not below the parent either; what is below t does not come   *)
(* before its first child.                                                 *)
LEMMA SiblingSkipsNothing ==
  ASSUME tree \in Trees, NEW c \in Dies, NEW p \in Dies, Parent(c) = p, NEW d \in Dies, c < d, c \notin Above[d]
  PROVE  /\ dwarf_siblingof_c(c) # 0 => dwarf_siblingof_c(c) <= d
         /\ dwarf_siblingof_c(c) = 0 => p < d /\ p \notin Above[d]
<1>1. c \in Nat /\ p \in Nat /\ d \in Nat /\ p < c
  BY DieTypes
<1>2. PICK s : s = dwarf_siblingof_c(c)
  OBVIOUS
<1>3. ASSUME s # 0, ~ s <= d PROVE FALSE
  <2>1. s \in Dies /\ Parent(s) = p /\ s \in Nat /\ \A e \in Later(c) : s <= e /\ e \in Nat
    BY <1>2, <1>3, SiblingIsNext, DieNumbers DEF Later
  <2>2. d < s /\ \A e \in Later(c) : d < e
    BY <1>1, <1>3, <2>1
  <2>3. p \in Above[s]
    BY <1>1, <2>1, AboveEquation, AboveRises, DieNumbers
  <2>4. p \in Above[d]
    BY <1>1, <2>1, <2>2, <2>3, BelowIsConnected
  <2> QED
    BY <2>2, <2>4, WayIsThroughChild
<1>4. ASSUME s = 0, p \in Above[d] PROVE FALSE
  <2>1. Later(c) = {}
    BY <1>2, <1>4, SiblingIsNext
  <2> QED
    BY <1>4, <2>1, WayIsThroughChild
<1> QED
  BY <1>1, <1>2, <1>3, <1>4

LEMMA ChildSkipsNothing ==
  ASSUME tree \in Trees, NEW t \in Dies, NEW d \in Dies, t < d
  PROVE  /\ dwarf_child(t) # 0 => dwarf_child(t) <= d
         /\ dwarf_child(t) = 0 => t \notin Above[d]
<1>1. t \in Nat /\ d \in Nat
  BY DieNumbers
<1>2. ASSUME t \in Above[d] PROVE dwarf_child(t) # 0 /\ dwarf_child(t) <= d
  <2>1. PICK q \in Dies : Parent(q) = t /\ q <= d
    BY <1>1, <1>2, ChildOnTheWay
  <2>2. dwarf_child(t) # 0 /\ dwarf_child(t) <= q /\ dwarf_child(t) \in Nat /\ q \in Nat
    BY <2>1, ChildIsFirst, DieNumbers
  <2> QED
    BY <1>1, <2>1, <2>2
<1>3. ASSUME dwarf_child(t) # 0, ~ dwarf_child(t) <= d PROVE FALSE
  <2>1. PICK c \in Dies : c = dwarf_child(t) /\ Parent(c) = t /\ c \in Nat
    BY <1>3, ChildIsFirst, DieNumbers
  <2>2. d < c
    BY <1>1, <1>3, <2>1
  <2>3. t \in Above[c]
    BY <2>1, AboveEquation, AboveRises, DieNumbers
  <2>4. t \in Above[d]
    BY <1>1, <2>1, <2>2, <2>3, BelowIsConnected
  <2> QED
    BY <1>2, <1>3, <2>4
<1> QED
  BY <1>2, <1>3

(* A block whose children the search looks at: all the blocks from the     *)
(* subprogram down to it contain the pc.                                   *)
InRange(s) == IsScope(s) /\ tree[s].holds = "yes"
Open(b)    == sub \in Above[b] /\ \A s \in (Above[b] \ Above[sub]) \cup {sub} : InRange(s)

(* No variable that is visible comes before c; nor is one c or below it.   *)
Ahead(c)  == \A d \in Visible : c <= d
Behind(c) == \A d \in Visible : c < d /\ c \notin Above[d]

(* The die that the call inside of the k-th is for.                        *)
Within(k) == IF k = 0 THEN sub ELSE Act(k)

BlocksAreOpen == \A k \in 1 .. Deep : Open(Block(k)) /\ Block(k) = Within(k - 1)

(* The search goes over the blocks around the pc in document order: it has *)
(* passed no variable that is visible.                                     *)
NothingPassed ==
  /\ step = "call" => Ahead(target)
  /\ step = "sibling" => Behind(Child(Deep))
  /\ step = "return" => ret \in {"OK", "ERROR"}
  /\ step = "return" /\ ret = "OK" /\ var_die = 0 => Behind(Within(Deep))
  /\ step = "return" /\ ret = "OK" /\ var_die # 0 => var_die \in Visible /\ Ahead(var_die)

Labelled == \A d \in Dies : IsNamed(d) => tree[d].label # "none"
FirstInv == Ranged /\ Labelled /\ step \in {"call", "return", "sibling"} => BlocksAreOpen /\ NothingPassed

(* What surrounds a variable that is visible.                              *)
LEMMA VisibleIsInside ==
  ASSUME tree \in Trees, sub \in Dies, NEW d \in Visible
  PROVE  /\ d \in Dies /\ d \in Nat /\ IsNamed(d) /\ sub \in Above[d] /\ sub # d
         /\ \A t \in Dies : t \in Above[d] /\ t # d /\ sub <= t => InRange(t)
<1>1. d \in Dies /\ d \in Nat /\ IsNamed(d) /\ sub \in Above[d] /\ sub # d
  BY DieNumbers DEF Visible, InSub, Scopes
<1>2. \A s \in ((Above[d] \ {d}) \ Above[sub]) \cup {sub} : InRange(s)
  BY DEF Visible, InSub, Scopes, InRange
<1>3. ASSUME NEW t \in Dies, t \in Above[d], t # d, sub <= t PROVE InRange(t)
  <2>1. t \in Above[sub] => t = sub
    BY <1>3, AboveRises, DieNumbers
  <2> QED
    BY <1>2, <1>3, <2>1
<1> QED
  BY <1>1, <1>3

(* The search goes past a die that is no visible variable and no block     *)
(* around the pc, and past a block without children.                       *)
LEMMA GoesPast ==
  ASSUME tree \in Trees, sub \in Dies, NEW t \in Dies, sub <= t, Ahead(t), t \notin Visible,
         ~InRange(t) \/ dwarf_child(t) = 0
  PROVE  Behind(t)
<1> SUFFICES ASSUME NEW d \in Visible PROVE t < d /\ t \notin Above[d]
  BY DEF Behind
<1>1. d \in Dies /\ d \in Nat /\ t \in Nat /\ t <= d /\ t # d
  BY VisibleIsInside, DieNumbers DEF Ahead
<1>2. t < d
  BY <1>1
<1>3. CASE ~InRange(t)
  BY <1>1, <1>2, <1>3, VisibleIsInside
<1>4. CASE dwarf_child(t) = 0
  BY <1>1, <1>2, <1>4, ChildSkipsNothing
<1> QED
  BY <1>3, <1>4

(* It goes into a block around the pc, over to the next sibling, and back  *)
(* to the block.                                                           *)
LEMMA GoesIn ==
  ASSUME tree \in Trees, sub \in Dies, NEW t \in Dies, Ahead(t), IsScope(t), dwarf_child(t) # 0
  PROVE  Ahead(dwarf_child(t))
<1> SUFFICES ASSUME NEW d \in Visible PROVE dwarf_child(t) <= d
  BY DEF Ahead
<1>1. d \in Dies /\ d \in Nat /\ t \in Nat /\ t <= d /\ IsNamed(d)
  BY VisibleIsInside, DieNumbers DEF Ahead
<1>2. t # d
  BY <1>1 DEF IsNamed, IsScope
<1>3. t < d
  BY <1>1, <1>2
<1> QED
  BY <1>1, <1>3, ChildSkipsNothing

LEMMA GoesOver ==
  ASSUME tree \in Trees, sub \in Dies, NEW c \in Dies, NEW p \in Dies, Parent(c) = p, Behind(c)
  PROVE  /\ dwarf_siblingof_c(c) # 0 => Ahead(dwarf_siblingof_c(c))
         /\ dwarf_siblingof_c(c) = 0 => Behind(p)
<1>1. ASSUME NEW d \in Visible PROVE d \in Dies /\ c < d /\ c \notin Above[d]
  BY VisibleIsInside DEF Behind
<1> QED
  BY <1>1, SiblingSkipsNothing DEF Ahead, Behind

(* The blocks that the search goes into are open, and the variables that   *)
(* it meets in them are visible.                                           *)
LEMMA SubIsOpen == ASSUME tree \in Trees, sub \in Holders PROVE Open(sub) /\ InRange(sub)
BY AboveRises DEF Open, InRange, Holders, IsScope

LEMMA BlockIsOpen ==
  ASSUME tree \in Trees, NEW p \in Dies, Open(p), NEW t \in Dies, Parent(t) = p, InRange(t)
  PROVE  Open(t)
<1>1. Above[t] = IF Parent(t) = 0 THEN {t} ELSE {t} \cup Above[Parent(t)]
  BY AboveEquation
<1>2. Above[t] = {t} \cup Above[p]
  BY <1>1, DieNumbers
<1> QED
  BY <1>2 DEF Open

LEMMA VariableIsVisible ==
  ASSUME tree \in Trees, sub \in Dies, NEW p \in Dies, Open(p), NEW t \in Dies, Parent(t) = p, IsNamed(t),
         tree[t].label = "x"
  PROVE  t \in Visible
<1>1. Above[t] = IF Parent(t) = 0 THEN {t} ELSE {t} \cup Above[Parent(t)]
  BY AboveEquation
<1>2. Above[t] = {t} \cup Above[p]
  BY <1>1, DieNumbers
<1>3. t \notin Above[p]
  <2>1. p < t /\ p \in Nat /\ t \in Nat
    BY DieTypes
  <2> QED
    BY <2>1, AboveRises
<1>4. Scopes(t) = Above[p]
  BY <1>2, <1>3 DEF Scopes
<1> QED
  BY <1>4 DEF Visible, InSub, Open, InRange

(* The blocks are the same in the next state.                              *)
LEMMA SameBlocks ==
  ASSUME UNCHANGED <<tree, sub>>
  PROVE  /\ Ranged' = Ranged /\ Labelled' = Labelled /\ Visible' = Visible /\ Within(0)' = Within(0)
         /\ \A c : Open(c)' = Open(c) /\ Ahead(c)' = Ahead(c) /\ Behind(c)' = Behind(c)
<1>1. Above' = Above
  BY DEF Above
<1>2. \A d : IsScope(d)' = IsScope(d) /\ IsNamed(d)' = IsNamed(d)
  BY DEF IsScope, IsNamed
<1>3. Visible' = Visible
  BY <1>1, <1>2 DEF Visible, InSub, Scopes
<1>4. \A c : Open(c)' = Open(c)
  BY <1>1, <1>2 DEF Open, InRange
<1> QED
  BY <1>1, <1>2, <1>3, <1>4 DEF Ranged, Labelled, Ahead, Behind, Within

(* What has been passed, by the values of the next state.                  *)
LEMMA NextBlocks ==
  ASSUME UNCHANGED <<tree, sub>>, calls' = calls, BlocksAreOpen
  PROVE  BlocksAreOpen'
<1>1. Deep' = Deep /\ \A k : Block(k)' = Block(k) /\ Within(k)' = Within(k)
  BY DEF Deep, Block, Child, Sib, Act, Within
<1> QED
  BY <1>1, SameBlocks DEF BlocksAreOpen

LEMMA NextPassed ==
  ASSUME UNCHANGED <<tree, sub>>, NEW c,
         \/ step' = "call" /\ c = target' /\ Ahead(c)
         \/ step' = "sibling" /\ c = Child(Deep)' /\ Behind(c)
         \/ step' = "return" /\ ret' = "OK" /\ var_die' = 0 /\ c = Within(Deep)' /\ Behind(c)
         \/ step' = "return" /\ ret' = "OK" /\ var_die' # 0 /\ c = var_die' /\ c \in Visible /\ Ahead(c)
         \/ step' = "return" /\ ret' = "ERROR"
  PROVE  NothingPassed'
<1>1. Above' = Above /\ Visible' = Visible
  BY SameBlocks DEF Above
<1>2. c = target' /\ Ahead(c) => Ahead(target)'
  BY <1>1 DEF Ahead
<1>3. c = Child(Deep)' /\ Behind(c) => Behind(Child(Deep))'
  BY <1>1 DEF Behind
<1>4. c = Within(Deep)' /\ Behind(c) => Behind(Within(Deep))'
  BY <1>1 DEF Behind
<1>5. c = var_die' /\ c \in Visible /\ Ahead(c) => var_die' \in Visible' /\ Ahead(var_die)'
  BY <1>1 DEF Ahead
<1> QED
  BY <1>2, <1>3, <1>4, <1>5 DEF NothingPassed

(* Where a call is.                                                        *)
LEMMA CallIsInside ==
  ASSUME VarInv, step = "call", BlocksAreOpen, NEW n, n = Deep, NEW t, t = target
  PROVE  /\ n \in Nat /\ t \in Dies /\ t = Within(n) /\ sub <= t /\ sub \in Dies /\ sub \in Holders
         /\ n = 0 => t = sub
         /\ n # 0 => Block(n) \in Dies /\ Parent(t) = Block(n) /\ Open(Block(n))
<1>1. /\ tree \in Trees /\ sub \in Dies /\ calls \in Seq(Calls) /\ sub \in Holders /\ t \in Dies
      /\ (n = 0 => t = sub) /\ (n # 0 => t = Act(n))
  BY LookupIs DEF LookupPhase
<1>2. n \in Nat /\ \A k \in 1 .. n : Block(k) \in Dies
  BY <1>1, CallTypes
<1>3. t = Within(n)
  BY <1>1 DEF Within
<1>4. CASE n = 0
  BY <1>1, <1>2, <1>3, <1>4, DieNumbers
<1>5. CASE n # 0
  <2>1. Parent(t) = Block(n)
    BY <1>1, <1>5, ActsRise
  <2>2. n \in 1 .. n
    BY <1>2, <1>5
  <2>3. Block(n) \in Dies /\ Open(Block(n))
    BY <1>2, <2>2 DEF BlocksAreOpen
  <2>4. sub <= Block(n) /\ Block(n) < t /\ sub \in Nat /\ Block(n) \in Nat /\ t \in Nat
    BY <1>1, <2>1, <2>3, AboveRises, DieTypes, DieNumbers DEF Open
  <2>5. sub <= t
    BY <2>4
  <2> QED
    BY <1>1, <1>2, <1>3, <1>5, <2>1, <2>3, <2>5
<1> QED
  BY <1>4, <1>5

LEMMA FirstIs ==
  ASSUME VarInv, FirstInv, Ranged, Labelled, step \in {"call", "return", "sibling"}
  PROVE  /\ BlocksAreOpen /\ NothingPassed /\ tree \in Trees /\ sub \in Dies /\ sub \in Holders
         /\ calls \in Seq(Calls)
         /\ step = "sibling" => var_die = 0 /\ Deep # 0
         /\ step = "call" => var_die = 0
BY LookupIs DEF FirstInv, LookupPhase

(* The call descends into a block.                                         *)
LEMMA FirstDescends ==
  ASSUME VarInv, BlocksAreOpen, Ahead(target), step = "call", InRange(target), NEW c, c = dwarf_child(target),
         c # 0, calls' = Append(calls, [block |-> target, child |-> c, next |-> 0]), target' = c,
         UNCHANGED <<tree, sub, step>>
  PROVE  BlocksAreOpen' /\ NothingPassed'
<1> SUFFICES ASSUME NEW n, n = Deep, NEW t, t = target PROVE BlocksAreOpen' /\ NothingPassed'
  OBVIOUS
<1> DEFINE r == [block |-> t, child |-> c, next |-> 0]
<1>1. /\ tree \in Trees /\ sub \in Dies /\ sub \in Holders /\ calls \in Seq(Calls) /\ n \in Nat /\ t \in Dies
      /\ t = Within(n)
  BY LookupIs, CallIsInside
<1>2. c \in Dies
  BY <1>1, ChildIsFirst
<1>3. r \in Calls /\ r.block = t /\ calls' = Append(calls, r)
  BY <1>1, <1>2 DEF Calls
<1> HIDE DEF r
<1>4. /\ Deep' = n + 1 /\ Block(n + 1)' = t
      /\ \A k \in 1 .. n : Block(k)' = Block(k) /\ Act(k)' = Act(k)
  BY <1>1, <1>3, PushedCalls
<1>5. Open(t)
  BY <1>1, CallIsInside, SubIsOpen, BlockIsOpen
<1>6. \A k \in 0 .. n : Within(k)' = Within(k)
  <2>1. \A k \in 0 .. n : k = 0 \/ k \in 1 .. n
    BY <1>1
  <2> QED
    BY <1>4, <2>1 DEF Within
<1>7. ASSUME NEW k \in 1 .. n + 1 PROVE Open(Block(k)') /\ Block(k)' = Within(k - 1)'
  <2>1. CASE k = n + 1
    <3>1. k - 1 = n /\ n \in 0 .. n
      BY <1>1, <2>1
    <3> QED
      BY <1>1, <1>4, <1>5, <1>6, <2>1, <3>1
  <2>2. CASE k \in 1 .. n
    <3>1. k - 1 \in 0 .. n
      BY <1>1, <2>2
    <3> QED
      BY <1>4, <1>6, <2>2, <3>1 DEF BlocksAreOpen
  <2> QED
    BY <1>1, <2>1, <2>2
<1>8. BlocksAreOpen'
  <2>1. Above' = Above /\ \A s : InRange(s)' = InRange(s)
    BY DEF Above, InRange, IsScope
  <2> QED
    BY <1>4, <1>7, <2>1 DEF BlocksAreOpen, Open
<1>9. Ahead(c)
  BY <1>1, GoesIn DEF InRange
<1>10. step' = "call" /\ c = target'
  OBVIOUS
<1> QED
  BY <1>8, <1>9, <1>10, NextPassed

LEMMA FirstCallPreserves == ASSUME VarInv, FirstInv, get_local_var_from_name PROVE FirstInv'
<1> SUFFICES ASSUME Ranged, Labelled, step' \in {"call", "return", "sibling"}
             PROVE  BlocksAreOpen' /\ NothingPassed'
  BY SameBlocks DEF FirstInv, get_local_var_from_name
<1> SUFFICES ASSUME NEW n, n = Deep, NEW t, t = target PROVE BlocksAreOpen' /\ NothingPassed'
  OBVIOUS
<1>1. step = "call" /\ UNCHANGED <<tree, sub>>
  BY DEF get_local_var_from_name
<1>2. /\ BlocksAreOpen /\ Ahead(t) /\ var_die = 0 /\ tree \in Trees /\ sub \in Dies /\ sub \in Holders
      /\ t \in Dies /\ t = Within(n) /\ sub <= t
  BY <1>1, FirstIs, CallIsInside DEF NothingPassed
<1>3. ASSUME calls' = calls PROVE BlocksAreOpen' /\ Within(Deep)' = t
  <2>1. Within(Deep)' = Within(Deep)
    BY <1>1, <1>3 DEF Within, Act, Child, Sib, Deep
  <2> QED
    BY <1>1, <1>2, <1>3, <2>1, NextBlocks
<1>4. ASSUME calls' = calls, var_die' = 0, Returns("OK"), t \notin Visible, ~InRange(t) \/ dwarf_child(t) = 0
      PROVE  BlocksAreOpen' /\ NothingPassed'
  <2>1. Behind(t)
    BY <1>2, <1>4, GoesPast
  <2> QED
    BY <1>1, <1>3, <1>4, <2>1, NextPassed DEF Returns
<1>5. IsScope(t) => t \notin Visible
  BY DEF Visible, IsScope, IsNamed
<1>6. CASE Returns("ERROR") /\ UNCHANGED <<var_die, calls, target, live>>
  BY <1>1, <1>3, <1>6, NextPassed DEF Returns
<1>7. CASE /\ ~IsScope(target) /\ ~IsNamed(target)
           /\ Returns("OK") /\ UNCHANGED <<var_die, calls, target, live>>
  BY <1>2, <1>4, <1>7 DEF Visible, InRange
<1>8. CASE /\ IsNamed(target) /\ Returns("OK") /\ var_die' = target /\ tree[target].label \in {"x", "none"}
           /\ calls' = calls
  <2>1. tree[t].label = "x"
    BY <1>2, <1>8 DEF Labelled
  <2>2. n # 0
    BY <1>1, <1>2, <1>8, CallIsInside, HolderIsNoName
  <2>3. t \in Visible
    BY <1>1, <1>2, <1>8, <2>1, <2>2, CallIsInside, VariableIsVisible
  <2> QED
    BY <1>1, <1>2, <1>3, <1>8, <2>3, NextPassed, DieNumbers DEF Returns
<1>9. CASE /\ IsNamed(target) /\ tree[target].label # "x" /\ Returns("OK") /\ UNCHANGED <<var_die, calls>>
  <2>1. t \notin Visible /\ ~InRange(t)
    BY <1>9 DEF Visible, InRange, IsScope, IsNamed
  <2> QED
    BY <1>2, <1>4, <1>9, <2>1
<1>10. CASE /\ IsScope(target) /\ UNCHANGED <<var_die, calls>> /\ Returns("OK")
            /\ OutOfRange(target) \/ (tree[target].holds # "none" /\ dwarf_child(target) = 0)
  <2>1. ~InRange(t) \/ dwarf_child(t) = 0
    BY <1>10 DEF InRange, OutOfRange
  <2> QED
    BY <1>2, <1>4, <1>5, <1>10, <2>1
<1>11. CASE /\ IsScope(target) /\ tree[target].holds # "none" /\ ~OutOfRange(target) /\ dwarf_child(target) # 0
            /\ calls' = Append(calls, [block |-> target, child |-> dwarf_child(target), next |-> 0])
            /\ target' = dwarf_child(target) /\ step' = step
  <2>1. tree[t] \in Die
    BY <1>2, TreesAssumption
  <2>2. InRange(t)
    BY <1>2, <1>11, <2>1 DEF Ranged, InRange, OutOfRange, Die
  <2> QED
    BY <1>1, <1>2, <1>11, <2>2, FirstDescends
<1>12. ~(IsScope(target) /\ tree[target].holds = "none")
  BY <1>2 DEF Ranged
<1>13. ~End("crash")
  BY DEF End
<1> QED
  BY <1>6, <1>7, <1>8, <1>9, <1>10, <1>11, <1>12, <1>13 DEF get_local_var_from_name

(* A call has returned, or its last child is another one.                  *)
LEMMA FirstPops ==
  ASSUME BlocksAreOpen, calls \in Seq(Calls), calls # <<>>, NEW n, n = Deep, calls' = Outer,
         UNCHANGED <<tree, sub>>
  PROVE  BlocksAreOpen' /\ n \in Nat \ {0} /\ Within(Deep)' = Within(n - 1)
<1>1. n \in Nat \ {0}
  BY CallTypes
<1>2. /\ Deep' = n - 1
      /\ \A k \in 1 .. n - 1 : Block(k)' = Block(k) /\ Act(k)' = Act(k)
  BY PoppedCalls
<1>3. \A k \in 0 .. n - 1 : Within(k)' = Within(k)
  <2>1. \A k \in 0 .. n - 1 : k = 0 \/ k \in 1 .. n - 1
    BY <1>1
  <2> QED
    BY <1>2, <2>1 DEF Within
<1>4. BlocksAreOpen'
  <2>1. \A k \in 1 .. n - 1 : k \in 1 .. n /\ k - 1 \in 0 .. n - 1
    BY <1>1
  <2>2. \A k \in 1 .. n - 1 : Open(Block(k)) /\ Block(k)' = Within(k - 1)'
    BY <1>2, <1>3, <2>1 DEF BlocksAreOpen
  <2>3. Above' = Above /\ \A s : InRange(s)' = InRange(s)
    BY DEF Above, InRange, IsScope
  <2> QED
    BY <1>2, <2>2, <2>3 DEF BlocksAreOpen, Open
<1>5. Within(Deep)' = Within(n - 1)
  <2>1. n - 1 = 0 \/ (n - 1 \in 1 .. n - 1 /\ n - 1 # 0)
    BY <1>1
  <2>2. Act(n - 1)' = Act(Deep)'
    BY <1>2 DEF Act, Child, Sib
  <2> QED
    BY <1>2, <2>1, <2>2 DEF Within
<1> QED
  BY <1>1, <1>4, <1>5

LEMMA FirstMoves ==
  ASSUME BlocksAreOpen, calls \in Seq(Calls), calls # <<>>, NEW n, n = Deep, NEW r \in Calls,
         r.block = Block(n), calls' = Append(Outer, r), UNCHANGED <<tree, sub>>
  PROVE  BlocksAreOpen' /\ Child(Deep)' = r.child
<1>1. n \in Nat \ {0}
  BY CallTypes
<1>2. /\ Deep' = n /\ Block(n)' = Block(n) /\ Child(n)' = r.child
      /\ \A k \in 1 .. n - 1 : Block(k)' = Block(k) /\ Act(k)' = Act(k)
  BY ReplacedCalls
<1>3. \A k \in 0 .. n - 1 : Within(k)' = Within(k)
  <2>1. \A k \in 0 .. n - 1 : k = 0 \/ k \in 1 .. n - 1
    BY <1>1
  <2> QED
    BY <1>2, <2>1 DEF Within
<1>4. BlocksAreOpen'
  <2>1. \A k \in 1 .. n : (k \in 1 .. n - 1 \/ k = n) /\ k - 1 \in 0 .. n - 1
    BY <1>1
  <2>2. \A k \in 1 .. n : Open(Block(k)) /\ Block(k)' = Block(k) /\ Block(k)' = Within(k - 1)'
    BY <1>2, <1>3, <2>1 DEF BlocksAreOpen
  <2>3. Above' = Above /\ \A s : InRange(s)' = InRange(s)
    BY DEF Above, InRange, IsScope
  <2> QED
    BY <1>2, <2>2, <2>3 DEF BlocksAreOpen, Open
<1>5. Child(Deep)' = Child(n)'
  BY <1>2 DEF Child
<1> QED
  BY <1>2, <1>4, <1>5

LEMMA FirstReturnPreserves == ASSUME VarInv, FirstInv, AfterCall PROVE FirstInv'
<1> SUFFICES ASSUME Ranged, Labelled PROVE BlocksAreOpen' /\ NothingPassed'
  BY SameBlocks DEF FirstInv, AfterCall
<1> SUFFICES ASSUME NEW n, n = Deep PROVE BlocksAreOpen' /\ NothingPassed'
  OBVIOUS
<1>1. step = "return" /\ UNCHANGED <<tree, sub, var_die>> /\ calls # <<>>
  BY DEF AfterCall
<1>2. /\ BlocksAreOpen /\ calls \in Seq(Calls) /\ n # 0
      /\ ret \in {"OK", "ERROR"}
      /\ ret = "OK" /\ var_die # 0 => var_die \in Visible /\ Ahead(var_die)
      /\ ret = "OK" /\ var_die = 0 => Behind(Within(n))
  BY <1>1, FirstIs, CallTypes DEF NothingPassed
<1>3. CASE ret # "OK" \/ var_die # 0
  <2>1. calls' = Outer /\ step' = "return" /\ ret' = ret
    BY <1>1, <1>2, <1>3 DEF AfterCall, Returns
  <2>2. BlocksAreOpen'
    BY <1>1, <1>2, <2>1, FirstPops
  <2> QED
    BY <1>1, <1>2, <1>3, <2>1, <2>2, NextPassed
<1>4. CASE ret = "OK" /\ var_die = 0
  <2>1. PICK c : c = IF Inner.next = 0 THEN Inner.child ELSE Inner.next
    OBVIOUS
  <2>2. /\ Inner \in Calls /\ Inner.block = Block(n) /\ c = Act(n) /\ c \in Dies
        /\ c = Within(n)
    BY <1>1, <1>2, <2>1, ActsRise DEF Act, Within
  <2> DEFINE r == [Inner EXCEPT !.child = c, !.next = 0]
  <2>3. r \in Calls /\ r.block = Block(n) /\ r.child = c
    BY <2>2 DEF Calls
  <2>4. step' = "sibling" /\ calls' = Append(Outer, r)
    BY <1>4, <2>1 DEF AfterCall
  <2> HIDE DEF r
  <2>5. BlocksAreOpen' /\ Child(Deep)' = c
    BY <1>1, <1>2, <2>3, <2>4, FirstMoves
  <2>6. Behind(c)
    BY <1>2, <1>4, <2>2
  <2> QED
    BY <1>1, <2>4, <2>5, <2>6, NextPassed
<1> QED
  BY <1>3, <1>4

LEMMA FirstSiblingPreserves == ASSUME VarInv, FirstInv, NextSibling PROVE FirstInv'
<1> SUFFICES ASSUME Ranged, Labelled PROVE BlocksAreOpen' /\ NothingPassed'
  BY SameBlocks DEF FirstInv, NextSibling
<1> SUFFICES ASSUME NEW n, n = Deep, NEW c, c = Inner.child PROVE BlocksAreOpen' /\ NothingPassed'
  OBVIOUS
<1> SUFFICES ASSUME NEW s, s = dwarf_siblingof_c(c) PROVE BlocksAreOpen' /\ NothingPassed'
  OBVIOUS
<1>1. step = "sibling" /\ UNCHANGED <<tree, sub, var_die>>
  BY DEF NextSibling
<1>2. /\ BlocksAreOpen /\ calls \in Seq(Calls) /\ n # 0 /\ var_die = 0 /\ tree \in Trees /\ sub \in Dies
      /\ Behind(Child(n))
  BY <1>1, FirstIs DEF NothingPassed
<1>3. /\ n \in Nat \ {0} /\ c \in Dies /\ c = Child(n) /\ Parent(c) = Block(n) /\ calls # <<>>
      /\ Inner \in Calls /\ Inner.block = Block(n)
  BY <1>1, <1>2, ActsRise
<1>4. Block(n) \in Dies /\ Block(n) = Within(n - 1)
  <2>1. n \in 1 .. n
    BY <1>3
  <2> QED
    BY <1>2, <2>1, CallTypes DEF BlocksAreOpen
<1>5. (s # 0 => Ahead(s)) /\ (s = 0 => Behind(Block(n)))
  BY <1>2, <1>3, <1>4, GoesOver
<1>6. CASE s # 0 /\ calls' = Append(Outer, [Inner EXCEPT !.next = s]) /\ step' = "call" /\ target' = s
  <2> DEFINE r == [Inner EXCEPT !.next = s]
  <2>1. s \in Dies
    BY <1>2, <1>3, <1>6, SiblingIsNext DEF Later
  <2>2. r \in Calls /\ r.block = Block(n)
    BY <1>3, <2>1 DEF Calls
  <2>3. calls' = Append(Outer, r)
    BY <1>6
  <2> HIDE DEF r
  <2>4. BlocksAreOpen'
    BY <1>1, <1>2, <1>3, <2>2, <2>3, FirstMoves
  <2> QED
    BY <1>1, <1>5, <1>6, <2>4, NextPassed
<1>7. CASE s = 0 /\ Returns("OK") /\ calls' = Outer
  <2>1. BlocksAreOpen' /\ Within(Deep)' = Block(n)
    BY <1>1, <1>2, <1>3, <1>4, <1>7, FirstPops
  <2> QED
    BY <1>1, <1>2, <1>5, <1>7, <2>1, NextPassed DEF Returns
<1>8. CASE Returns("ERROR") /\ calls' = Outer
  <2>1. BlocksAreOpen'
    BY <1>1, <1>2, <1>3, <1>8, FirstPops
  <2> QED
    BY <1>1, <1>8, <2>1, NextPassed DEF Returns
<1> QED
  BY <1>6, <1>7, <1>8 DEF NextSibling

(* The lookup begins with the subprogram.                                  *)
LEMMA FirstFramePreserves == ASSUME VarInv, FrameBase PROVE FirstInv'
<1> SUFFICES ASSUME step' = "call" PROVE BlocksAreOpen' /\ NothingPassed'
  BY SearchIs DEF FirstInv, FrameBase, End
<1>1. /\ UNCHANGED <<tree, sub, calls>> /\ target' = sub /\ sub # 0 /\ step = "search" /\ at = "done"
      /\ calls = <<>>
  BY DEF FrameBase, End, VarInv, SearchPhase
<1>2. tree \in Trees /\ sub \in Dies
  BY <1>1 DEF VarInv, VarTypes
<1>3. Deep' = 0
  BY <1>1 DEF Deep
<1>4. BlocksAreOpen'
  BY <1>3 DEF BlocksAreOpen
<1>5. Ahead(sub)
  <2>1. \A d \in Visible : d \in Dies /\ sub \in Above[d]
    BY <1>2, VisibleIsInside
  <2> QED
    BY <1>2, <2>1, AboveRises DEF Ahead
<1> QED
  BY <1>1, <1>4, <1>5, NextPassed

LEMMA FirstInvStutter == ASSUME FirstInv, UNCHANGED vars PROVE FirstInv'
<1>1. UNCHANGED <<tree, sub, step, calls, target, ret, var_die>>
  BY DEF vars, searchVars, varVars
<1>2. Above' = Above /\ Visible' = Visible
  BY <1>1, SameBlocks DEF Above
<1>3. (BlocksAreOpen' <=> BlocksAreOpen) /\ (NothingPassed' <=> NothingPassed)
  BY <1>1, <1>2 DEF BlocksAreOpen, NothingPassed, Open, InRange, IsScope, Ahead, Behind, Within, Deep, Block,
                    Child, Sib, Act
<1> QED
  BY <1>1, <1>3, SameBlocks DEF FirstInv

(* var finds the first variable of the name in the blocks around the pc:   *)
(* get_local_var_from_name, in every tree whose blocks all have a range    *)
(* that does not end at the pc.                                            *)
THEOREM FirstCorrect == Spec => []FindsFirstVisible
<1>1. Init => FirstInv
  BY DEF Init, FirstInv
<1>2. VarInv /\ FirstInv /\ [Next]_vars => FirstInv'
  <2> SUFFICES ASSUME VarInv, FirstInv, [Next]_vars PROVE FirstInv'
    OBVIOUS
  <2>1. CASE handle_var \/ Found \/ WalkOn \/ WalkTag \/ Parameter \/ Member \/ Type \/ Printed
    BY <2>1 DEF FirstInv, handle_var, Found, WalkOn, WalkTag, WalkEnds, Parameter, Member, Type, Printed, End,
                Prints, Write
  <2>2. CASE FindSubprogram
    BY <2>2 DEF FirstInv, FindSubprogram, varVars
  <2> QED
    BY <2>1, <2>2, FirstCallPreserves, FirstReturnPreserves, FirstSiblingPreserves, FirstFramePreserves,
       FirstInvStutter DEF Next, Var
<1>3. VarInv /\ FirstInv => FindsFirstVisible
  <2> SUFFICES ASSUME VarInv, FirstInv, LookedUp, Ranged PROVE var_die = First(Visible)
    BY DEF FindsFirstVisible
  <2>1. Labelled /\ step = "return" /\ ret = "OK" /\ Deep = 0
    BY DEF LookedUp, Labelled, Deep
  <2>2. tree \in Trees /\ sub \in Dies /\ NothingPassed /\ Within(Deep) = sub
    BY <2>1, FirstIs DEF Within
  <2>3. Visible \subseteq Dies
    BY DEF Visible
  <2>4. CASE var_die = 0
    <3>1. \A d \in Visible : sub \notin Above[d] /\ sub \in Above[d]
      BY <2>1, <2>2, <2>4, VisibleIsInside DEF NothingPassed, Behind
    <3> QED
      BY <2>4, <3>1 DEF First
  <2>5. CASE var_die # 0
    <3>1. var_die \in Visible /\ \A d \in Visible : var_die <= d /\ d \in Nat
      BY <2>1, <2>2, <2>3, <2>5, DieNumbers DEF NothingPassed, Ahead
    <3>2. First(Visible) \in Visible /\ First(Visible) <= var_die
      BY <2>3, <3>1, FirstIsLeast
    <3> QED
      BY <3>1, <3>2
  <2> QED
    BY <2>4, <2>5
<1> QED
  BY <1>1, <1>2, <1>3, VarInvariant, PTL DEF Spec

-----------------------------------------------------------------------------
(* The text of a value.  Text is unwound level by level; since a part that *)
(* is not cut at a level stays as it is, and since there are only as many  *)
(* levels as parts, the last level holds the whole text of every part that *)
(* does not contain itself (UncutCloses, WholeTexts).                      *)

(* A piece of text, the texts of all parts, and one level of Text from the *)
(* one before.                                                             *)
Pieces == [is: {"open", "close", "comma", "name", "value", "cut", "address"}, die: Dies \cup {0}, addr: Nat]
Texts  == [Parts -> [Nat -> Seq(Pieces)]]

PartText(text, p, a) == IF p[1] = "value" THEN ValueText(text, p[2], a) ELSE RestText(text, p[2], a)
PartsText(text)      == [p \in Parts |-> [a \in Nat |-> PartText(text, p, a)]]
AllCut               == [p \in Parts |-> [a \in Nat |-> Cut]]

(* The parts, those that are always cut, and the parts of a part.          *)
Value(t) == <<"value", t>>
Rest(m)  == <<"rest", m>>
FirstOf(t) == First(MembersOf(t))

IsCut(p) == p[1] = "value" /\ (p[2] = 0 \/ tree[p[2]].tag \notin {"modifier", "base", "struct"})
PartsOf(p) ==
  IF p[1] = "value"
  THEN {q \in Parts : \/ p[2] # 0 /\ tree[p[2]].tag = "modifier" /\ q = Value(tree[p[2]].type)
                      \/ p[2] # 0 /\ tree[p[2]].tag = "struct" /\ q = Rest(FirstOf(p[2]))}
  ELSE {q \in Parts : p[2] # 0 /\ (q = Value(tree[p[2]].type) \/ q = Rest(NextMember(p[2])))}

(* The pieces of text.                                                     *)
LEMMA PieceTypes ==
  /\ \A d \in Dies \cup {0} : \A a \in Nat : /\ Piece("name", d, a) \in Pieces /\ Piece("value", d, a) \in Pieces
                                             /\ Piece("address", d, a) \in Pieces
  /\ Piece("open", 0, 0) \in Pieces /\ Piece("close", 0, 0) \in Pieces /\ Piece("comma", 0, 0) \in Pieces
  /\ Piece("cut", 0, 0) \in Pieces
BY DEF Piece, Pieces

(* The two kinds of parts.                                                 *)
LEMMA PartIs ==
  ASSUME NEW d \in Dies \cup {0}
  PROVE  /\ Value(d) \in Parts /\ Rest(d) \in Parts /\ Value(d)[1] = "value" /\ Value(d)[2] = d
         /\ Rest(d)[1] = "rest" /\ Rest(d)[2] = d
BY DEF Parts, Value, Rest

(* A part is a value or the rest of a struct.                              *)
LEMMA PartKinds ==
  ASSUME NEW p \in Parts
  PROVE  p[2] \in Dies \cup {0} /\ (p = Value(p[2]) \/ p = Rest(p[2]))
BY DEF Parts, Value, Rest

(* The members of a struct, the next member, the type and the offset of a  *)
(* die.                                                                    *)
LEMMA MemberTypes ==
  ASSUME tree \in Trees, NEW d \in Dies
  PROVE  /\ FirstOf(d) \in Dies \cup {0} /\ NextMember(d) \in Dies \cup {0} /\ tree[d].type \in Dies \cup {0}
         /\ tree[d].offset \in Nat
<1>1. \A S \in SUBSET Dies : First(S) \in Dies \cup {0}
  BY FirstIsLeast
<1>2. MembersOf(d) \in SUBSET Dies /\ {k \in MembersOf(tree[d].parent) : k > d} \in SUBSET Dies
  BY DEF MembersOf, ChildrenOf
<1>3. tree[d] \in Die
  BY TreesAssumption
<1> QED
  BY <1>1, <1>2, <1>3 DEF FirstOf, NextMember, Die

(* The text of a value, by its type's tag.                                 *)
LEMMA ValueIs ==
  ASSUME NEW text, NEW t, NEW a
  PROVE  /\ t = 0 => ValueText(text, t, a) = Cut
         /\ t # 0 /\ tree[t].tag = "modifier" => ValueText(text, t, a) = text[Value(tree[t].type)][a]
         /\ t # 0 /\ tree[t].tag = "base" => ValueText(text, t, a) = <<Piece("value", t, a)>>
         /\ t # 0 /\ tree[t].tag = "struct" => ValueText(text, t, a) = <<Piece("open", 0, 0)>> \o text[Rest(FirstOf(t))][a]
         /\ t # 0 /\ tree[t].tag \notin {"modifier", "base", "struct"} => ValueText(text, t, a) = Cut
BY DEF ValueText, Value, Rest, FirstOf

(* What is written before the value of a member.                           *)
Heading(m) == (IF IsFirstOne(m) THEN <<>> ELSE <<Piece("comma", 0, 0)>>) \o <<Piece("name", m, 0)>>

(* The text of the rest of a struct.                                       *)
LEMMA RestIs ==
  ASSUME NEW text, NEW m, NEW a
  PROVE  /\ m = 0 => RestText(text, m, a) = <<Piece("close", 0, 0)>>
         /\ m # 0 => RestText(text, m, a) = Heading(m) \o text[Value(tree[m].type)][a + tree[m].offset]
                                            \o text[Rest(NextMember(m))][a]
BY DEF RestText, Value, Rest, Heading

(* What is written before the value of a member: the comma and its name.   *)
LEMMA HeadingTypes ==
  ASSUME NEW m \in Dies
  PROVE  Heading(m) \in Seq(Pieces) /\ \A k \in DOMAIN Heading(m) : Heading(m)[k].is # "cut"
<1> DEFINE c == Piece("comma", 0, 0)
           n == Piece("name", m, 0)
<1>1. c \in Pieces /\ n \in Pieces
  BY PieceTypes
<1>2. c.is = "comma" /\ n.is = "name"
  BY DEF Piece
<1> HIDE DEF c, n
<1>3. CASE IsFirstOne(m)
  <2>1. Heading(m) = <<n>>
    BY <1>1, <1>3 DEF Heading, n
  <2> QED
    BY <1>1, <1>2, <2>1
<1>4. CASE ~IsFirstOne(m)
  <2>1. Heading(m) = <<c>> \o <<n>>
    BY <1>4 DEF Heading, n, c
  <2>2. Append(<<c>>, n) = <<c>> \o <<n>>
    <3>1. <<c>> \in Seq(Pieces)
      BY <1>1
    <3> QED
      BY <1>1, <3>1, AppendIsConcat
  <2>3. Heading(m) = Append(<<c>>, n)
    BY <2>1, <2>2
  <2>4. /\ <<c>> \in Seq(Pieces) /\ Len(<<c>>) = 1 /\ <<c>>[1] = c
    BY <1>1
  <2>5. /\ Heading(m) \in Seq(Pieces) /\ Len(Heading(m)) = 2 /\ Heading(m)[1] = c /\ Heading(m)[2] = n
    <3>1. /\ Append(<<c>>, n) \in Seq(Pieces) /\ Len(Append(<<c>>, n)) = Len(<<c>>) + 1
          /\ \A k \in 1 .. Len(<<c>>) : Append(<<c>>, n)[k] = <<c>>[k]
          /\ Append(<<c>>, n)[Len(<<c>>) + 1] = n
      BY <1>1, <2>4, Push, Zenon
    <3> QED
      BY <2>3, <2>4, <3>1
  <2>6. \A k \in DOMAIN Heading(m) : k = 1 \/ k = 2
    BY <2>5
  <2> QED
    BY <1>2, <2>5, <2>6
<1> QED
  BY <1>3, <1>4

(* Two sequences one after the other.                                      *)
LEMMA JoinIs ==
  ASSUME NEW S, NEW s \in Seq(S), NEW t \in Seq(S)
  PROVE  /\ s \o t \in Seq(S) /\ Len(s \o t) = Len(s) + Len(t)
         /\ \A k \in 1 .. Len(s) : (s \o t)[k] = s[k]
         /\ \A k \in 1 .. Len(t) : (s \o t)[Len(s) + k] = t[k]
         /\ \A k \in 1 .. Len(s) + Len(t) : k \in 1 .. Len(s) \/ (k - Len(s) \in 1 .. Len(t) /\ k = Len(s) + (k - Len(s)))
<1>1. Len(s) \in Nat /\ Len(t) \in Nat
  OBVIOUS
<1> QED
  BY <1>1

(* Two texts one after the other.                                          *)
LEMMA JoinPieces ==
  ASSUME NEW s \in Seq(Pieces), NEW t \in Seq(Pieces)
  PROVE  s \o t \in Seq(Pieces) /\ Len(s \o t) = Len(s) + Len(t)
BY JoinIs

(* The text of a part is made of the texts of its own parts.               *)
LEMMA PartTextTypes ==
  ASSUME tree \in Trees, NEW text \in Texts
  PROVE  PartsText(text) \in Texts
<1>1. ASSUME NEW p \in Parts, NEW a \in Nat PROVE PartText(text, p, a) \in Seq(Pieces)
  <2> SUFFICES ASSUME NEW d \in Dies \cup {0}, d = p[2] PROVE PartText(text, p, a) \in Seq(Pieces)
    BY PartKinds
  <2>1. Cut \in Seq(Pieces) /\ <<Piece("open", 0, 0)>> \in Seq(Pieces) /\ <<Piece("close", 0, 0)>> \in Seq(Pieces)
        /\ <<Piece("value", d, a)>> \in Seq(Pieces)
    BY PieceTypes DEF Cut
  <2>2. \A e \in Dies \cup {0} : \A b \in Nat : text[Value(e)][b] \in Seq(Pieces) /\ text[Rest(e)][b] \in Seq(Pieces)
    BY PartIs DEF Texts
  <2>3. CASE p = Value(d) /\ d # 0
    <3>1. text[Value(tree[d].type)][a] \in Seq(Pieces) /\ text[Rest(FirstOf(d))][a] \in Seq(Pieces)
      BY <2>2, <2>3, MemberTypes
    <3>2. <<Piece("open", 0, 0)>> \o text[Rest(FirstOf(d))][a] \in Seq(Pieces)
      BY <2>1, <3>1, JoinIs
    <3>3. \/ ValueText(text, d, a) = Cut
          \/ ValueText(text, d, a) = text[Value(tree[d].type)][a]
          \/ ValueText(text, d, a) = <<Piece("value", d, a)>>
          \/ ValueText(text, d, a) = <<Piece("open", 0, 0)>> \o text[Rest(FirstOf(d))][a]
      <4>2. CASE tree[d].tag \notin {"modifier", "base", "struct"}
        BY <2>3, <4>2, ValueIs, ZenonT(40)
      <4>3. tree[d].tag = "modifier" => ValueText(text, d, a) = text[Value(tree[d].type)][a]
        BY <2>3, ValueIs
      <4>4. tree[d].tag = "base" => ValueText(text, d, a) = <<Piece("value", d, a)>>
        BY <2>3, ValueIs
      <4>5. tree[d].tag = "struct" => ValueText(text, d, a) = <<Piece("open", 0, 0)>> \o text[Rest(FirstOf(d))][a]
        BY <2>3, ValueIs
      <4> QED
        BY <4>2, <4>3, <4>4, <4>5
    <3>4. ValueText(text, d, a) \in Seq(Pieces)
      BY <2>1, <3>1, <3>2, <3>3, Zenon
    <3> QED
      BY <2>3, <3>4, PartIs DEF PartText
  <2>4. CASE p = Rest(d) /\ d # 0
    <3>1. a + tree[d].offset \in Nat
      BY <2>4, MemberTypes
    <3>2. text[Value(tree[d].type)][a + tree[d].offset] \in Seq(Pieces) /\ text[Rest(NextMember(d))][a] \in Seq(Pieces)
      BY <2>2, <2>4, <3>1, MemberTypes
    <3>3. Heading(d) \in Seq(Pieces)
      BY <2>4, HeadingTypes
    <3>4. Heading(d) \o text[Value(tree[d].type)][a + tree[d].offset] \in Seq(Pieces)
      BY <3>2, <3>3, JoinIs, Zenon
    <3>5. Heading(d) \o text[Value(tree[d].type)][a + tree[d].offset] \o text[Rest(NextMember(d))][a] \in Seq(Pieces)
      BY <3>2, <3>4, JoinIs, Zenon
    <3>6. RestText(text, d, a) \in Seq(Pieces)
      BY <2>4, <3>5, RestIs, Zenon
    <3> QED
      BY <2>4, <3>6, PartIs DEF PartText
  <2>5. CASE p = Value(0) /\ d = 0
    BY <2>1, <2>5, ValueIs, PartIs DEF PartText
  <2>6. CASE p = Rest(0) /\ d = 0
    <3>1. RestText(text, d, a) \in Seq(Pieces)
      BY <2>1, <2>6, RestIs, Zenon
    <3> QED
      BY <2>6, <3>1, PartIs DEF PartText
  <2> QED
    BY <2>3, <2>4, <2>5, <2>6, PartKinds
<1> QED
  BY <1>1 DEF PartsText, Texts

(* Level 0: every text is cut.                                             *)
LEMMA AllCutTypes == AllCut \in Texts
BY PieceTypes DEF AllCut, Texts, Cut

(* The parts are finitely many.                                            *)
LEMMA DepthTypes == IsFiniteSet(Parts) /\ Depth \in Nat
<1>1. IsFiniteSet(Dies)
  BY DiesAssumption
<1>2. IsFiniteSet(Dies \cup {0})
  BY <1>1, FS_AddElement
<1>3. IsFiniteSet({"value"}) /\ IsFiniteSet({"value"} \cup {"rest"})
  BY FS_Singleton, FS_AddElement
<1>4. {"value"} \cup {"rest"} = {"value", "rest"}
  OBVIOUS
<1>5. IsFiniteSet(Parts)
  BY <1>2, <1>3, <1>4, FS_Product DEF Parts
<1> QED
  BY <1>5, FS_CardinalityType DEF Depth

(* Induction up to n, over a set of numbers.                               *)
LEMMA InductionTo ==
  ASSUME NEW n \in Nat, NEW P, 0 \in P, \A k \in 1 .. n : k - 1 \in P => k \in P
  PROVE  \A k \in 0 .. n : k \in P
<1> SUFFICES ASSUME {k \in 0 .. n : k \notin P} # {} PROVE FALSE
  OBVIOUS
<1>1. {k \in 0 .. n : k \notin P} \subseteq Nat
  OBVIOUS
<1>2. PICK m \in {k \in 0 .. n : k \notin P} : \A k \in {k \in 0 .. n : k \notin P} : m <= k
  BY <1>1, LeastNatural
<1>3. m \in 1 .. n /\ m - 1 \in 0 .. n
  BY <1>2
<1>4. m - 1 \in P
  BY <1>2, <1>3
<1> QED
  BY <1>2, <1>3, <1>4

(* A function can be iterated.                                             *)
Iterates(s, n, a, G) == s[0] = a /\ \A k \in 1 .. n : s[k] = G[s[k - 1]]

(* A function can be iterated n times: this is what makes Text, a          *)
(* recursive function, the one that its definition describes.              *)
LEMMA Iteration ==
  ASSUME NEW n \in Nat, NEW S, NEW a \in S, NEW G \in [S -> S]
  PROVE  \E s \in [0 .. n -> S] : Iterates(s, n, a, G)
<1> DEFINE P == {m \in 0 .. n : \E s \in [0 .. m -> S] : Iterates(s, m, a, G)}
<1>1. 0 \in P
  <2> DEFINE t == [k \in 0 .. 0 |-> a]
  <2>1. t \in [0 .. 0 -> S] /\ t[0] = a /\ \A k \in 1 .. 0 : FALSE
    OBVIOUS
  <2> HIDE DEF t
  <2>2. Iterates(t, 0, a, G)
    BY <2>1 DEF Iterates
  <2> QED
    BY <2>1, <2>2
<1>2. ASSUME NEW m \in 1 .. n, m - 1 \in P PROVE m \in P
  <2>1. PICK s \in [0 .. m - 1 -> S] : Iterates(s, m - 1, a, G)
    BY <1>2
  <2> DEFINE t == [k \in 0 .. m |-> IF k = m THEN G[s[m - 1]] ELSE s[k]]
  <2>2. m - 1 \in 0 .. m - 1 /\ s[m - 1] \in S /\ G[s[m - 1]] \in S
    BY <2>1
  <2>3. t \in [0 .. m -> S] /\ t[m] = G[s[m - 1]] /\ \A k \in 0 .. m - 1 : t[k] = s[k]
    BY <2>2
  <2> HIDE DEF t
  <2>4. ASSUME NEW k \in 1 .. m PROVE t[k] = G[t[k - 1]]
    <3>1. CASE k = m
      BY <2>2, <2>3, <3>1
    <3>2. CASE k # m
      <4>1. k \in 1 .. m - 1 /\ k \in 0 .. m - 1 /\ k - 1 \in 0 .. m - 1
        BY <3>2
      <4> QED
        BY <2>1, <2>3, <4>1 DEF Iterates
    <3> QED
      BY <3>1, <3>2
  <2>5. t[0] = a
    BY <2>1, <2>3 DEF Iterates
  <2>6. Iterates(t, m, a, G)
    BY <2>4, <2>5 DEF Iterates
  <2> QED
    BY <2>3, <2>6
<1>3. \A m \in 0 .. n : m \in P
  <2> HIDE DEF P
  <2> QED
    BY <1>1, <1>2, InductionTo
<1> QED
  BY <1>3

(* The equation of Text, as a predicate.                                   *)
TextIsIn(f) ==
  f = [n \in 0 .. Depth |->
         [p \in Parts |-> [a \in Nat |-> IF n = 0 THEN Cut
                                         ELSE IF p[1] = "value" THEN ValueText(f[n - 1], p[2], a)
                                         ELSE RestText(f[n - 1], p[2], a)]]]

(* The levels of Text: each is made of the texts of the one before.        *)
LEMMA TextLevels ==
  ASSUME tree \in Trees
  PROVE  /\ \A n \in 0 .. Depth : Text[n] \in Texts
         /\ Text[0] = AllCut /\ \A n \in 1 .. Depth : Text[n] = PartsText(Text[n - 1])
<1> DEFINE G == [x \in Texts |-> PartsText(x)]
<1>1. G \in [Texts -> Texts] /\ Depth \in Nat /\ AllCut \in Texts
  BY PartTextTypes, AllCutTypes, DepthTypes
<1>2. PICK s \in [0 .. Depth -> Texts] : Iterates(s, Depth, AllCut, G)
  <2> HIDE DEF G
  <2> QED
    BY <1>1, Iteration
<1>3. s[0] = AllCut /\ \A n \in 1 .. Depth : s[n] = PartsText(s[n - 1])
  <2>1. \A n \in 1 .. Depth : n - 1 \in 0 .. Depth /\ s[n - 1] \in Texts
    BY <1>1, <1>2
  <2> QED
    BY <1>2, <2>1 DEF Iterates
<1> DEFINE Level0(f, n) == [p \in Parts |-> [a \in Nat |-> IF n = 0 THEN Cut
                                                    ELSE IF p[1] = "value" THEN ValueText(f[n - 1], p[2], a)
                                                    ELSE RestText(f[n - 1], p[2], a)]]
<1>4. \A f : Level0(f, 0) = AllCut
  BY DEF AllCut
<1>5. \A f : \A n \in 1 .. Depth : Level0(f, n) = PartsText(f[n - 1])
  BY <1>1 DEF PartsText, PartText
<1>6. \A f : TextIsIn(f) <=> f = [n \in 0 .. Depth |-> Level0(f, n)]
  BY DEF TextIsIn
<1>7. \A n \in 0 .. Depth : n = 0 \/ n \in 1 .. Depth
  BY <1>1
<1> HIDE DEF Level0
<1>8. TextIsIn(s)
  <2>1. \A n \in 0 .. Depth : s[n] = Level0(s, n)
    BY <1>3, <1>4, <1>5, <1>7
  <2>2. s = [n \in 0 .. Depth |-> s[n]]
    BY <1>2
  <2> QED
    BY <1>6, <2>1, <2>2
<1>9. Text = CHOOSE f : TextIsIn(f)
  BY DEF Text, TextIsIn
<1>10. TextIsIn(Text)
  <2> HIDE DEF TextIsIn
  <2> QED
    BY <1>8, <1>9
<1>11. \A n \in 0 .. Depth : Text[n] = Level0(Text, n)
  BY <1>6, <1>10
<1>12. Text[0] = AllCut /\ \A n \in 1 .. Depth : Text[n] = PartsText(Text[n - 1])
  BY <1>1, <1>4, <1>5, <1>7, <1>11
<1>13. \A n \in 0 .. Depth : n \in {k \in 0 .. Depth : Text[k] \in Texts}
  <2>1. 0 \in {k \in 0 .. Depth : Text[k] \in Texts}
    BY <1>1, <1>12
  <2>2. ASSUME NEW n \in 1 .. Depth, n - 1 \in {k \in 0 .. Depth : Text[k] \in Texts}
        PROVE  n \in {k \in 0 .. Depth : Text[k] \in Texts}
    BY <1>1, <1>12, <2>2, PartTextTypes
  <2> QED
    BY <1>1, <2>1, <2>2, InductionTo
<1> QED
  BY <1>12, <1>13

(* A text that is cut; texts of the same length that are both cut or not.  *)
HasCut(s)     == \E k \in DOMAIN s : s[k].is = "cut"
Alike(s, t)   == Len(s) = Len(t) /\ (HasCut(s) <=> HasCut(t))
Uniform(text) == \A q \in Parts : \A a \in Nat : Alike(text[q][a], text[q][0])

(* A text of two parts is cut if one of them is.                           *)
LEMMA JoinCuts ==
  ASSUME NEW s \in Seq(Pieces), NEW t \in Seq(Pieces)
  PROVE  HasCut(s \o t) <=> HasCut(s) \/ HasCut(t)
<1> DEFINE u == s \o t
           m == Len(s)
           n == Len(t)
<1>1. /\ u \in Seq(Pieces) /\ Len(u) = m + n /\ m \in Nat /\ n \in Nat
      /\ \A k \in 1 .. m : u[k] = s[k]
      /\ \A k \in 1 .. n : u[m + k] = t[k]
      /\ \A k \in 1 .. m + n : k \in 1 .. m \/ (k - m \in 1 .. n /\ k = m + (k - m))
  BY JoinIs
<1>2. DOMAIN u = 1 .. m + n /\ DOMAIN s = 1 .. m /\ DOMAIN t = 1 .. n
  BY <1>1
<1> HIDE DEF u, m, n
<1>3. ASSUME HasCut(u) PROVE HasCut(s) \/ HasCut(t)
  <2>1. PICK k \in 1 .. m + n : u[k].is = "cut"
    BY <1>2, <1>3 DEF HasCut
  <2>2. CASE k \in 1 .. m
    BY <1>1, <1>2, <2>1, <2>2 DEF HasCut
  <2>3. CASE k - m \in 1 .. n /\ k = m + (k - m)
    <3>1. PICK j \in 1 .. n : k = m + j
      BY <2>3
    <3>2. t[j].is = "cut"
      BY <1>1, <2>1, <3>1
    <3> QED
      BY <1>2, <3>2 DEF HasCut
  <2> QED
    BY <1>1, <2>2, <2>3
<1>4. ASSUME HasCut(s) PROVE HasCut(u)
  <2>1. PICK k \in 1 .. m : s[k].is = "cut"
    BY <1>2, <1>4 DEF HasCut
  <2>2. k \in 1 .. m + n /\ u[k].is = "cut"
    BY <1>1, <2>1
  <2> QED
    BY <1>2, <2>2 DEF HasCut
<1>5. ASSUME HasCut(t) PROVE HasCut(u)
  <2>1. PICK k \in 1 .. n : t[k].is = "cut"
    BY <1>2, <1>5 DEF HasCut
  <2>2. m + k \in 1 .. m + n /\ u[m + k].is = "cut"
    BY <1>1, <2>1
  <2> QED
    BY <1>2, <2>2 DEF HasCut
<1> QED
  BY <1>3, <1>4, <1>5 DEF u

(* Of the single pieces only Cut is cut.                                   *)
LEMMA PieceCuts ==
  ASSUME NEW d \in Dies \cup {0}, NEW a \in Nat
  PROVE  /\ HasCut(Cut) /\ Cut \in Seq(Pieces) /\ Len(Cut) = 1
         /\ ~HasCut(<<Piece("value", d, a)>>) /\ <<Piece("value", d, a)>> \in Seq(Pieces)
         /\ Len(<<Piece("value", d, a)>>) = 1
         /\ ~HasCut(<<Piece("open", 0, 0)>>) /\ <<Piece("open", 0, 0)>> \in Seq(Pieces)
         /\ Len(<<Piece("open", 0, 0)>>) = 1
         /\ ~HasCut(<<Piece("close", 0, 0)>>) /\ <<Piece("close", 0, 0)>> \in Seq(Pieces)
         /\ Len(<<Piece("close", 0, 0)>>) = 1
<1>1. ASSUME NEW x \in Pieces PROVE <<x>> \in Seq(Pieces) /\ Len(<<x>>) = 1 /\ (HasCut(<<x>>) <=> x.is = "cut")
  BY DEF HasCut
<1>2. /\ Piece("cut", 0, 0).is = "cut" /\ Piece("value", d, a).is # "cut" /\ Piece("open", 0, 0).is # "cut"
      /\ Piece("close", 0, 0).is # "cut"
  BY DEF Piece
<1> QED
  BY <1>1, <1>2, PieceTypes DEF Cut

(* What the text of a part has of the texts of its own parts.              *)
LEMMA PartShape ==
  ASSUME tree \in Trees, NEW text \in Texts, Uniform(text), NEW p \in Parts, NEW a \in Nat
  PROVE  /\ Len(PartText(text, p, a)) = Len(PartText(text, p, 0))
         /\ HasCut(PartText(text, p, a)) <=> IsCut(p) \/ \E q \in PartsOf(p) : HasCut(text[q][0])
<1> SUFFICES ASSUME NEW d \in Dies \cup {0}, d = p[2]
             PROVE  /\ Len(PartText(text, p, a)) = Len(PartText(text, p, 0))
                    /\ HasCut(PartText(text, p, a)) <=> IsCut(p) \/ \E q \in PartsOf(p) : HasCut(text[q][0])
  BY PartKinds
<1>1. /\ HasCut(Cut) /\ 0 \in Nat
      /\ \A b \in Nat : ~HasCut(<<Piece("value", d, b)>>) /\ Len(<<Piece("value", d, b)>>) = 1
      /\ ~HasCut(<<Piece("open", 0, 0)>>) /\ <<Piece("open", 0, 0)>> \in Seq(Pieces)
      /\ ~HasCut(<<Piece("close", 0, 0)>>)
  BY PieceCuts
<1>2. \A q \in Parts : \A b \in Nat :
        text[q][b] \in Seq(Pieces) /\ Len(text[q][b]) = Len(text[q][0]) /\ (HasCut(text[q][b]) <=> HasCut(text[q][0]))
  BY DEF Texts, Uniform, Alike
<1>3. CASE p = Value(d) /\ d # 0
  <2>1. p[1] = "value" /\ \A b : PartText(text, p, b) = ValueText(text, d, b)
    BY <1>3, PartIs DEF PartText
  <2>2. CASE tree[d].tag = "modifier"
    <3> SUFFICES ASSUME NEW q, q = Value(tree[d].type)
                 PROVE  /\ Len(PartText(text, p, a)) = Len(PartText(text, p, 0))
                        /\ HasCut(PartText(text, p, a)) <=> IsCut(p) \/ \E r \in PartsOf(p) : HasCut(text[r][0])
      OBVIOUS
    <3>1. q \in Parts
      BY <1>3, MemberTypes, PartIs
    <3>2. PartsOf(p) = {q} /\ ~IsCut(p)
      BY <1>3, <2>1, <2>2, <3>1 DEF PartsOf, IsCut
    <3>3. PartText(text, p, a) = text[q][a] /\ PartText(text, p, 0) = text[q][0]
      BY <1>3, <2>1, <2>2, ValueIs
    <3>4. Len(text[q][a]) = Len(text[q][0]) /\ (HasCut(text[q][a]) <=> HasCut(text[q][0]))
      BY <1>2, <3>1
    <3> QED
      BY <3>2, <3>3, <3>4
  <2>3. CASE tree[d].tag = "struct"
    <3> SUFFICES ASSUME NEW q, q = Rest(FirstOf(d))
                 PROVE  /\ Len(PartText(text, p, a)) = Len(PartText(text, p, 0))
                        /\ HasCut(PartText(text, p, a)) <=> IsCut(p) \/ \E r \in PartsOf(p) : HasCut(text[r][0])
      OBVIOUS
    <3>1. q \in Parts
      BY <1>3, MemberTypes, PartIs
    <3>2. PartsOf(p) = {q} /\ ~IsCut(p)
      BY <1>3, <2>1, <2>3, <3>1 DEF PartsOf, IsCut
    <3>3. \A b : PartText(text, p, b) = <<Piece("open", 0, 0)>> \o text[q][b]
      BY <1>3, <2>1, <2>3, ValueIs
    <3>4. ASSUME NEW b \in Nat
          PROVE  /\ Len(PartText(text, p, b)) = Len(<<Piece("open", 0, 0)>>) + Len(text[q][0])
                 /\ HasCut(PartText(text, p, b)) <=> HasCut(text[q][0])
      <4>1. text[q][b] \in Seq(Pieces) /\ Len(text[q][b]) = Len(text[q][0]) /\ (HasCut(text[q][b]) <=> HasCut(text[q][0]))
        BY <1>2, <3>1
      <4>2. Len(<<Piece("open", 0, 0)>> \o text[q][b]) = Len(<<Piece("open", 0, 0)>>) + Len(text[q][b])
        BY <1>1, <4>1, JoinIs
      <4>3. HasCut(<<Piece("open", 0, 0)>> \o text[q][b]) <=> HasCut(<<Piece("open", 0, 0)>>) \/ HasCut(text[q][b])
        BY <1>1, <4>1, JoinCuts
      <4> QED
        BY <1>1, <3>3, <4>1, <4>2, <4>3
    <3> QED
      BY <1>1, <3>2, <3>4
  <2>4. CASE tree[d].tag = "base"
    <3>1. PartsOf(p) = {} /\ ~IsCut(p)
      BY <1>3, <2>1, <2>4 DEF PartsOf, IsCut
    <3>2. \A b : PartText(text, p, b) = <<Piece("value", d, b)>>
      BY <1>3, <2>1, <2>4, ValueIs
    <3> QED
      BY <1>1, <3>1, <3>2
  <2>5. CASE tree[d].tag \notin {"modifier", "base", "struct"}
    <3>1. IsCut(p)
      BY <1>3, <2>1, <2>5 DEF IsCut
    <3>2. \A b : PartText(text, p, b) = Cut
      BY <1>3, <2>1, <2>5, ValueIs
    <3> QED
      BY <1>1, <3>1, <3>2
  <2> QED
    BY <2>2, <2>3, <2>4, <2>5
<1>4. CASE p = Rest(d) /\ d # 0
  <2>1. p[1] = "rest" /\ \A b : PartText(text, p, b) = RestText(text, d, b)
    BY <1>4, PartIs DEF PartText
  <2> SUFFICES ASSUME NEW q, q = Value(tree[d].type), NEW r, r = Rest(NextMember(d)), NEW o \in Nat, o = tree[d].offset
               PROVE  /\ Len(PartText(text, p, a)) = Len(PartText(text, p, 0))
                      /\ HasCut(PartText(text, p, a)) <=> IsCut(p) \/ \E x \in PartsOf(p) : HasCut(text[x][0])
    BY <1>4, MemberTypes
  <2>2. q \in Parts /\ r \in Parts /\ Heading(d) \in Seq(Pieces) /\ ~HasCut(Heading(d))
    BY <1>4, MemberTypes, PartIs, HeadingTypes DEF HasCut
  <2>3. PartsOf(p) = {q, r} /\ ~IsCut(p)
    BY <1>4, <2>1, <2>2 DEF PartsOf, IsCut
  <2>4. \A b : PartText(text, p, b) = Heading(d) \o text[q][b + o] \o text[r][b]
    <3>1. \A b : RestText(text, d, b) = Heading(d) \o text[Value(tree[d].type)][b + tree[d].offset]
                                        \o text[Rest(NextMember(d))][b]
      BY <1>4, RestIs
    <3> QED
      BY <2>1, <3>1, Zenon
  <2>5. ASSUME NEW b \in Nat
        PROVE  /\ Len(PartText(text, p, b)) = Len(Heading(d)) + Len(text[q][0]) + Len(text[r][0])
               /\ HasCut(PartText(text, p, b)) <=> HasCut(text[q][0]) \/ HasCut(text[r][0])
    <3>0. PICK c \in Nat : c = b + o
      OBVIOUS
    <3>1. /\ text[q][c] \in Seq(Pieces) /\ Len(text[q][c]) = Len(text[q][0]) /\ (HasCut(text[q][c]) <=> HasCut(text[q][0]))
          /\ text[r][b] \in Seq(Pieces) /\ Len(text[r][b]) = Len(text[r][0]) /\ (HasCut(text[r][b]) <=> HasCut(text[r][0]))
      BY <1>2, <2>2
    <3>2. Heading(d) \o text[q][c] \in Seq(Pieces) /\ Len(Heading(d) \o text[q][c]) = Len(Heading(d)) + Len(text[q][c])
      BY <2>2, <3>1, JoinPieces, Zenon
    <3>3. HasCut(Heading(d) \o text[q][c]) <=> HasCut(text[q][c])
      BY <2>2, <3>1, JoinCuts
    <3>4. Len((Heading(d) \o text[q][c]) \o text[r][b]) = Len(Heading(d) \o text[q][c]) + Len(text[r][b])
      BY <3>1, <3>2, JoinPieces, Zenon
    <3>5. HasCut((Heading(d) \o text[q][c]) \o text[r][b]) <=> HasCut(Heading(d) \o text[q][c]) \/ HasCut(text[r][b])
      BY <3>1, <3>2, JoinCuts
    <3>6. PartText(text, p, b) = (Heading(d) \o text[q][c]) \o text[r][b]
      BY <2>4, <3>0, Zenon
    <3> QED
      BY <3>1, <3>2, <3>3, <3>4, <3>5, <3>6
  <2> QED
    BY <1>1, <2>3, <2>5
<1>5. CASE p = Value(0) /\ d = 0
  <2>1. \A b : PartText(text, p, b) = Cut
    BY <1>5, ValueIs, PartIs DEF PartText
  <2>2. IsCut(p)
    BY <1>5, PartIs DEF IsCut
  <2> QED
    BY <1>1, <2>1, <2>2
<1>6. CASE p = Rest(0) /\ d = 0
  <2>1. \A b : PartText(text, p, b) = <<Piece("close", 0, 0)>>
    <3>1. p[1] # "value" /\ p[2] = 0
      BY <1>6, PartIs
    <3>2. \A b : PartText(text, p, b) = RestText(text, 0, b)
      BY <3>1 DEF PartText
    <3> QED
      BY <3>2, RestIs, Zenon
  <2>2. ~IsCut(p) /\ PartsOf(p) = {}
    BY <1>6, PartIs DEF IsCut, PartsOf
  <2> QED
    BY <1>1, <2>1, <2>2
<1> QED
  BY <1>3, <1>4, <1>5, <1>6, PartKinds

(* The text of a part depends on the texts of its own parts only.          *)
LEMMA PartSame ==
  ASSUME tree \in Trees, NEW text, NEW other, NEW p \in Parts, \A q \in PartsOf(p) : text[q] = other[q], NEW a
  PROVE  PartText(text, p, a) = PartText(other, p, a)
<1> SUFFICES ASSUME NEW d \in Dies \cup {0}, d = p[2] PROVE PartText(text, p, a) = PartText(other, p, a)
  BY PartKinds
<1>1. CASE p = Value(d) /\ d # 0
  <2>1. Value(tree[d].type) \in Parts /\ Rest(FirstOf(d)) \in Parts /\ p[1] = "value"
    BY <1>1, MemberTypes, PartIs
  <2>2. tree[d].tag = "modifier" => Value(tree[d].type) \in PartsOf(p)
    BY <1>1, <2>1 DEF PartsOf
  <2>3. tree[d].tag = "struct" => Rest(FirstOf(d)) \in PartsOf(p)
    BY <1>1, <2>1 DEF PartsOf
  <2>4. ValueText(text, d, a) = ValueText(other, d, a)
    <3>1. CASE tree[d].tag = "modifier"
      <4>1. text[Value(tree[d].type)] = other[Value(tree[d].type)]
        BY <2>2, <3>1
      <4>2. \A x : ValueText(x, d, a) = x[Value(tree[d].type)][a]
        BY <1>1, <3>1, ValueIs
      <4> QED
        BY <4>1, <4>2
    <3>2. CASE tree[d].tag = "struct"
      <4>1. text[Rest(FirstOf(d))] = other[Rest(FirstOf(d))]
        BY <2>3, <3>2
      <4>2. \A x : ValueText(x, d, a) = <<Piece("open", 0, 0)>> \o x[Rest(FirstOf(d))][a]
        BY <1>1, <3>2, ValueIs
      <4> QED
        BY <4>1, <4>2, Zenon
    <3>3. CASE tree[d].tag = "base"
      BY <1>1, <3>3, ValueIs
    <3>4. CASE tree[d].tag \notin {"modifier", "base", "struct"}
      BY <1>1, <3>4, ValueIs
    <3> QED
      BY <3>1, <3>2, <3>3, <3>4
  <2> QED
    BY <1>1, <2>1, <2>4 DEF PartText
<1>2. CASE p = Rest(d) /\ d # 0
  <2>1. Value(tree[d].type) \in Parts /\ Rest(NextMember(d)) \in Parts /\ p[1] = "rest"
    BY <1>2, MemberTypes, PartIs
  <2>2. Value(tree[d].type) \in PartsOf(p) /\ Rest(NextMember(d)) \in PartsOf(p)
    BY <1>2, <2>1 DEF PartsOf
  <2>3. RestText(text, d, a) = RestText(other, d, a)
    <3>1. text[Value(tree[d].type)] = other[Value(tree[d].type)] /\ text[Rest(NextMember(d))] = other[Rest(NextMember(d))]
      BY <2>2
    <3>2. \A x : RestText(x, d, a) = Heading(d) \o x[Value(tree[d].type)][a + tree[d].offset] \o x[Rest(NextMember(d))][a]
      <4> SUFFICES ASSUME NEW x
                   PROVE  RestText(x, d, a) = Heading(d) \o x[Value(tree[d].type)][a + tree[d].offset] \o x[Rest(NextMember(d))][a]
        OBVIOUS
      <4>1. d # 0
        BY <1>2
      <4>2. d # 0 => RestText(x, d, a) = Heading(d) \o x[Value(tree[d].type)][a + tree[d].offset] \o x[Rest(NextMember(d))][a]
        BY DEF RestText, Value, Rest, Heading
      <4> QED
        BY <4>1, <4>2, Zenon
    <3> QED
      BY <3>1, <3>2, Zenon
  <2> QED
    BY <1>2, <2>1, <2>3 DEF PartText
<1>3. CASE d = 0
  <2>1. ValueText(text, 0, a) = ValueText(other, 0, a)
    BY ValueIs, Zenon
  <2>2. RestText(text, 0, a) = RestText(other, 0, a)
    BY RestIs, Zenon
  <2> QED
    BY <1>3, <2>1, <2>2 DEF PartText
<1> QED
  BY <1>1, <1>2, <1>3, PartKinds

(* The address of a part changes neither its length nor whether it is cut. *)
LEMMA TextIsUniform ==
  ASSUME tree \in Trees
  PROVE  \A n \in 0 .. Depth : Uniform(Text[n])
<1> DEFINE P == {n \in 0 .. Depth : Uniform(Text[n])}
<1>1. /\ Depth \in Nat /\ Text[0] = AllCut /\ \A n \in 0 .. Depth : Text[n] \in Texts
      /\ \A n \in 1 .. Depth : Text[n] = PartsText(Text[n - 1])
  BY DepthTypes, TextLevels
<1>2. 0 \in P
  BY <1>1 DEF AllCut, Uniform, Alike
<1>3. ASSUME NEW n \in 1 .. Depth, n - 1 \in P PROVE n \in P
  <2> SUFFICES ASSUME NEW f, f = Text[n - 1] PROVE n \in P
    OBVIOUS
  <2>1. f \in Texts /\ Uniform(f) /\ Text[n] = PartsText(f) /\ n \in 0 .. Depth
    BY <1>1, <1>3
  <2>2. ASSUME NEW q \in Parts, NEW a \in Nat PROVE Alike(Text[n][q][a], Text[n][q][0])
    <3>1. Text[n][q][a] = PartText(f, q, a) /\ Text[n][q][0] = PartText(f, q, 0)
      BY <2>1 DEF PartsText
    <3>2. /\ Len(PartText(f, q, a)) = Len(PartText(f, q, 0))
          /\ HasCut(PartText(f, q, a)) <=> IsCut(q) \/ \E r \in PartsOf(q) : HasCut(f[r][0])
      BY <2>1, PartShape
    <3>3. HasCut(PartText(f, q, 0)) <=> IsCut(q) \/ \E r \in PartsOf(q) : HasCut(f[r][0])
      BY <2>1, PartShape
    <3> QED
      BY <3>1, <3>2, <3>3 DEF Alike
  <2> QED
    BY <2>1, <2>2 DEF Uniform
<1> HIDE DEF P
<1>4. \A n \in 0 .. Depth : n \in P
  BY <1>1, <1>2, <1>3, InductionTo
<1> QED
  BY <1>4 DEF P

(* The parts that are not cut at level n, and those that then follow.      *)
UncutAt(n) == {p \in Parts : ~HasCut(Text[n][p][0])}
Settled(S) == {p \in Parts : ~IsCut(p) /\ PartsOf(p) \subseteq S}

(* The parts of a part are parts.                                          *)
LEMMA PartsOfTypes == ASSUME NEW p \in Parts PROVE PartsOf(p) \subseteq Parts
BY DEF PartsOf

(* The parts that are not cut at a level are those that have parts of      *)
(* their own that are not cut at the level before.                         *)
LEMMA UncutLevels ==
  ASSUME tree \in Trees
  PROVE  UncutAt(0) = {} /\ \A n \in 1 .. Depth : UncutAt(n) = Settled(UncutAt(n - 1))
<1>1. /\ Depth \in Nat /\ Text[0] = AllCut /\ \A n \in 0 .. Depth : Text[n] \in Texts /\ Uniform(Text[n])
      /\ \A n \in 1 .. Depth : Text[n] = PartsText(Text[n - 1])
  BY DepthTypes, TextLevels, TextIsUniform
<1>2. UncutAt(0) = {}
  <2>1. HasCut(Cut)
    BY PieceCuts, DieNumbers
  <2> QED
    BY <1>1, <2>1 DEF UncutAt, AllCut
<1>3. ASSUME NEW n \in 1 .. Depth PROVE UncutAt(n) = Settled(UncutAt(n - 1))
  <2> SUFFICES ASSUME NEW f, f = Text[n - 1] PROVE UncutAt(n) = Settled(UncutAt(n - 1))
    OBVIOUS
  <2>1. f \in Texts /\ Uniform(f) /\ Text[n] = PartsText(f)
    BY <1>1
  <2>2. ASSUME NEW p \in Parts PROVE p \in UncutAt(n) <=> p \in Settled(UncutAt(n - 1))
    <3>1. HasCut(Text[n][p][0]) <=> IsCut(p) \/ \E q \in PartsOf(p) : HasCut(f[q][0])
      <4>1. Text[n][p][0] = PartText(f, p, 0)
        BY <2>1 DEF PartsText
      <4>2. HasCut(PartText(f, p, 0)) <=> IsCut(p) \/ \E q \in PartsOf(p) : HasCut(f[q][0])
        BY <2>1, PartShape
      <4> QED
        BY <4>1, <4>2
    <3>2. \A q \in PartsOf(p) : q \in UncutAt(n - 1) <=> ~HasCut(f[q][0])
      BY PartsOfTypes DEF UncutAt
    <3> QED
      BY <3>1, <3>2 DEF UncutAt, Settled
  <2> QED
    BY <2>2 DEF UncutAt, Settled
<1> QED
  BY <1>2, <1>3

(* More parts that are not cut settle more parts.                          *)
LEMMA SettledRises ==
  ASSUME NEW R, NEW S, R \subseteq S
  PROVE  Settled(R) \subseteq Settled(S)
BY DEF Settled

(* A part that is not cut at a level is not cut at the next.               *)
LEMMA UncutRises ==
  ASSUME tree \in Trees
  PROVE  \A n \in 1 .. Depth : UncutAt(n - 1) \subseteq UncutAt(n)
<1> DEFINE P == {n \in 0 .. Depth : n # 0 => UncutAt(n - 1) \subseteq UncutAt(n)}
<1>1. Depth \in Nat /\ UncutAt(0) = {} /\ \A n \in 1 .. Depth : UncutAt(n) = Settled(UncutAt(n - 1))
  BY DepthTypes, UncutLevels
<1>2. 0 \in P
  BY <1>1
<1>3. ASSUME NEW n \in 1 .. Depth, n - 1 \in P PROVE n \in P
  <2>1. CASE n = 1
    BY <1>1, <2>1
  <2>2. CASE n # 1
    <3>1. n - 1 \in 1 .. Depth /\ n - 1 # 0
      BY <1>1, <2>2
    <3>2. UncutAt((n - 1) - 1) \subseteq UncutAt(n - 1)
      BY <1>3, <3>1
    <3>3. UncutAt(n - 1) = Settled(UncutAt((n - 1) - 1)) /\ UncutAt(n) = Settled(UncutAt(n - 1))
      BY <1>1, <3>1
    <3>4. UncutAt(n - 1) \subseteq UncutAt(n)
      BY <3>2, <3>3, SettledRises
    <3> QED
      BY <1>1, <3>4
  <2> QED
    BY <2>1, <2>2
<1> HIDE DEF P
<1>4. \A n \in 0 .. Depth : n \in P
  BY <1>1, <1>2, <1>3, InductionTo
<1>5. \A n \in 1 .. Depth : n \in 0 .. Depth /\ n # 0
  BY <1>1
<1> QED
  BY <1>4, <1>5 DEF P

(* As many levels as there are parts reach every part that ends.           *)
LEMMA UncutCloses ==
  ASSUME tree \in Trees
  PROVE  Settled(UncutAt(Depth)) = UncutAt(Depth)
<1> DEFINE P == {n \in 0 .. Depth : Settled(UncutAt(n)) = UncutAt(n) \/ Cardinality(UncutAt(n)) >= n}
<1>1. /\ Depth \in Nat /\ IsFiniteSet(Parts) /\ UncutAt(0) = {}
      /\ \A n \in 1 .. Depth : UncutAt(n) = Settled(UncutAt(n - 1)) /\ UncutAt(n - 1) \subseteq UncutAt(n)
  BY DepthTypes, UncutLevels, UncutRises
<1>2. \A n : UncutAt(n) \subseteq Parts /\ IsFiniteSet(UncutAt(n)) /\ Cardinality(UncutAt(n)) \in Nat
  <2>1. \A n : UncutAt(n) \subseteq Parts
    BY DEF UncutAt
  <2> QED
    BY <1>1, <2>1, FS_Subset, FS_CardinalityType
<1>3. 0 \in P
  BY <1>1, <1>2
<1>4. ASSUME NEW n \in 1 .. Depth, n - 1 \in P PROVE n \in P
  <2> DEFINE R == UncutAt(n - 1)
             S == UncutAt(n)
  <2>1. S = Settled(R) /\ R \subseteq S /\ IsFiniteSet(S) /\ Cardinality(S) \in Nat /\ Cardinality(R) \in Nat
    BY <1>1, <1>2
  <2>2. CASE S = R
    BY <2>1, <2>2
  <2>3. CASE S # R
    <3>1. Cardinality(R) >= n - 1
      BY <1>4, <2>1, <2>3
    <3>2. Cardinality(R) < Cardinality(S)
      <4>1. Cardinality(R) <= Cardinality(S) /\ (Cardinality(R) = Cardinality(S) => R = S)
        BY <2>1, FS_Subset
      <4> QED
        BY <2>1, <2>3, <4>1
    <3> QED
      BY <2>1, <3>1, <3>2
  <2> QED
    BY <2>2, <2>3
<1>5. Depth \in P
  <2> HIDE DEF P
  <2>1. \A n \in 0 .. Depth : n \in P
    BY <1>1, <1>3, <1>4, InductionTo
  <2> QED
    BY <1>1, <2>1
<1>6. CASE Cardinality(UncutAt(Depth)) >= Depth
  <2>1. Cardinality(UncutAt(Depth)) <= Cardinality(Parts)
        /\ (Cardinality(UncutAt(Depth)) = Cardinality(Parts) => UncutAt(Depth) = Parts)
    BY <1>1, <1>2, FS_Subset
  <2>2. UncutAt(Depth) = Parts
    BY <1>1, <1>2, <1>6, <2>1 DEF Depth
  <2>3. CASE Depth = 0
    BY <1>1, <2>2, <2>3 DEF Settled
  <2>4. CASE Depth # 0
    <3>1. Depth \in 1 .. Depth
      BY <1>1, <2>4
    <3>2. Parts \subseteq Settled(UncutAt(Depth - 1)) /\ UncutAt(Depth - 1) \subseteq UncutAt(Depth)
      BY <1>1, <2>2, <3>1
    <3>3. Parts \subseteq Settled(UncutAt(Depth))
      BY <3>2, SettledRises
    <3> QED
      BY <2>2, <3>3 DEF Settled
  <2> QED
    BY <2>3, <2>4
<1> QED
  BY <1>5, <1>6

(* The text of a part that is not cut is the same from there on.           *)
LEMMA TextStays ==
  ASSUME tree \in Trees
  PROVE  \A n \in 1 .. Depth : \A p \in UncutAt(n - 1) : Text[n][p] = Text[n - 1][p]
<1> DEFINE P == {n \in 0 .. Depth : n # 0 => \A p \in UncutAt(n - 1) : Text[n][p] = Text[n - 1][p]}
<1>1. /\ Depth \in Nat /\ UncutAt(0) = {} /\ \A n \in 1 .. Depth : UncutAt(n) = Settled(UncutAt(n - 1))
      /\ \A n \in 1 .. Depth : Text[n] = PartsText(Text[n - 1])
  BY DepthTypes, UncutLevels, TextLevels
<1>2. 0 \in P
  BY <1>1
<1>3. ASSUME NEW n \in 1 .. Depth, n - 1 \in P PROVE n \in P
  <2>1. CASE n = 1
    BY <1>1, <2>1
  <2>2. CASE n # 1
    <3>1. n - 1 \in 1 .. Depth /\ n - 1 # 0
      BY <1>1, <2>2
    <3> SUFFICES ASSUME NEW f, f = Text[n - 1], NEW g, g = Text[(n - 1) - 1] PROVE n \in P
      OBVIOUS
    <3>2. \A q \in UncutAt((n - 1) - 1) : f[q] = g[q]
      BY <1>3, <3>1
    <3>3. UncutAt(n - 1) = Settled(UncutAt((n - 1) - 1)) /\ Text[n] = PartsText(f) /\ f = PartsText(g)
      BY <1>1, <3>1
    <3>4. ASSUME NEW p \in UncutAt(n - 1) PROVE Text[n][p] = f[p]
      <4>1. p \in Parts /\ \A q \in PartsOf(p) : f[q] = g[q]
        BY <3>2, <3>3, <3>4 DEF Settled
      <4>2. \A a \in Nat : PartText(f, p, a) = PartText(g, p, a)
        BY <4>1, PartSame
      <4>3. Text[n][p] = [a \in Nat |-> PartText(f, p, a)] /\ f[p] = [a \in Nat |-> PartText(g, p, a)]
        BY <3>3, <4>1 DEF PartsText
      <4> QED
        BY <4>2, <4>3
    <3> QED
      BY <1>1, <3>4
  <2> QED
    BY <2>1, <2>2
<1> HIDE DEF P
<1>4. \A n \in 0 .. Depth : n \in P
  BY <1>1, <1>2, <1>3, InductionTo
<1>5. \A n \in 1 .. Depth : n \in 0 .. Depth /\ n # 0
  BY <1>1
<1> QED
  BY <1>4, <1>5 DEF P

(* The whole texts: those of the parts that do not contain themselves.     *)
T(p, a) == Text[Depth][p][a]
Ends(p) == p \in Parts /\ ~HasCut(T(p, 0))

(* What Text says at its last level, without the levels: a part ends if    *)
(* its own parts do, and then its text is made of theirs.                  *)
LEMMA WholeTexts ==
  ASSUME tree \in Trees, NEW p \in Parts
  PROVE  /\ Ends(p) <=> ~IsCut(p) /\ \A q \in PartsOf(p) : Ends(q)
         /\ \A a \in Nat : T(p, a) \in Seq(Pieces) /\ Len(T(p, a)) = Len(T(p, 0))
         /\ Ends(p) => \A a \in Nat : T(p, a) = PartText(Text[Depth], p, a)
<1>1. /\ Depth \in Nat /\ \A n \in 0 .. Depth : Text[n] \in Texts /\ Uniform(Text[n])
      /\ \A n \in 1 .. Depth : Text[n] = PartsText(Text[n - 1]) /\ UncutAt(n) = Settled(UncutAt(n - 1))
      /\ UncutAt(0) = {} /\ Settled(UncutAt(Depth)) = UncutAt(Depth)
      /\ \A n \in 1 .. Depth : \A q \in UncutAt(n - 1) : Text[n][q] = Text[n - 1][q]
  BY DepthTypes, TextLevels, TextIsUniform, UncutLevels, UncutCloses, TextStays
<1>2. \A q : Ends(q) <=> q \in UncutAt(Depth)
  BY DEF Ends, UncutAt, T
<1>3. Ends(p) <=> ~IsCut(p) /\ \A q \in PartsOf(p) : Ends(q)
  <2>1. p \in UncutAt(Depth) <=> ~IsCut(p) /\ PartsOf(p) \subseteq UncutAt(Depth)
    BY <1>1 DEF Settled
  <2> QED
    BY <1>2, <2>1
<1>4. ASSUME NEW a \in Nat PROVE T(p, a) \in Seq(Pieces) /\ Len(T(p, a)) = Len(T(p, 0))
  <2>1. Text[Depth] \in Texts /\ Uniform(Text[Depth])
    BY <1>1
  <2> QED
    BY <2>1 DEF T, Texts, Uniform, Alike
<1>5. ASSUME Ends(p), NEW a \in Nat PROVE T(p, a) = PartText(Text[Depth], p, a)
  <2>1. Depth \in 1 .. Depth
    BY <1>1, <1>2, <1>5
  <2> SUFFICES ASSUME NEW f, f = Text[Depth - 1], NEW g, g = Text[Depth] PROVE T(p, a) = PartText(g, p, a)
    OBVIOUS
  <2>2. \A q \in PartsOf(p) : q \in UncutAt(Depth - 1)
    BY <1>1, <1>2, <1>5, <2>1 DEF Settled
  <2>3. \A q \in PartsOf(p) : f[q] = g[q]
    BY <1>1, <2>1, <2>2
  <2>4. PartText(f, p, a) = PartText(g, p, a)
    BY <2>3, PartSame
  <2>5. T(p, a) = PartText(f, p, a)
    <3>1. g = PartsText(f)
      BY <1>1, <2>1
    <3>2. T(p, a) = g[p][a]
      BY DEF T
    <3> QED
      BY <3>1, <3>2 DEF PartsText
  <2> QED
    BY <2>4, <2>5
<1> QED
  BY <1>3, <1>4, <1>5

(* The whole texts of values and of what is left of structs.               *)
LEMMA ValueEnds ==
  ASSUME tree \in Trees, NEW t \in Dies \cup {0}
  PROVE  /\ Ends(Value(t)) => t # 0 /\ tree[t].tag \in {"modifier", "base", "struct"}
         /\ t # 0 /\ tree[t].tag = "base" => Ends(Value(t))
         /\ t # 0 /\ tree[t].tag = "modifier" => (Ends(Value(t)) <=> Ends(Value(tree[t].type)))
         /\ t # 0 /\ tree[t].tag = "struct" => (Ends(Value(t)) <=> Ends(Rest(FirstOf(t))))
<1>1. Value(t) \in Parts /\ Value(t)[1] = "value" /\ Value(t)[2] = t
  BY PartIs
<1>2. Ends(Value(t)) <=> ~IsCut(Value(t)) /\ \A q \in PartsOf(Value(t)) : Ends(q)
  BY <1>1, WholeTexts
<1>3. IsCut(Value(t)) <=> t = 0 \/ tree[t].tag \notin {"modifier", "base", "struct"}
  BY <1>1 DEF IsCut
<1>4. t # 0 => Value(tree[t].type) \in Parts /\ Rest(FirstOf(t)) \in Parts
  BY MemberTypes, PartIs
<1>5. t # 0 /\ tree[t].tag = "base" => PartsOf(Value(t)) = {}
  BY <1>1 DEF PartsOf
<1>6. t # 0 /\ tree[t].tag = "modifier" => PartsOf(Value(t)) = {Value(tree[t].type)}
  BY <1>1, <1>4 DEF PartsOf
<1>7. t # 0 /\ tree[t].tag = "struct" => PartsOf(Value(t)) = {Rest(FirstOf(t))}
  BY <1>1, <1>4 DEF PartsOf
<1> QED
  BY <1>2, <1>3, <1>5, <1>6, <1>7

(* The whole text of a value that ends.                                    *)
LEMMA ValueTextIs ==
  ASSUME tree \in Trees, NEW t \in Dies, Ends(Value(t)), NEW a \in Nat
  PROVE  /\ tree[t].tag = "base" => T(Value(t), a) = <<Piece("value", t, a)>>
         /\ tree[t].tag = "modifier" => T(Value(t), a) = T(Value(tree[t].type), a)
         /\ tree[t].tag = "struct" => T(Value(t), a) = <<Piece("open", 0, 0)>> \o T(Rest(FirstOf(t)), a)
<1>1. t # 0 /\ Value(t) \in Parts /\ Value(t)[1] = "value" /\ Value(t)[2] = t
  BY PartIs, DieNumbers
<1>2. T(Value(t), a) = PartText(Text[Depth], Value(t), a)
  BY <1>1, WholeTexts
<1>3. T(Value(t), a) = ValueText(Text[Depth], t, a)
  BY <1>1, <1>2 DEF PartText
<1> SUFFICES ASSUME NEW f, f = Text[Depth]
             PROVE  /\ tree[t].tag = "base" => T(Value(t), a) = <<Piece("value", t, a)>>
                    /\ tree[t].tag = "modifier" => T(Value(t), a) = T(Value(tree[t].type), a)
                    /\ tree[t].tag = "struct" => T(Value(t), a) = <<Piece("open", 0, 0)>> \o T(Rest(FirstOf(t)), a)
  OBVIOUS
<1>4. \A p : T(p, a) = f[p][a]
  BY DEF T
<1>5. T(Value(t), a) = ValueText(f, t, a)
  BY <1>3
<1>6. CASE tree[t].tag = "base"
  <2>1. ValueText(f, t, a) = <<Piece("value", t, a)>>
    BY <1>1, <1>6, ValueIs
  <2> QED
    BY <1>5, <1>6, <2>1
<1>7. CASE tree[t].tag = "modifier"
  <2>1. ValueText(f, t, a) = f[Value(tree[t].type)][a]
    BY <1>1, <1>7, ValueIs
  <2> QED
    BY <1>4, <1>5, <1>7, <2>1
<1>8. CASE tree[t].tag = "struct"
  <2>1. ValueText(f, t, a) = <<Piece("open", 0, 0)>> \o f[Rest(FirstOf(t))][a]
    BY <1>1, <1>8, ValueIs, SMTT(30)
  <2>2. f[Rest(FirstOf(t))][a] = T(Rest(FirstOf(t)), a)
    BY <1>4
  <2>3. T(Value(t), a) = <<Piece("open", 0, 0)>> \o T(Rest(FirstOf(t)), a)
    BY <1>5, <2>1, <2>2, Zenon
  <2> QED
    BY <1>8, <2>3
<1> QED
  BY <1>6, <1>7, <1>8

(* The rest of a struct ends if the value of its first member and the rest *)
(* behind it do.                                                           *)
LEMMA RestEnds ==
  ASSUME tree \in Trees, NEW m \in Dies
  PROVE  /\ Ends(Rest(0))
         /\ Ends(Rest(m)) <=> Ends(Value(tree[m].type)) /\ Ends(Rest(NextMember(m)))
<1>1. /\ Rest(m) \in Parts /\ Rest(m)[1] = "rest" /\ Rest(m)[2] = m /\ m # 0
      /\ Rest(0) \in Parts /\ Rest(0)[1] = "rest" /\ Rest(0)[2] = 0
  BY PartIs, DieNumbers
<1>2. /\ Ends(Rest(m)) <=> ~IsCut(Rest(m)) /\ \A q \in PartsOf(Rest(m)) : Ends(q)
      /\ Ends(Rest(0)) <=> ~IsCut(Rest(0)) /\ \A q \in PartsOf(Rest(0)) : Ends(q)
  BY <1>1, WholeTexts
<1>3. ~IsCut(Rest(m)) /\ ~IsCut(Rest(0))
  BY <1>1 DEF IsCut
<1>4. Value(tree[m].type) \in Parts /\ Rest(NextMember(m)) \in Parts
  BY MemberTypes, PartIs
<1>5. PartsOf(Rest(0)) = {} /\ PartsOf(Rest(m)) = {Value(tree[m].type), Rest(NextMember(m))}
  BY <1>1, <1>4 DEF PartsOf
<1> QED
  BY <1>2, <1>3, <1>5

(* The whole text of the rest of a struct that ends.                       *)
LEMMA RestTextIs ==
  ASSUME tree \in Trees, NEW m \in Dies, NEW a \in Nat
  PROVE  /\ T(Rest(0), a) = <<Piece("close", 0, 0)>>
         /\ Ends(Rest(m)) => T(Rest(m), a) = Heading(m) \o T(Value(tree[m].type), a + tree[m].offset)
                                             \o T(Rest(NextMember(m)), a)
<1>1. /\ Rest(m) \in Parts /\ Rest(m)[1] # "value" /\ Rest(m)[2] = m /\ m # 0
      /\ Rest(0) \in Parts /\ Rest(0)[1] # "value" /\ Rest(0)[2] = 0
  BY PartIs, DieNumbers
<1>2. /\ T(Rest(0), a) = PartText(Text[Depth], Rest(0), a)
      /\ Ends(Rest(m)) => T(Rest(m), a) = PartText(Text[Depth], Rest(m), a)
  BY <1>1, WholeTexts, RestEnds
<1>3. /\ T(Rest(0), a) = RestText(Text[Depth], 0, a)
      /\ Ends(Rest(m)) => T(Rest(m), a) = RestText(Text[Depth], m, a)
  BY <1>1, <1>2 DEF PartText
<1>4. RestText(Text[Depth], 0, a) = <<Piece("close", 0, 0)>>
  BY DEF RestText
<1>5. RestText(Text[Depth], m, a) = Heading(m) \o T(Value(tree[m].type), a + tree[m].offset) \o T(Rest(NextMember(m)), a)
  BY <1>1 DEF RestText, Heading, T, Value, Rest
<1> QED
  BY <1>3, <1>4, <1>5

(* A tree that does not change has the same texts.                         *)
LEMMA SameText ==
  ASSUME tree' = tree
  PROVE  /\ \A s : MembersOf(s)' = MembersOf(s)
         /\ \A d : NextMember(d)' = NextMember(d) /\ FirstOf(d)' = FirstOf(d)
         /\ \A p, a : T(p, a)' = T(p, a)
         /\ \A p : Ends(p)' = Ends(p)
<1>1. Text' = Text
  BY DEF Text, ValueText, RestText, NextMember, MembersOf, ChildrenOf, IsFirstOne
<1>2. \A s : MembersOf(s)' = MembersOf(s)
  BY DEF MembersOf, ChildrenOf
<1>3. \A d : NextMember(d)' = NextMember(d) /\ FirstOf(d)' = FirstOf(d)
  BY DEF NextMember, FirstOf, MembersOf, ChildrenOf
<1> QED
  BY <1>1, <1>2, <1>3 DEF T, Ends, HasCut

-----------------------------------------------------------------------------
(* While a value is printed: the text so far, what is being printed and    *)
(* what the structs that wait have left are the whole value (Balance).  A  *)
(* value that has no whole text, or one that is given up, is followed only *)
(* as far as its length goes.                                              *)

(* The parameters' walk is no struct.                                      *)
Bottom  == IF cmd.what = "local" THEN 0 ELSE 1
InValue == step \in {"type", "printed"} \/ (step \in {"walk", "tag", "item"} /\ Members)

(* The structs that wait for a value of their current member.              *)
Waiting == IF step \in {"type", "printed"} THEN Walking ELSE Walking - 1
Left(k) == Rest(NextMember(WalkCur(k)))
LeftText(k) == T(Left(k), walks[k].base)

(* What is being printed.                                                  *)
Coming  == {m \in MembersOf(top.of) : m > top.cur \/ (m = top.cur /\ step # "walk")}
Part    == IF step = "type" THEN Value(tree[target].type) ELSE Rest(First(Coming))
NowEnds == step = "printed" \/ Ends(Part)
NowText == IF step = "printed" THEN <<>> ELSE T(Part, IF step = "type" THEN base ELSE top.base)

RootPart == Value(tree[Root].type)
Exact    == /\ cmd.what = "local" /\ "cut" \notin faults /\ \A d \in Dies : Plain(d)
            /\ step = "printed" => ret = "OK"

(* The whole value is the text so far, what is being printed and what is   *)
(* left.                                                                   *)
Stack(rs, m) == /\ rs \in [Nat -> Seq(Pieces)] /\ rs[Bottom] = <<>>
                /\ \A k \in Bottom + 1 .. m : rs[k] = LeftText(k) \o rs[k - 1]
Fits(rs, m, o, now) ==
  /\ Stack(rs, m)
  /\ Len(o) + Len(now) + Len(rs[m]) <= Len(Whole)
  /\ Exact => (o \o now) \o rs[m] = Whole

LeftEnds(m) == \A k \in Bottom + 1 .. m : Ends(Left(k))
Balance(o, e, now, m) ==
  /\ Ends(RootPart) => e /\ LeftEnds(m)
  /\ Exact /\ e /\ LeftEnds(m) => Ends(RootPart)
  /\ Ends(RootPart) => \E rs : Fits(rs, m, o, now)

(* The result while the command goes on.                                   *)
Goes == step \in {"search", "walk", "tag", "item", "type"}
RetIs == (Goes => ret = "OK") /\ (step = "printed" => ret \in {"OK", "NO_ENTRY", "ERROR"})

(* A comma is written unless the last piece is an open brace: it is one    *)
(* exactly if no member has been printed.                                  *)
LastIsOpen == out[Len(out)].is = "open"
Separated ==
  /\ step \in {"walk", "tag", "item"} /\ Members => out # <<>> /\ (LastIsOpen <=> Coming = MembersOf(top.of))
  /\ step = "printed" /\ ret = "OK" /\ Walking > Bottom => out # <<>> /\ ~LastIsOpen

(* What holds while a value is printed, and the whole invariant.           *)
ValueInv ==
  /\ out \in Seq(Pieces) /\ Bottom <= Waiting
  /\ \A k \in Bottom + 1 .. Waiting : tree[WalkCur(k)].tag = "member"
  /\ Separated
  /\ Balance(out, NowEnds, NowText, Waiting)

TextInv ==
  /\ RetIs
  /\ step \in {"search", "call", "return", "sibling"} => base = 0 /\ out = <<>>
  /\ InValue => ValueInv
  /\ PrintsWholeValue /\ OverrunsIfTooLong

(* What stays the same when the walks below do.                            *)
LEMMA SameRoot ==
  ASSUME UNCHANGED <<tree, cmd, var_die>>, NEW m \in Nat, Bottom <= m, \A k \in 1 .. m : walks'[k] = walks[k]
  PROVE  /\ Bottom' = Bottom /\ Root' = Root /\ Whole' = Whole /\ RootPart' = RootPart
         /\ Ends(RootPart)' = Ends(RootPart)
         /\ \A k \in Bottom + 1 .. m : Left(k)' = Left(k) /\ LeftText(k)' = LeftText(k) /\ k \in 1 .. m
         /\ LeftEnds(m)' = LeftEnds(m)
         /\ \A rs : Stack(rs, m)' = Stack(rs, m)
<1>1. Bottom' = Bottom /\ Bottom \in Nat /\ \A k \in Bottom + 1 .. m : k \in 1 .. m
  BY DEF Bottom
<1>2. Root' = Root
  <2>1. cmd.what # "local" => 1 \in 1 .. m
    BY <1>1 DEF Bottom
  <2> QED
    BY <2>1 DEF Root
<1>3. RootPart' = RootPart
  BY <1>2 DEF RootPart, Value
<1>4. Whole' = Whole
  <2>1. Whole = T(RootPart, 0) /\ Whole' = T(RootPart, 0)'
    BY DEF Whole, RootPart, T, Value
  <2>2. T(RootPart, 0)' = T(RootPart', 0)
    BY SameText
  <2> QED
    BY <1>3, <2>1, <2>2
<1>5. Ends(RootPart)' = Ends(RootPart)
  <2>1. Ends(RootPart)' = Ends(RootPart')
    BY SameText DEF Ends
  <2> QED
    BY <1>3, <2>1
<1>6. ASSUME NEW k \in Bottom + 1 .. m PROVE Left(k)' = Left(k) /\ LeftText(k)' = LeftText(k)
  <2>1. walks'[k] = walks[k]
    BY <1>1
  <2>2. Left(k)' = Left(k)
    BY <2>1, SameText DEF Left, WalkCur, Rest
  <2>3. LeftText(k)' = T(Left(k)', walks'[k].base)
    BY SameText DEF LeftText
  <2> QED
    BY <2>1, <2>2, <2>3 DEF LeftText
<1>7. LeftEnds(m)' = LeftEnds(m)
  <2>1. \A k \in Bottom + 1 .. m : Ends(Left(k))' = Ends(Left(k))
    BY <1>6, SameText
  <2> QED
    BY <1>1, <2>1 DEF LeftEnds
<1>8. \A rs : Stack(rs, m)' = Stack(rs, m)
  BY <1>1, <1>6 DEF Stack
<1> QED
  BY <1>1, <1>2, <1>3, <1>4, <1>5, <1>6, <1>7, <1>8

(* The length of a text is a number.                                       *)
LEMMA Lengths == \A s \in Seq(Pieces) : Len(s) \in Nat
OBVIOUS

(* Three texts, joined from the left and from the right.                   *)
Grouped(s, t, u) == (s \o t) \o u = s \o (t \o u)

(* Texts may be joined in either order.                                    *)
LEMMA JoinOrder == \A s, t, u \in Seq(Pieces) : Grouped(s, t, u)
BY SMTT(30) DEF Grouped

(* The same, and the empty text.                                           *)
LEMMA Joins ==
  /\ \A s, t \in Seq(Pieces) : s \o t \in Seq(Pieces) /\ Len(s \o t) = Len(s) + Len(t)
  /\ \A s, t, u \in Seq(Pieces) : (s \o t) \o u = s \o (t \o u)
  /\ \A s \in Seq(Pieces) : s \o <<>> = s
<1>1. \A s, t \in Seq(Pieces) : s \o t \in Seq(Pieces) /\ Len(s \o t) = Len(s) + Len(t)
  BY JoinPieces
<1>2. \A s, t, u \in Seq(Pieces) : (s \o t) \o u = s \o (t \o u)
  BY JoinOrder, Zenon DEF Grouped
<1>3. \A s \in Seq(Pieces) : s \o <<>> = s
  BY SMTT(30)
<1> QED
  BY <1>1, <1>2, <1>3, Zenon

(* The text so far, a heading, a value, what its struct has left and what  *)
(* the structs around it have left.                                        *)
Regrouped(o, x, y, r, q) == (o \o ((x \o y) \o r)) \o q = ((o \o x) \o y) \o (r \o q)

(* Five texts, in the order in which a member and its struct need them.    *)
LEMMA JoinsOfFive ==
  ASSUME NEW o \in Seq(Pieces), NEW x \in Seq(Pieces), NEW y \in Seq(Pieces), NEW r \in Seq(Pieces),
         NEW q \in Seq(Pieces)
  PROVE  Regrouped(o, x, y, r, q)
<1>1. x \o y \in Seq(Pieces) /\ o \o (x \o y) \in Seq(Pieces)
  BY JoinPieces
<1>2. Grouped(o, x, y) /\ Grouped(o, x \o y, r) /\ Grouped(o \o (x \o y), r, q)
  BY <1>1, JoinOrder, Zenon
<1>3. (o \o x) \o y = o \o (x \o y) /\ (o \o (x \o y)) \o r = o \o ((x \o y) \o r)
  BY <1>2, Zenon DEF Grouped
<1>4. ((o \o (x \o y)) \o r) \o q = (o \o (x \o y)) \o (r \o q)
  BY <1>2, Zenon DEF Grouped
<1> QED
  BY <1>3, <1>4, Zenon DEF Regrouped

(* Sums of lengths.                                                        *)
LEMMA Shares ==
  \A o, x, now, w \in Nat : \A next, r \in Nat :
    o + now + r <= w /\ x + next <= now => (o + x) + next + r <= w
OBVIOUS

(* Lengths, when what is being printed is shared out among three texts.    *)
LEMMA SharesOut ==
  \A o, x, now, w \in Nat : \A next, r, q \in Nat :
    o + now + r <= w /\ x + next + q = now => (o + x) + next + (q + r) <= w
OBVIOUS

(* Lengths, when something has been written.                               *)
LEMMA SharesWith ==
  \A o, x, now, w, r \in Nat : o + now + r <= w /\ x <= now => o + x <= w
OBVIOUS

(* Something has been written that belongs to what is being printed, or    *)
(* what is being printed has been given up.                                *)
LEMMA Advances ==
  ASSUME tree \in Trees, UNCHANGED <<tree, cmd, var_die>>, NEW m \in Nat, Bottom <= m,
         \A k \in 1 .. m : walks'[k] = walks[k], Exact' => Exact,
         NEW o \in Seq(Pieces), NEW now \in Seq(Pieces), NEW e, Balance(o, e, now, m),
         NEW x \in Seq(Pieces), NEW next \in Seq(Pieces), NEW f,
         e => f, Exact' /\ f => e, e => Len(x) + Len(next) <= Len(now), e /\ Exact' => x \o next = now
  PROVE  Balance(o \o x, f, next, m)'
<1>1. /\ Ends(RootPart)' = Ends(RootPart) /\ LeftEnds(m)' = LeftEnds(m) /\ Whole' = Whole
      /\ \A rs : Stack(rs, m)' = Stack(rs, m)
  BY SameRoot
<1>2. ASSUME Ends(RootPart) PROVE \E rs : Fits(rs, m, o \o x, next)'
  <2>1. PICK rs : Fits(rs, m, o, now)
    BY <1>2 DEF Balance
  <2>2. e
    BY <1>2 DEF Balance
  <2>3. Stack(rs, m) /\ rs[m] \in Seq(Pieces)
    BY <2>1 DEF Fits, Stack
  <2>4. Len(o \o x) + Len(next) + Len(rs[m]) <= Len(Whole)
    <3>1. Len(o \o x) = Len(o) + Len(x)
      BY JoinPieces
    <3>2. Len(o) + Len(now) + Len(rs[m]) <= Len(Whole)
      BY <2>1 DEF Fits
    <3>3. Len(Whole) \in Nat
      <4>1. RootPart \in Parts /\ Whole = T(RootPart, 0)
        BY <1>2 DEF Ends, Whole, T, RootPart, Value
      <4> QED
        BY <4>1, WholeTexts
    <3>4. Len(o) \in Nat /\ Len(x) \in Nat /\ Len(next) \in Nat /\ Len(now) \in Nat /\ Len(rs[m]) \in Nat
      BY <2>3
    <3>5. Len(x) + Len(next) <= Len(now)
      BY <2>2
    <3>6. (Len(o) + Len(x)) + Len(next) + Len(rs[m]) <= Len(Whole)
      BY <3>2, <3>3, <3>4, <3>5, Shares, Zenon
    <3> QED
      BY <3>1, <3>6, Zenon
  <2>5. Exact' => ((o \o x) \o next) \o rs[m] = Whole
    <3>1. Exact' => (o \o now) \o rs[m] = Whole /\ x \o next = now
      BY <2>1, <2>2 DEF Fits
    <3>2. Grouped(o, x, next)
      BY JoinOrder, Zenon
    <3>3. (o \o x) \o next = o \o (x \o next)
      BY <3>2 DEF Grouped
    <3> QED
      BY <3>1, <3>3
  <2>6. Fits(rs, m, o \o x, next)'
    BY <1>1, <2>3, <2>4, <2>5 DEF Fits
  <2> QED
    BY <2>6
<1> QED
  BY <1>1, <1>2 DEF Balance

(* A member's value is next: its struct waits.                             *)
Down(m, n, r, o, now, e, x, next, f) ==
  /\ tree \in Trees /\ UNCHANGED <<tree, cmd, var_die>> /\ m \in Nat /\ Bottom <= m /\ n = m + 1
  /\ \A k \in 1 .. n : walks'[k] = walks[k]
  /\ Exact' => Exact
  /\ r \in Seq(Pieces) /\ r = LeftText(n) /\ o \in Seq(Pieces) /\ now \in Seq(Pieces) /\ Balance(o, e, now, m)
  /\ x \in Seq(Pieces) /\ next \in Seq(Pieces)
  /\ e <=> f /\ Ends(Left(n))
  /\ e => Len(x) + Len(next) + Len(r) = Len(now)
  /\ e /\ Exact' => (x \o next) \o r = now

(* The balance when a member begins.                                       *)
LEMMA MemberBegins ==
  ASSUME NEW m, NEW n, NEW r, NEW o, NEW now, NEW e, NEW x, NEW next, NEW f, Down(m, n, r, o, now, e, x, next, f)
  PROVE  Balance(o \o x, f, next, n)'
<1>0. /\ n \in Nat /\ n - 1 = m /\ n # m /\ Bottom \in Nat /\ n \in Bottom + 1 .. n
      /\ \A k \in Bottom + 1 .. n : k = n \/ (k \in Bottom + 1 .. m /\ k # n /\ k - 1 # n)
      /\ Bottom # n /\ Bottom <= n
  <2>1. m \in Nat /\ n = m + 1 /\ Bottom <= m
    BY DEF Down
  <2> QED
    BY <2>1 DEF Bottom
<1> USE DEF Down
<1>1. /\ Ends(RootPart)' = Ends(RootPart) /\ LeftEnds(n)' = LeftEnds(n) /\ Whole' = Whole
      /\ \A rs : Stack(rs, n)' = Stack(rs, n)
  BY <1>0, SameRoot
<1>2. LeftEnds(n) <=> LeftEnds(m) /\ Ends(Left(n))
  BY <1>0 DEF LeftEnds
<1>3. r \in Seq(Pieces)
  OBVIOUS
<1>4. /\ e <=> f /\ Ends(Left(n))
      /\ e => Len(x) + Len(next) + Len(r) = Len(now)
      /\ e /\ Exact' => (x \o next) \o r = now
  OBVIOUS
<1>5. ASSUME Ends(RootPart) PROVE \E rs : Fits(rs, n, o \o x, next)'
  <2>1. PICK rs : Fits(rs, m, o, now)
    BY <1>5 DEF Balance
  <2>2. e
    BY <1>5 DEF Balance
  <2>3. Stack(rs, m) /\ rs[m] \in Seq(Pieces) /\ rs \in [Nat -> Seq(Pieces)]
    BY <2>1 DEF Fits, Stack
  <2>4. r \o rs[m] \in Seq(Pieces) /\ Len(r \o rs[m]) = Len(r) + Len(rs[m])
    BY <1>3, <2>3, JoinPieces
  <2>5. PICK q \in [Nat -> Seq(Pieces)] : q[n] = r \o rs[m] /\ \A k \in Nat : k # n => q[k] = rs[k]
    <3> DEFINE p == [rs EXCEPT ![n] = r \o rs[m]]
    <3>1. p \in [Nat -> Seq(Pieces)] /\ p[n] = r \o rs[m] /\ \A k \in Nat : k # n => p[k] = rs[k]
      BY <1>0, <2>3, <2>4
    <3> QED
      BY <3>1
  <2>6. Stack(q, n)
    <3>1. q[Bottom] = <<>>
      BY <1>0, <2>3, <2>5 DEF Stack
    <3>2. ASSUME NEW k \in Bottom + 1 .. n PROVE q[k] = LeftText(k) \o q[k - 1]
      <4>1. CASE k = n
        BY <1>0, <2>5, <4>1
      <4>2. CASE k \in Bottom + 1 .. m /\ k # n /\ k - 1 # n
        <5>1. k \in Nat /\ k - 1 \in Nat
          BY <1>0, <4>2
        <5>2. rs[k] = LeftText(k) \o rs[k - 1]
          BY <2>3, <4>2 DEF Stack
        <5> QED
          BY <2>5, <4>2, <5>1, <5>2
      <4> QED
        BY <1>0, <4>1, <4>2
    <3> QED
      BY <2>5, <3>1, <3>2 DEF Stack
  <2>7. Len(o \o x) + Len(next) + Len(q[n]) <= Len(Whole)
    <3>1. Len(o \o x) = Len(o) + Len(x)
      BY JoinPieces
    <3>2. Len(o) + Len(now) + Len(rs[m]) <= Len(Whole)
      BY <2>1 DEF Fits
    <3>3. Len(Whole) \in Nat
      <4>1. RootPart \in Parts /\ Whole = T(RootPart, 0)
        BY <1>5 DEF Ends, Whole, T, RootPart, Value
      <4> QED
        BY <4>1, WholeTexts
    <3>4. /\ Len(o) \in Nat /\ Len(x) \in Nat /\ Len(next) \in Nat /\ Len(now) \in Nat /\ Len(rs[m]) \in Nat
          /\ Len(r) \in Nat
      BY <1>3, <2>3, Lengths, Zenon
    <3>5. Len(x) + Len(next) + Len(r) = Len(now) /\ Len(q[n]) = Len(r) + Len(rs[m])
      BY <1>4, <2>2, <2>4, <2>5, Zenon
    <3>6. (Len(o) + Len(x)) + Len(next) + (Len(r) + Len(rs[m])) <= Len(Whole)
      BY <3>2, <3>3, <3>4, <3>5, SharesOut, Zenon
    <3> QED
      BY <3>1, <3>5, <3>6, Zenon
  <2>8. Exact' => ((o \o x) \o next) \o q[n] = Whole
    <3>1. Exact' => (o \o now) \o rs[m] = Whole /\ (x \o next) \o r = now
      BY <1>4, <2>1, <2>2 DEF Fits
    <3>2. Regrouped(o, x, next, r, rs[m])
      BY <2>3, JoinsOfFive
    <3>3. (o \o ((x \o next) \o r)) \o rs[m] = ((o \o x) \o next) \o (r \o rs[m])
      BY <3>2 DEF Regrouped
    <3> QED
      BY <2>5, <3>1, <3>3
  <2>9. Fits(q, n, o \o x, next)'
    <3>1. Stack(q, n)' /\ Whole' = Whole
      BY <1>1, <2>6, Zenon
    <3>2. /\ Len(o \o x) + Len(next) + Len(q[n]) <= Len(Whole')
          /\ Exact' => ((o \o x) \o next) \o q[n] = Whole'
      BY <2>7, <2>8, <3>1
    <3> QED
      BY <3>1, <3>2 DEF Fits
  <2> QED
    BY <2>9
<1>6. Balance(o \o x, f, next, n)'
  BY <1>1, <1>2, <1>4, <1>5 DEF Balance
<1> QED
  BY <1>6

(* A value has been printed: its struct goes on, or is given up.           *)
Up(m, n, r, o, next, f) ==
  /\ tree \in Trees /\ UNCHANGED <<tree, cmd, var_die>> /\ m \in Nat /\ Bottom <= m /\ n = m + 1
  /\ \A k \in 1 .. m : walks'[k] = walks[k]
  /\ Exact' => Exact
  /\ r \in Seq(Pieces) /\ r = LeftText(n) /\ o \in Seq(Pieces) /\ Balance(o, TRUE, <<>>, n)
  /\ next \in Seq(Pieces)
  /\ \/ next = r /\ f = Ends(Left(n))
     \/ next = <<>> /\ f = TRUE /\ ~Exact'

(* The balance when a struct goes on.                                      *)
LEMMA Resumes ==
  ASSUME NEW m, NEW n, NEW r, NEW o, NEW next, NEW f, Up(m, n, r, o, next, f)
  PROVE  Balance(o, f, next, m)'
<1>0. /\ n \in Nat /\ n - 1 = m /\ Bottom \in Nat /\ n \in Bottom + 1 .. n
      /\ \A k \in Bottom + 1 .. m : k \in Bottom + 1 .. n
      /\ \A k \in Bottom + 1 .. n : k = n \/ k \in Bottom + 1 .. m
  <2>1. m \in Nat /\ n = m + 1 /\ Bottom <= m
    BY DEF Up
  <2> QED
    BY <2>1 DEF Bottom
<1> USE DEF Up
<1>1. /\ Ends(RootPart)' = Ends(RootPart) /\ LeftEnds(m)' = LeftEnds(m) /\ Whole' = Whole
      /\ \A rs : Stack(rs, m)' = Stack(rs, m)
  BY SameRoot
<1>2. LeftEnds(n) <=> LeftEnds(m) /\ Ends(Left(n))
  BY <1>0 DEF LeftEnds
<1>3. r \in Seq(Pieces) /\ Len(r) \in Nat /\ r = LeftText(n) /\ o \in Seq(Pieces) /\ next \in Seq(Pieces)
  OBVIOUS
<1>4. \/ next = r /\ f = Ends(Left(n))
      \/ next = <<>> /\ f = TRUE /\ ~Exact'
  OBVIOUS
<1>5. Balance(o, TRUE, <<>>, n) /\ (Exact' => Exact)
  OBVIOUS
<1>7. m \in Nat
  OBVIOUS
<1> HIDE DEF Up
<1>6. ASSUME Ends(RootPart) PROVE \E rs : Fits(rs, m, o, next)'
  <2>1. PICK rs : Fits(rs, n, o, <<>>)
    BY <1>5, <1>6 DEF Balance
  <2>2. Stack(rs, n) /\ Stack(rs, m) /\ rs[n] = r \o rs[m] /\ rs[m] \in Seq(Pieces)
    <3>1. Stack(rs, n)
      BY <2>1 DEF Fits
    <3>2. rs[n] = LeftText(n) \o rs[n - 1] /\ rs \in [Nat -> Seq(Pieces)] /\ m \in Nat
      BY <1>0, <3>1, <1>7 DEF Stack
    <3>3. Stack(rs, m)
      BY <1>0, <3>1 DEF Stack
    <3>4. rs[n] = r \o rs[m]
      BY <1>0, <1>3, <3>2
    <3> QED
      BY <3>1, <3>2, <3>3, <3>4
  <2>3. Len(o) + Len(next) + Len(rs[m]) <= Len(Whole)
    <3>1. Len(r \o rs[m]) = Len(r) + Len(rs[m])
      BY <1>3, <2>2, JoinPieces
    <3>2. Len(o) + Len(<<>>) + Len(rs[n]) <= Len(Whole) /\ Len(<<>>) = 0
      BY <2>1 DEF Fits
    <3>3. Len(Whole) \in Nat
      <4>1. RootPart \in Parts /\ Whole = T(RootPart, 0)
        BY <1>6 DEF Ends, Whole, T, RootPart, Value
      <4> QED
        BY <4>1, WholeTexts
    <3>4. Len(o) \in Nat /\ Len(rs[m]) \in Nat /\ Len(next) <= Len(r) /\ Len(next) \in Nat
      BY <1>3, <1>4, <2>2
    <3>5. Len(o) + (Len(r) + Len(rs[m])) <= Len(Whole)
      <4>1. Len(r) \in Nat /\ Len(o) + Len(rs[n]) <= Len(Whole) /\ Len(rs[n]) = Len(r) + Len(rs[m])
        BY <1>3, <2>2, <3>1, <3>2, <3>4
      <4> QED
        BY <4>1
    <3>6. \A a, b, c, d \in Nat : \A w \in Nat : a + (b + c) <= w /\ d <= b => a + d + c <= w
      OBVIOUS
    <3> QED
      BY <1>3, <3>3, <3>4, <3>5, <3>6, Zenon
  <2>4. Exact' => (o \o next) \o rs[m] = Whole
    <3>1. Exact' => (o \o <<>>) \o rs[n] = Whole /\ next = r
      BY <1>3, <1>4, <1>5, <2>1 DEF Fits
    <3>2. o \o <<>> = o
      BY <1>3, Joins, Zenon
    <3>3. Grouped(o, r, rs[m])
      BY <1>3, <2>2, JoinOrder, Zenon
    <3> QED
      BY <2>2, <3>1, <3>2, <3>3, Zenon DEF Grouped
  <2>5. Fits(rs, m, o, next)'
    BY <1>1, <2>2, <2>3, <2>4 DEF Fits
  <2> QED
    BY <2>5
<1> QED
  BY <1>1, <1>2, <1>4, <1>5, <1>6 DEF Balance

(* What does not fit is part of a whole value that is too long.            *)
LEMMA Overflows ==
  ASSUME tree \in Trees, UNCHANGED <<tree, cmd, var_die>>, NEW m \in Nat, Bottom <= m,
         \A k \in 1 .. m : walks'[k] = walks[k], Root \in Dies,
         NEW o \in Seq(Pieces), NEW now \in Seq(Pieces), NEW e, Balance(o, e, now, m),
         NEW x \in Seq(Pieces), e => Len(x) <= Len(now), Len(o \o x) > Capacity
  PROVE  OverrunsIfTooLong'
<1>1. Whole' = Whole
  BY SameRoot
<1>2. RootPart \in Parts /\ Whole = T(RootPart, 0) /\ Whole \in Seq(Pieces)
  <2>1. RootPart \in Parts /\ Whole = T(RootPart, 0)
    BY MemberTypes, PartIs DEF RootPart, Whole, T, Value
  <2> QED
    BY <2>1, WholeTexts
<1>3. CASE Ends(RootPart)
  <2>1. PICK rs : Fits(rs, m, o, now)
    BY <1>3 DEF Balance
  <2>2. e /\ rs[m] \in Seq(Pieces) /\ Len(o) + Len(now) + Len(rs[m]) <= Len(Whole)
    BY <1>3, <2>1 DEF Balance, Fits, Stack
  <2>3. Len(o \o x) = Len(o) + Len(x)
    BY JoinPieces
  <2>4. Len(Whole) > Capacity
    <3>1. /\ Len(o) \in Nat /\ Len(x) \in Nat /\ Len(now) \in Nat /\ Len(rs[m]) \in Nat /\ Len(Whole) \in Nat
          /\ Capacity \in Nat
      BY <1>2, <2>2, CommandsAssumption
    <3>2. Len(o) + Len(x) <= Len(Whole)
      BY <2>2, <3>1, SharesWith, Zenon
    <3>3. Len(o \o x) \in Nat /\ Len(o \o x) <= Len(Whole)
      BY <2>3, <3>1, <3>2
    <3> QED
      BY <3>1, <3>3
  <2> QED
    BY <1>1, <2>4 DEF OverrunsIfTooLong
<1>4. CASE ~Ends(RootPart)
  <2>1. \E k \in DOMAIN Whole : Whole[k].is = "cut"
    BY <1>2, <1>4 DEF Ends, HasCut
  <2> QED
    BY <1>1, <2>1 DEF OverrunsIfTooLong
<1> QED
  BY <1>3, <1>4

(* The balance of the next state, from its parts.                          *)
LEMMA BalanceNext ==
  ASSUME NEW o, NEW e, NEW now, NEW m, out' = o, NowEnds' = e, NowText' = now, Waiting' = m, Balance(o, e, now, m)'
  PROVE  Balance(out, NowEnds, NowText, Waiting)'
BY DEF Balance, Fits, Stack, LeftEnds

(* A step after which no value is printed.                                 *)
LEMMA NoValue ==
  ASSUME RetIs', ~InValue', step' \in {"search", "call", "return", "sibling"} => base' = 0 /\ out' = <<>>,
         step' = "end" => ret' # "overrun" /\ (ret' = "OK" => cmd'.what # "local")
  PROVE  TextInv'
BY DEF TextInv, PrintsWholeValue, OverrunsIfTooLong

(* A step after which it is.                                               *)
LEMMA ValueGoesOn ==
  ASSUME RetIs', step' \in {"walk", "tag", "item", "type", "printed"},
         NEW o \in Seq(Pieces), NEW e, NEW now, NEW m, out' = o, NowEnds' = e, NowText' = now, Waiting' = m,
         Bottom' <= m, \A k \in Bottom' + 1 .. m : tree'[WalkCur(k)'].tag = "member", Separated',
         Balance(o, e, now, m)'
  PROVE  TextInv'
<1>1. Balance(out, NowEnds, NowText, Waiting)'
  BY BalanceNext
<1>2. ValueInv'
  BY <1>1 DEF ValueInv
<1> QED
  BY <1>2 DEF TextInv, PrintsWholeValue, OverrunsIfTooLong

(* What is known while a value is printed.                                 *)
LEMMA ValueFacts ==
  ASSUME VarInv, TextInv, InValue
  PROVE  /\ Printing /\ tree \in Trees /\ Root \in Dies /\ walks \in Seq(Walks) /\ base \in Nat
         /\ Bottom \in Nat /\ Waiting \in Nat /\ Bottom <= Waiting
         /\ out \in Seq(Pieces) /\ Separated /\ Balance(out, NowEnds, NowText, Waiting)
         /\ \A k \in Bottom + 1 .. Waiting : tree[WalkCur(k)].tag = "member"
         /\ step \in {"type", "printed"} => Waiting = Walking
         /\ step \in {"walk", "tag", "item"} => Members /\ Walking = Waiting + 1
         /\ step # "printed" => ret = "OK"
<1>1. Printing /\ ValueInv /\ RetIs
  BY DEF Printing, InValue, TextInv
<1>2. /\ VarTypes /\ PrintPhase /\ tree \in Trees /\ walks \in Seq(Walks) /\ cmd.what \in {"local", "params"}
      /\ Walking \in Nat /\ (Members <=> Walking # 0 /\ tree[WalkOf(Walking)].tag = "struct")
  BY <1>1, PrintIs, WalkTypes
<1>3. /\ step \in {"type", "printed"} => Waiting = Walking
      /\ step \in {"walk", "tag", "item"} => Members /\ Walking = Waiting + 1
      /\ Waiting \in Nat
  BY <1>1, <1>2 DEF Waiting, InValue, Printing
<1>4. Root \in Dies
  <2>1. CASE cmd.what = "local"
    BY <1>2, <2>1 DEF Root, PrintPhase, VarTypes
  <2>2. CASE cmd.what = "params"
    <3>1. 1 \in 1 .. Walking /\ WalkIsRight(1) /\ WalkCur(1) \in Dies \cup {0}
      <4>1. Walking # 0 /\ 1 \in 1 .. Walking
        BY <1>2, <2>2 DEF PrintPhase
      <4> QED
        BY <1>2, <4>1, WalkTypes DEF PrintPhase
    <3>2. WalkCur(1) # 0
      <4>1. step \in {"walk", "tag", "item"} => Walking > 1
        BY <1>1, <1>3, <2>2, PrintIs
      <4> QED
        BY <1>1, <1>2, <3>1, <4>1 DEF WalkIsRight, Printing
    <3> QED
      BY <2>2, <3>1, <3>2 DEF Root, WalkCur
  <2> QED
    BY <1>2, <2>1, <2>2
<1> QED
  BY <1>1, <1>2, <1>3, <1>4 DEF ValueInv, VarTypes, Bottom, RetIs, Goes, Printing

(* The walks below the innermost one stay.                                 *)
LEMMA WalksBelow ==
  ASSUME walks \in Seq(Walks), NEW n, n = Walking
  PROVE  /\ n # 0 => n \in 1 .. n /\ top = walks[n] /\ top \in Walks /\ top.base \in Nat
         /\ n # 0 /\ walks' = Below => walks' \in Seq(Walks) /\ Walking' = n - 1 /\ \A k \in 1 .. n - 1 : walks'[k] = walks[k]
         /\ n # 0 => \A x \in Walks : walks' = Append(Below, x) =>
                       walks' \in Seq(Walks) /\ Walking' = n /\ top' = x /\ \A k \in 1 .. n - 1 : walks'[k] = walks[k]
         /\ \A x \in Walks : walks' = Append(walks, x) =>
              walks' \in Seq(Walks) /\ Walking' = n + 1 /\ top' = x /\ \A k \in 1 .. n : walks'[k] = walks[k]
<1>1. n \in Nat /\ (walks # <<>> <=> n # 0) /\ n = Len(walks) /\ \A k \in 1 .. n : walks[k] \in Walks
  BY DEF Walking
<1>2. n # 0 => n \in 1 .. n /\ top = walks[n] /\ top \in Walks /\ top.base \in Nat
  BY <1>1 DEF top, Walks
<1>3. Below = Front(walks)
  BY DEF Below, Front
<1>4. n # 0 /\ walks' = Below => walks' \in Seq(Walks) /\ Walking' = n - 1 /\ \A k \in 1 .. n - 1 : walks'[k] = walks[k]
  BY <1>1, <1>3, Pop DEF Walking
<1>5. ASSUME n # 0, NEW x \in Walks, walks' = Append(Below, x)
      PROVE  walks' \in Seq(Walks) /\ Walking' = n /\ top' = x /\ \A k \in 1 .. n - 1 : walks'[k] = walks[k]
  <2>1. walks' \in Seq(Walks) /\ Len(walks') = n /\ walks'[n] = x /\ \A k \in 1 .. n - 1 : walks'[k] = walks[k]
    BY <1>1, <1>3, <1>5, Replace
  <2> QED
    BY <2>1 DEF Walking, top
<1>6. ASSUME NEW x \in Walks, walks' = Append(walks, x)
      PROVE  walks' \in Seq(Walks) /\ Walking' = n + 1 /\ top' = x /\ \A k \in 1 .. n : walks'[k] = walks[k]
  <2>1. walks' \in Seq(Walks) /\ Len(walks') = n + 1 /\ walks'[n + 1] = x /\ \A k \in 1 .. n : walks'[k] = walks[k]
    BY <1>1, <1>6, Push
  <2> QED
    BY <2>1 DEF Walking, top
<1> QED
  BY <1>2, <1>4, <1>5, <1>6

(* What is left of a struct that ends is not empty.                        *)
LEMMA RestIsLong ==
  ASSUME tree \in Trees, NEW m \in Dies \cup {0}, NEW a \in Nat
  PROVE  /\ T(Rest(m), a) \in Seq(Pieces)
         /\ Ends(Rest(m)) => Len(T(Rest(m), a)) >= 1
         /\ Ends(Rest(m)) /\ m # 0 => Len(Heading(m)) <= Len(T(Rest(m), a))
<1>1. T(Rest(m), a) \in Seq(Pieces)
  BY PartIs, WholeTexts
<1>2. CASE m = 0
  <2>1. T(Rest(m), a) = <<Piece("close", 0, 0)>>
    <3>1. T(Rest(0), a) = PartText(Text[Depth], Rest(0), a)
      <4>1. Rest(0) \in Parts /\ Rest(0)[1] = "rest" /\ Rest(0)[2] = 0
        BY PartIs
      <4>2. PartsOf(Rest(0)) = {} /\ ~IsCut(Rest(0))
        BY <4>1 DEF PartsOf, IsCut
      <4> QED
        BY <4>1, <4>2, WholeTexts
    <3> QED
      BY <1>2, <3>1, PartIs DEF PartText, RestText
  <2> QED
    BY <1>1, <1>2, <2>1
<1>3. CASE m # 0 /\ Ends(Rest(m))
  <2>1. m \in Dies
    BY <1>3
  <2> DEFINE h == Heading(m)
             v == T(Value(tree[m].type), a + tree[m].offset)
             r == T(Rest(NextMember(m)), a)
  <2>2. T(Rest(m), a) = h \o v \o r
    BY <1>3, <2>1, RestTextIs
  <2>3. a + tree[m].offset \in Nat
    BY <2>1, MemberTypes
  <2>4. h \in Seq(Pieces) /\ v \in Seq(Pieces) /\ r \in Seq(Pieces)
    BY <2>1, <2>3, MemberTypes, HeadingTypes, PartIs, WholeTexts
  <2>5. Len(h) >= 1
    BY DEF Heading
  <2> HIDE DEF h, v, r
  <2>6. h \o v \in Seq(Pieces) /\ Len(h \o v) = Len(h) + Len(v) /\ Len((h \o v) \o r) = Len(h \o v) + Len(r)
    BY <2>4, JoinPieces
  <2>7. Len(h) \in Nat /\ Len(v) \in Nat /\ Len(r) \in Nat
    BY <2>4
  <2>8. Len(T(Rest(m), a)) = Len(h) + Len(v) + Len(r)
    BY <2>2, <2>6
  <2>9. Len(T(Rest(m), a)) >= 1 /\ Len(h) <= Len(T(Rest(m), a))
    BY <2>5, <2>7, <2>8
  <2> QED
    BY <1>1, <2>9 DEF h
<1> QED
  BY <1>1, <1>2, <1>3

(* What is being printed.                                                  *)
LEMMA NowIs ==
  ASSUME VarInv, TextInv, InValue
  PROVE  /\ NowText \in Seq(Pieces)
         /\ step \in {"walk", "tag", "item"} =>
              /\ Coming \subseteq Dies /\ Coming \subseteq MembersOf(top.of) /\ First(Coming) \in Dies \cup {0}
              /\ Part = Rest(First(Coming)) /\ NowText = T(Part, top.base) /\ (NowEnds <=> Ends(Part)) /\ top.base \in Nat
              /\ NowEnds => Len(NowText) >= 1
         /\ step = "type" =>
              /\ target \in Dies /\ tree[target].type \in Dies \cup {0} /\ Part = Value(tree[target].type)
              /\ NowText = T(Part, base) /\ (NowEnds <=> Ends(Part))
         /\ step = "printed" => NowText = <<>> /\ NowEnds = TRUE
<1>1. /\ Printing /\ tree \in Trees /\ walks \in Seq(Walks) /\ base \in Nat /\ Waiting \in Nat
      /\ step \in {"walk", "tag", "item"} => Walking = Waiting + 1
  BY ValueFacts
<1>2. CASE step \in {"walk", "tag", "item"}
  <2>1. top.base \in Nat
    <3>1. Walking # 0
      BY <1>1, <1>2
    <3> QED
      BY <1>1, <3>1, WalksBelow
  <2>2. Coming \subseteq Dies /\ Coming \subseteq MembersOf(top.of)
    BY DEF Coming, MembersOf, ChildrenOf
  <2>3. First(Coming) \in Dies \cup {0}
    BY <2>2, FirstIsLeast
  <2>4. Part = Rest(First(Coming)) /\ NowText = T(Part, top.base) /\ (NowEnds <=> Ends(Part))
    BY <1>2 DEF Part, NowText, NowEnds
  <2> QED
    BY <1>1, <1>2, <2>1, <2>2, <2>3, <2>4, RestIsLong
<1>3. CASE step = "type"
  <2>1. target \in Dies /\ tree[target].type \in Dies \cup {0}
    BY <1>1, <1>3, MemberTypes DEF VarInv, VarTypes
  <2>2. Part = Value(tree[target].type) /\ NowText = T(Part, base) /\ (NowEnds <=> Ends(Part))
    BY <1>3 DEF Part, NowText, NowEnds
  <2> QED
    BY <1>1, <1>3, <2>1, <2>2, PartIs, WholeTexts
<1>4. CASE step = "printed"
  <2>1. NowText = <<>> /\ NowEnds = TRUE
    BY <1>4 DEF NowText, NowEnds
  <2> QED
    BY <1>4, <2>1
<1> QED
  BY <1>1, <1>2, <1>3, <1>4 DEF Printing

(* Nothing is written: what is being printed stays the same.               *)
LEMMA Rests ==
  ASSUME tree \in Trees, UNCHANGED <<tree, cmd, var_die>>, NEW m \in Nat, Bottom <= m,
         \A k \in 1 .. m : walks'[k] = walks[k], Exact' => Exact,
         NEW o \in Seq(Pieces), NEW now \in Seq(Pieces), NEW e, Balance(o, e, now, m)
  PROVE  Balance(o, e, now, m)'
<1>1. PICK x \in Seq(Pieces) : x = <<>>
  <2>1. <<>> \in Seq(Pieces)
    OBVIOUS
  <2> QED
    BY <2>1, Zenon
<1>2. (e => Len(x) + Len(now) <= Len(now)) /\ (e /\ Exact' => x \o now = now)
  BY <1>1
<1>3. Balance(o \o x, e, now, m)'
  BY <1>2, Advances
<1>4. o \o x = o
  BY <1>1, Joins
<1> QED
  BY <1>3, <1>4

(* What is being printed ends with x, or is given up after it.             *)
LEMMA Finishes ==
  ASSUME tree \in Trees, UNCHANGED <<tree, cmd, var_die>>, NEW m \in Nat, Bottom <= m,
         \A k \in 1 .. m : walks'[k] = walks[k], Exact' => Exact,
         NEW o \in Seq(Pieces), NEW now \in Seq(Pieces), NEW e, Balance(o, e, now, m),
         NEW x \in Seq(Pieces), e => Len(x) <= Len(now), Exact' => e /\ x = now
  PROVE  Balance(o \o x, TRUE, <<>>, m)'
<1>1. PICK next \in Seq(Pieces) : next = <<>>
  <2>1. <<>> \in Seq(Pieces)
    OBVIOUS
  <2> QED
    BY <2>1, Zenon
<1>2. PICK f \in BOOLEAN : f = TRUE
  OBVIOUS
<1>3. /\ e => Len(x) + Len(next) <= Len(now)
      /\ e /\ Exact' => x \o next = now
  <2>1. x \o next = x
    BY <1>1, Joins
  <2>2. Len(next) = 0 /\ Len(x) \in Nat
    BY <1>1
  <2> QED
    BY <2>1, <2>2
<1>4. (e => f) /\ (Exact' /\ f => e)
  BY <1>2
<1>5. Balance(o \o x, f, next, m)'
  BY <1>3, <1>4, Advances
<1> QED
  BY <1>1, <1>2, <1>5

(* The walk over the members moves, and what is left of the struct stays.  *)
LEMMA StaysAhead ==
  ASSUME VarInv, TextInv, step \in {"walk", "tag"}, Members, NEW n, n = Walking,
         walks' \in Seq(Walks), Walking' = n, \A k \in 1 .. n - 1 : walks'[k] = walks[k],
         top'.of = top.of, top'.base = top.base, Coming' = Coming, step' \in {"tag", "item"},
         UNCHANGED <<tree, cmd, var_die, ret, out, faults>>
  PROVE  TextInv'
<1> SUFFICES ASSUME NEW m, m = Waiting, NEW o, o = out, NEW e, e = NowEnds, NEW now, now = NowText PROVE TextInv'
  OBVIOUS
<1>1. InValue
  BY DEF InValue
<1>2. /\ tree \in Trees /\ m \in Nat /\ Bottom \in Nat /\ Bottom <= m /\ n = m + 1 /\ o \in Seq(Pieces) /\ ret = "OK"
      /\ Separated /\ Balance(o, e, now, m) /\ now \in Seq(Pieces)
      /\ \A k \in Bottom + 1 .. m : tree[WalkCur(k)].tag = "member"
      /\ Part = Rest(First(Coming)) /\ now = T(Part, top.base) /\ (e <=> Ends(Part))
  BY <1>1, ValueFacts, NowIs
<1>3. \A k \in 1 .. m : walks'[k] = walks[k]
  BY <1>2
<1>4. Bottom' = Bottom /\ \A k \in Bottom + 1 .. m : k \in 1 .. m
  BY <1>2, <1>3, SameRoot
<1>5. \A k \in Bottom' + 1 .. m : tree'[WalkCur(k)'].tag = "member"
  BY <1>2, <1>3, <1>4 DEF WalkCur
<1>6. NowEnds' = e /\ NowText' = now
  <2>1. Part' = Part
    BY DEF Part, Rest, First
  <2>2. Ends(Part)' = Ends(Part') /\ NowText' = T(Part', top'.base)
    BY SameText DEF Ends, NowText
  <2>3. Ends(Part)' = Ends(Part) /\ NowText' = now
    BY <1>2, <2>1, <2>2
  <2>4. NowEnds' = Ends(Part)' /\ NowEnds = Ends(Part)
    BY DEF NowEnds, Ends
  <2> QED
    BY <2>3, <2>4
<1>7. Waiting' = m
  BY <1>2 DEF Waiting
<1>8. Exact' => Exact
  BY DEF Exact, Plain
<1>9. Balance(o, e, now, m)'
  BY <1>2, <1>3, <1>8, Rests
<1>10. Separated'
  <2>1. MembersOf(top.of)' = MembersOf(top.of)
    BY DEF MembersOf, ChildrenOf
  <2> QED
    BY <1>2, <2>1 DEF Separated, LastIsOpen
<1>11. RetIs'
  BY <1>2 DEF RetIs, Goes
<1> QED
  BY <1>2, <1>4, <1>5, <1>6, <1>7, <1>9, <1>10, <1>11, ValueGoesOn

(* What is written as the last piece of a value, if there is room for it.  *)
LEMMA ValueIsOver ==
  ASSUME VarInv, TextInv, InValue, NEW m, m = Waiting, NEW x \in Seq(Pieces),
         Waiting' = m, step' = "printed", out' = out \o x, \A k \in 1 .. m : walks'[k] = walks[k],
         UNCHANGED <<tree, cmd, var_die>>, ret' \in {"OK", "NO_ENTRY", "ERROR"},
         Exact' => Exact /\ NowEnds /\ x = NowText, NowEnds => Len(x) <= Len(NowText),
         ret' = "OK" => x # <<>> /\ x[Len(x)].is # "open"
  PROVE  TextInv'
<1> SUFFICES ASSUME NEW o, o = out, NEW e, e = NowEnds, NEW now, now = NowText PROVE TextInv'
  OBVIOUS
<1>1. /\ tree \in Trees /\ m \in Nat /\ Bottom \in Nat /\ Bottom <= m /\ o \in Seq(Pieces)
      /\ Balance(o, e, now, m) /\ now \in Seq(Pieces)
      /\ \A k \in Bottom + 1 .. m : tree[WalkCur(k)].tag = "member"
  BY ValueFacts, NowIs
<1>2. Bottom' = Bottom /\ \A k \in Bottom + 1 .. m : k \in 1 .. m
  BY <1>1, SameRoot
<1>3. \A k \in Bottom' + 1 .. m : tree'[WalkCur(k)'].tag = "member"
  BY <1>1, <1>2 DEF WalkCur
<1>4. NowEnds' = TRUE /\ NowText' = <<>>
  BY DEF NowEnds, NowText
<1>5. Balance(o \o x, TRUE, <<>>, m)'
  <2>1. (Exact' => Exact) /\ (e => Len(x) <= Len(now)) /\ (Exact' => e /\ x = now)
    OBVIOUS
  <2> QED
    BY <1>1, <2>1, Finishes
<1>6. o \o x \in Seq(Pieces) /\ (ret' = "OK" => o \o x # <<>> /\ (o \o x)[Len(o \o x)].is # "open")
  <2>1. o \o x \in Seq(Pieces) /\ Len(o \o x) = Len(o) + Len(x)
    BY <1>1, JoinPieces
  <2>2. ASSUME x # <<>> PROVE o \o x # <<>> /\ (o \o x)[Len(o \o x)] = x[Len(x)]
    <3>1. Len(x) \in Nat \ {0} /\ Len(o) \in Nat
      BY <1>1, <2>2
    <3>2. \A k \in 1 .. Len(x) : (o \o x)[Len(o) + k] = x[k]
      BY <1>1, JoinIs
    <3> QED
      BY <2>1, <3>1, <3>2
  <2> QED
    BY <2>1, <2>2
<1>7. Separated' /\ RetIs'
  BY <1>6 DEF Separated, LastIsOpen, RetIs, Goes
<1> QED
  BY <1>1, <1>2, <1>3, <1>4, <1>5, <1>6, <1>7, ValueGoesOn

(* What is written does not fit.                                           *)
LEMMA ValueOverruns ==
  ASSUME VarInv, TextInv, InValue, NEW x \in Seq(Pieces), NowEnds => Len(x) <= Len(NowText),
         \A k \in 1 .. Waiting : walks'[k] = walks[k], UNCHANGED <<tree, cmd, var_die>>,
         Len(out \o x) > Capacity, End("overrun")
  PROVE  TextInv'
<1>1. /\ tree \in Trees /\ Root \in Dies /\ Waiting \in Nat /\ Bottom <= Waiting /\ out \in Seq(Pieces)
      /\ Balance(out, NowEnds, NowText, Waiting) /\ NowText \in Seq(Pieces)
  BY ValueFacts, NowIs
<1> SUFFICES ASSUME NEW m, m = Waiting, NEW o, o = out, NEW e, e = NowEnds, NEW now, now = NowText PROVE TextInv'
  OBVIOUS
<1>2. OverrunsIfTooLong'
  BY <1>1, Overflows
<1> QED
  BY <1>2 DEF TextInv, End, PrintsWholeValue, InValue, RetIs, Goes

(* Behind the last member only the closing brace is left.                  *)
LEMMA RestOfNone ==
  ASSUME tree \in Trees, NEW a \in Nat
  PROVE  Ends(Rest(0)) /\ T(Rest(0), a) = <<Piece("close", 0, 0)>>
<1>1. Rest(0) \in Parts /\ Rest(0)[1] = "rest" /\ Rest(0)[2] = 0
  BY PartIs
<1>2. PartsOf(Rest(0)) = {} /\ ~IsCut(Rest(0))
  BY <1>1 DEF PartsOf, IsCut
<1>3. Ends(Rest(0)) /\ T(Rest(0), a) = PartText(Text[Depth], Rest(0), a)
  BY <1>1, <1>2, WholeTexts
<1> QED
  BY <1>1, <1>3 DEF PartText, RestText

(* The walk over the members ends: the struct is closed.                   *)
LEMMA Closes ==
  ASSUME VarInv, TextInv, step \in {"walk", "tag"}, Members, NEW w, NEW r, WalkEnds(w, r),
         r = "OK" => Coming = {}, r \in {"OK", "ERROR"}, UNCHANGED <<tree, cmd, var_die>>
  PROVE  TextInv'
<1> SUFFICES ASSUME NEW m, m = Waiting, NEW x, x = <<Piece("close", 0, 0)>> PROVE TextInv'
  OBVIOUS
<1>1. InValue
  BY DEF InValue
<1>2. /\ tree \in Trees /\ walks \in Seq(Walks) /\ m \in Nat /\ Walking = m + 1 /\ ret = "OK"
      /\ First(Coming) \in Dies \cup {0} /\ Part = Rest(First(Coming)) /\ NowText = T(Part, top.base)
      /\ (NowEnds <=> Ends(Part)) /\ top.base \in Nat /\ (NowEnds => Len(NowText) >= 1)
  BY <1>1, ValueFacts, NowIs
<1>3. walks' = Below /\ Write(x, "printed") /\ faults \subseteq faults' /\ (r = "ERROR" => "cut" \in faults')
  BY DEF WalkEnds
<1>4. Walking' = m /\ \A k \in 1 .. m : walks'[k] = walks[k]
  BY <1>2, <1>3, WalksBelow
<1>5. x \in Seq(Pieces) /\ Len(x) = 1 /\ x # <<>> /\ x[Len(x)].is # "open"
  <2>1. Piece("close", 0, 0) \in Pieces /\ Piece("close", 0, 0).is = "close"
    BY PieceTypes DEF Piece
  <2> QED
    BY <2>1
<1>6. NowEnds => Len(x) <= Len(NowText)
  BY <1>2, <1>5
<1>7. CASE Len(out \o x) > Capacity
  <2>1. End("overrun")
    BY <1>3, <1>7 DEF Write
  <2> QED
    BY <1>1, <1>4, <1>5, <1>6, <1>7, <2>1, ValueOverruns
<1>8. CASE ~(Len(out \o x) > Capacity)
  <2>1. step' = "printed" /\ ret' = ret /\ out' = out \o x
    BY <1>3, <1>8 DEF Write
  <2>2. Waiting' = m
    BY <1>4, <2>1 DEF Waiting
  <2>3. ASSUME Exact' PROVE Exact /\ NowEnds /\ x = NowText
    <3>1. r = "OK" /\ Exact
      BY <1>3, <2>3 DEF Exact, Plain
    <3>2. First(Coming) = 0
      BY <3>1 DEF First
    <3> QED
      BY <1>2, <3>1, <3>2, RestOfNone
  <2> QED
    BY <1>1, <1>2, <1>4, <1>5, <1>6, <2>1, <2>2, <2>3, ValueIsOver
<1> QED
  BY <1>7, <1>8

(* The walk over the parameters ends with the command.                     *)
LEMMA ParametersEnd ==
  ASSUME VarInv, step \in {"walk", "tag"}, ~Members, NEW w, NEW r, WalkEnds(w, r), r \in {"OK", "ERROR"}, UNCHANGED cmd
  PROVE  TextInv'
<1>1. cmd.what # "local"
  <2>1. Printing /\ Walking # 0
    BY PrintIs DEF Printing, PrintPhase
  <2> QED
    BY <2>1, PrintIs
<1>2. End(r)
  BY DEF WalkEnds
<1> QED
  BY <1>1, <1>2, NoValue DEF End, RetIs, Goes, InValue

(* The walk comes to the die s, behind which the same members are left.    *)
LEMMA ComesTo ==
  ASSUME VarInv, TextInv, step \in {"walk", "tag"}, NEW x \in Walks, walks' = Append(Below, x), step' = "tag",
         x.of = top.of, x.base = top.base, Walking # 0,
         Members => \A d \in MembersOf(top.of) : x.cur <= d <=> d \in Coming,
         UNCHANGED <<tree, cmd, var_die, ret, out, faults>>
  PROVE  TextInv'
<1>1. walks \in Seq(Walks) /\ Walking \in Nat /\ top \in Walks
  <2>1. Printing
    BY DEF Printing
  <2>2. walks \in Seq(Walks)
    BY <2>1, PrintIs
  <2> QED
    BY <2>2, WalkTypes
<1>2. /\ walks' \in Seq(Walks) /\ Walking' = Walking /\ top' = x
      /\ \A k \in 1 .. Walking - 1 : walks'[k] = walks[k]
  BY <1>1, WalksBelow
<1>3. CASE Members
  <2>1. MembersOf(top.of)' = MembersOf(top.of)
    BY <1>2 DEF MembersOf, ChildrenOf
  <2>2. Coming' = {d \in MembersOf(top.of) : d > x.cur \/ d = x.cur}
    BY <1>2, <2>1 DEF Coming
  <2>3. \A d \in MembersOf(top.of) : x.cur <= d <=> d > x.cur \/ d = x.cur
    <3>1. \A d \in MembersOf(top.of) : d \in Nat
      BY DieNumbers DEF MembersOf, ChildrenOf
    <3>2. x.cur \in Nat
      BY DieNumbers DEF Walks
    <3> QED
      BY <3>1, <3>2
  <2>4. Coming \subseteq MembersOf(top.of)
    BY DEF Coming
  <2>5. Coming' = Coming
    BY <1>3, <2>2, <2>3, <2>4
  <2> QED
    BY <1>2, <1>3, <2>5, StaysAhead
<1>4. CASE ~Members
  <2>1. ~Members'
    BY <1>2, <1>4, WalkTypes, <1>1 DEF Members, Walking
  <2>2. ret = "OK"
    BY DEF TextInv, RetIs, Goes
  <2> QED
    BY <2>1, <2>2, NoValue DEF InValue, RetIs, Goes
<1> QED
  BY <1>3, <1>4

(* A walk over members that has begun: the members behind its die.         *)
LEMMA SiblingAhead ==
  ASSUME VarInv, step \in {"walk", "tag"}, Members, NEW c, c = top.cur, c # 0,
         step = "tag" => tree[c].tag # "member", NEW s, s = dwarf_siblingof_c(c)
  PROVE  /\ s # 0 => \A d \in MembersOf(top.of) : s <= d <=> d \in Coming
         /\ s = 0 => Coming = {}
<1>1. tree \in Trees /\ c \in Dies /\ c \in Nat /\ Parent(c) = top.of
  <2>1. Printing
    BY DEF Printing
  <2>2. tree \in Trees /\ walks \in Seq(Walks) /\ Walking # 0 /\ WalkIsRight(Walking) /\ Walking \in 1 .. Walking
    BY <2>1, PrintIs, WalkTypes
  <2>3. c = WalkCur(Walking) /\ top.of = WalkOf(Walking) /\ c \in Dies
    BY <2>2, WalkTypes
  <2> QED
    BY <2>2, <2>3, DieNumbers DEF WalkIsRight
<1>2. \A d \in MembersOf(top.of) : d \in Dies /\ d \in Nat /\ Parent(d) = Parent(c) /\ tree[d].tag = "member"
  BY <1>1, DieNumbers DEF MembersOf, ChildrenOf, Parent
<1>3. \A d \in MembersOf(top.of) : d \in Coming <=> d > c
  <2>1. \A d \in MembersOf(top.of) : d \in Coming <=> d > c \/ (d = c /\ step # "walk")
    BY DEF Coming
  <2>2. \A d \in MembersOf(top.of) : ~(d = c /\ step # "walk")
    BY <1>2
  <2> QED
    BY <2>1, <2>2
<1>4. \A d \in MembersOf(top.of) : d \in Coming <=> d \in Later(c)
  BY <1>1, <1>2, <1>3 DEF Later
<1>5. ASSUME s # 0, NEW d \in MembersOf(top.of) PROVE s <= d <=> d \in Coming
  <2>1. s \in Later(c) /\ \A e \in Later(c) : s <= e
    BY <1>1, <1>5, SiblingIsNext
  <2>2. s \in Nat /\ c < s
    BY <1>1, <2>1, LaterIs
  <2> QED
    BY <1>1, <1>2, <1>3, <1>4, <1>5, <2>1, <2>2
<1>6. ASSUME s = 0 PROVE Coming = {}
  <2>1. Later(c) = {}
    BY <1>1, <1>6, SiblingIsNext
  <2>2. Coming \subseteq MembersOf(top.of)
    BY DEF Coming
  <2> QED
    BY <1>4, <2>1, <2>2
<1> QED
  BY <1>5, <1>6

(* get_data_members and get_formal_params: the first die or the sibling.   *)
LEMMA WalkOnText == ASSUME VarInv, TextInv, WalkOn PROVE TextInv'
<1> SUFFICES ASSUME NEW n, n = Walking, NEW w, w = [top EXCEPT !.next = 0],
                    NEW c, c = dwarf_child(w.of), NEW s, s = dwarf_siblingof_c(w.cur)
             PROVE  TextInv'
  OBVIOUS
<1> DEFINE x == [w EXCEPT !.cur = c, !.handle = "live"]
           same == UNCHANGED <<tree, frames, at, sub, res, cmd, calls, target, var_die, base, listed>>
           tag == step' = "tag" /\ UNCHANGED <<live, ret, out, faults>>
           first == w.cur = 0 /\ c # 0 /\ walks' = Append(Below, x) /\ tag
           next == w.cur # 0 /\ s # 0 /\ walks' = Append(Below, Moved(w)) /\ tag
           ends == \E v : \/ w.cur = 0 /\ c = 0 /\ WalkEnds(v, "OK")
                          \/ w.cur # 0 /\ s = 0 /\ WalkEnds(v, "OK")
                          \/ WalkEnds(v, "ERROR")
<1>1. step = "walk" /\ same /\ (first \/ next \/ ends)
  BY DEF WalkOn
<1>2. Printing
  BY <1>1 DEF Printing
<1>3. tree \in Trees /\ walks \in Seq(Walks) /\ n # 0
  BY <1>1, <1>2, PrintIs DEF PrintPhase
<1>4. /\ top \in Walks /\ w \in Walks /\ w.of = top.of /\ w.cur = top.cur /\ w.base = top.base
      /\ top.of \in Dies /\ top.cur \in Dies \cup {0}
  BY <1>3, WalkTypes DEF Walks
<1>5. w.cur = 0 => \A d \in MembersOf(top.of) : d \in Coming /\ d \in Dies /\ Parent(d) = top.of
  BY <1>1, <1>4, DieNumbers DEF Coming, MembersOf, ChildrenOf, Parent
<1>6. CASE first
  <2>1. c \in Dies /\ \A d \in MembersOf(top.of) : c <= d
    BY <1>3, <1>4, <1>5, <1>6, ChildIsFirst
  <2>2. x \in Walks /\ x.of = top.of /\ x.base = top.base /\ x.cur = c
    BY <1>4, <2>1 DEF Walks
  <2>3. Members => \A d \in MembersOf(top.of) : x.cur <= d <=> d \in Coming
    BY <1>5, <1>6, <2>1, <2>2
  <2>4. walks' = Append(Below, x) /\ tag /\ step \in {"walk", "tag"}
    BY <1>1, <1>6
  <2> HIDE DEF x
  <2> QED
    BY <1>1, <1>3, <2>2, <2>3, <2>4, ComesTo
<1>7. CASE next
  <2>1. s \in Dies
    <3>1. top.cur \in Dies /\ s = dwarf_siblingof_c(top.cur)
      BY <1>4, <1>7
    <3>2. s \in Later(top.cur)
      BY <1>3, <1>7, <3>1, SiblingIsNext
    <3> QED
      BY <3>1, <3>2, LaterIs
  <2> DEFINE y == Moved(w)
  <2>2. y \in Walks /\ y.of = top.of /\ y.base = top.base /\ y.cur = s
    BY <1>4, <2>1 DEF Walks, Moved
  <2>3. Members => \A d \in MembersOf(top.of) : y.cur <= d <=> d \in Coming
    BY <1>1, <1>4, <1>7, <2>2, SiblingAhead
  <2>4. walks' = Append(Below, y) /\ tag /\ step \in {"walk", "tag"}
    BY <1>1, <1>7
  <2> HIDE DEF y
  <2> QED
    BY <1>1, <1>3, <2>2, <2>3, <2>4, ComesTo
<1>8. CASE ends
  <2>1. PICK v : \/ w.cur = 0 /\ c = 0 /\ WalkEnds(v, "OK")
                 \/ w.cur # 0 /\ s = 0 /\ WalkEnds(v, "OK")
                 \/ WalkEnds(v, "ERROR")
    BY <1>8
  <2>2. CASE ~Members
    BY <1>1, <2>1, <2>2, ParametersEnd
  <2>3. CASE Members
    <3>1. (w.cur = 0 /\ c = 0) \/ (w.cur # 0 /\ s = 0) => Coming = {}
      <4>1. ASSUME w.cur = 0, c = 0 PROVE Coming = {}
        <5>1. \A d \in MembersOf(top.of) : FALSE
          BY <1>3, <1>4, <1>5, <4>1, ChildIsFirst
        <5> QED
          BY <5>1 DEF Coming
      <4>2. ASSUME w.cur # 0, s = 0 PROVE Coming = {}
        BY <1>1, <1>4, <2>3, <4>2, SiblingAhead
      <4> QED
        BY <4>1, <4>2
    <3>2. PICK r \in {"OK", "ERROR"} : WalkEnds(v, r) /\ (r = "OK" => Coming = {})
      BY <2>1, <3>1
    <3> QED
      BY <1>1, <2>3, <3>2, Closes
  <2> QED
    BY <2>2, <2>3
<1> QED
  BY <1>1, <1>6, <1>7, <1>8

(* One turn of their loop.                                                 *)
LEMMA WalkTagText == ASSUME VarInv, TextInv, WalkTag PROVE TextInv'
<1> SUFFICES ASSUME NEW n, n = Walking, NEW w, w = top, NEW s, s = dwarf_siblingof_c(w.cur)
             PROVE  TextInv'
  OBVIOUS
<1> DEFINE same == UNCHANGED <<tree, frames, at, sub, res, cmd, calls, target, var_die, base, listed>>
           found == tree[w.cur].tag = Wanted /\ step' = "item" /\ UNCHANGED <<walks, live, ret, out, faults>>
           next == /\ tree[w.cur].tag # Wanted /\ s # 0 /\ walks' = Append(Below, Moved(w))
                   /\ UNCHANGED <<step, live, ret, out, faults>>
           ends == \E v : \/ tree[w.cur].tag # Wanted /\ s = 0 /\ WalkEnds(v, "OK")
                          \/ WalkEnds(v, "ERROR")
<1>1. step = "tag" /\ same /\ (found \/ next \/ ends)
  BY DEF WalkTag
<1>2. Printing
  BY <1>1 DEF Printing
<1>3. /\ tree \in Trees /\ walks \in Seq(Walks) /\ n # 0 /\ n \in Nat /\ WalkIsRight(n) /\ n \in 1 .. n
      /\ (walks # <<>> <=> n # 0)
  BY <1>1, <1>2, PrintIs, WalkTypes DEF PrintPhase
<1>4. w \in Walks /\ top.of \in Dies /\ w.cur \in Dies /\ w.cur = WalkCur(n)
  BY <1>1, <1>3, WalkTypes DEF WalkIsRight, Walks
<1>5. ret = "OK"
  BY <1>1 DEF TextInv, RetIs, Goes
<1>6. CASE found
  <2>1. CASE Members
    <3>1. /\ walks' \in Seq(Walks) /\ Walking' = n /\ top' = top
          /\ \A k \in 1 .. n - 1 : walks'[k] = walks[k]
      BY <1>3, <1>6 DEF Walking, top
    <3>2. Coming' = Coming
      BY <1>1, <1>6, <3>1 DEF Coming, MembersOf, ChildrenOf
    <3> QED
      BY <1>1, <1>6, <2>1, <3>1, <3>2, StaysAhead
  <2>2. CASE ~Members
    <3>1. ~Members'
      BY <1>1, <1>6, <2>2 DEF Members, top
    <3> QED
      BY <1>1, <1>5, <1>6, <3>1, NoValue DEF InValue, RetIs, Goes
  <2> QED
    BY <2>1, <2>2
<1>7. CASE next
  <2>1. s \in Dies
    <3>1. s \in Later(w.cur)
      BY <1>3, <1>4, <1>7, SiblingIsNext
    <3> QED
      BY <1>4, <3>1, LaterIs
  <2> DEFINE y == Moved(w)
  <2>2. y \in Walks /\ y.of = top.of /\ y.base = top.base /\ y.cur = s
    BY <1>4, <2>1 DEF Walks, Moved
  <2>3. Members => \A d \in MembersOf(top.of) : y.cur <= d <=> d \in Coming
    <3>1. w.cur # 0
      BY <1>4, DieNumbers
    <3> QED
      BY <1>1, <1>7, <2>2, <3>1, SiblingAhead DEF Wanted
  <2>4. walks' = Append(Below, y) /\ step' = "tag" /\ step \in {"walk", "tag"} /\ UNCHANGED <<ret, out, faults>>
    BY <1>1, <1>7
  <2> HIDE DEF y
  <2> QED
    BY <1>1, <1>3, <2>2, <2>3, <2>4, ComesTo
<1>8. CASE ends
  <2>1. PICK v : \/ tree[w.cur].tag # Wanted /\ s = 0 /\ WalkEnds(v, "OK")
                 \/ WalkEnds(v, "ERROR")
    BY <1>8
  <2>2. CASE ~Members
    BY <1>1, <2>1, <2>2, ParametersEnd
  <2>3. CASE Members
    <3>1. tree[w.cur].tag # Wanted /\ s = 0 => Coming = {}
      <4>1. w.cur # 0
        BY <1>4, DieNumbers
      <4> QED
        BY <1>1, <2>3, <4>1, SiblingAhead DEF Wanted
    <3>2. PICK r \in {"OK", "ERROR"} : WalkEnds(v, r) /\ (r = "OK" => Coming = {})
      BY <2>1, <3>1
    <3> QED
      BY <1>1, <2>3, <3>2, Closes
  <2> QED
    BY <2>2, <2>3
<1> QED
  BY <1>1, <1>6, <1>7, <1>8

(* The member whose value is next.                                         *)
LEMMA MemberIs ==
  ASSUME VarInv, TextInv, step = "item", Members, NEW d, d = top.cur
  PROVE  /\ d \in Dies /\ tree[d].tag = "member" /\ tree[d].parent = top.of /\ WalkCur(Walking) = d
         /\ First(Coming) = d /\ Name(d) = Heading(d) /\ Name(d) \in Seq(Pieces)
         /\ Name(d) # <<>> /\ Name(d)[Len(Name(d))].is # "open"
         /\ Left(Walking) = Rest(NextMember(d)) /\ LeftText(Walking) = T(Rest(NextMember(d)), top.base)
<1>1. Printing /\ InValue
  BY DEF Printing, InValue
<1>2. /\ tree \in Trees /\ walks \in Seq(Walks) /\ Walking # 0 /\ WalkIsRight(Walking) /\ Walking \in 1 .. Walking
      /\ PrintPhase
  BY <1>1, PrintIs, WalkTypes
<1>3. d \in Dies /\ d = WalkCur(Walking) /\ Parent(d) = top.of /\ d \in Nat
  <2>1. d = WalkCur(Walking) /\ top.of = WalkOf(Walking) /\ d \in Dies \cup {0}
    BY <1>2, WalkTypes
  <2>2. d # 0
    BY <1>2, <2>1 DEF WalkIsRight
  <2> QED
    BY <1>2, <2>1, <2>2, DieNumbers DEF WalkIsRight
<1>4. tree[d].tag = "member" /\ tree[d].parent = top.of
  BY <1>2, <1>3 DEF PrintPhase, Wanted, Parent
<1>5. d \in MembersOf(top.of) /\ d \in Coming /\ \A k \in Coming : k >= d /\ k \in Dies /\ k \in Nat
  <2>1. d \in MembersOf(top.of)
    BY <1>3, <1>4 DEF MembersOf, ChildrenOf
  <2>2. \A k \in MembersOf(top.of) : k \in Dies /\ k \in Nat
    BY DieNumbers DEF MembersOf, ChildrenOf
  <2> QED
    BY <1>3, <2>1, <2>2 DEF Coming
<1>6. First(Coming) = d
  <2>1. Coming \subseteq Dies
    BY <1>5
  <2>2. First(Coming) \in Coming /\ First(Coming) <= d
    BY <1>5, <2>1, FirstIsLeast
  <2> QED
    BY <1>3, <1>5, <2>2
<1>7. LastIsOpen <=> IsFirstOne(d)
  <2>1. LastIsOpen <=> Coming = MembersOf(top.of)
    BY <1>1, ValueFacts DEF Separated
  <2>2. IsFirstOne(d) <=> d = First(MembersOf(top.of))
    BY <1>4 DEF IsFirstOne
  <2>3. Coming = MembersOf(top.of) => d = First(MembersOf(top.of))
    BY <1>6
  <2>4. ASSUME d = First(MembersOf(top.of)) PROVE Coming = MembersOf(top.of)
    <3>1. MembersOf(top.of) \subseteq Dies
      BY DEF MembersOf, ChildrenOf
    <3>2. \A k \in MembersOf(top.of) : d <= k /\ k \in Nat
      BY <2>4, <3>1, FirstIsLeast, DieNumbers
    <3>3. \A k \in MembersOf(top.of) : k > d \/ k = d
      BY <1>3, <3>2
    <3> QED
      BY <3>3 DEF Coming
  <2> QED
    BY <2>1, <2>2, <2>3, <2>4
<1>8. Name(d) = Heading(d)
  BY <1>7 DEF Name, Heading, LastIsOpen
<1>9. Name(d) \in Seq(Pieces)
  BY <1>3, <1>8, HeadingTypes
<1>10. Name(d) # <<>> /\ Name(d)[Len(Name(d))].is # "open"
  <2> DEFINE n == Piece("name", d, 0)
             c == Piece("comma", 0, 0)
  <2>1. n.is = "name" /\ n \in Pieces /\ c \in Pieces
    BY <1>3, PieceTypes DEF Piece
  <2>2. Name(d) = <<>> \o <<n>> \/ Name(d) = <<c>> \o <<n>>
    BY DEF Name
  <2> HIDE DEF n, c
  <2>3. PICK p \in Seq(Pieces) : Name(d) = p \o <<n>>
    <3>1. <<>> \in Seq(Pieces) /\ <<c>> \in Seq(Pieces)
      BY <2>1
    <3> QED
      BY <2>2, <3>1
  <2>4. <<n>> \in Seq(Pieces) /\ Len(<<n>>) = 1 /\ <<n>>[1] = n
    BY <2>1
  <2>5. Len(p \o <<n>>) = Len(p) + 1 /\ (p \o <<n>>)[Len(p) + 1] = n /\ Len(p) \in Nat
    BY <2>4, JoinIs
  <2> QED
    BY <2>1, <2>3, <2>5, <1>9
<1>11. Left(Walking) = Rest(NextMember(d))
  BY <1>3 DEF Left
<1>12. LeftText(Walking) = T(Rest(NextMember(d)), top.base)
  <2>1. walks[Walking].base = top.base
    BY DEF top, Walking
  <2> QED
    BY <1>11, <2>1 DEF LeftText
<1> QED
  BY <1>3, <1>4, <1>6, <1>8, <1>9, <1>10, <1>11, <1>12

(* A member's value is next.                                               *)
LEMMA MemberGoesDown ==
  ASSUME VarInv, TextInv, step = "item", Members, NEW d, d = top.cur, NEW a \in Nat,
         Plain(d) => a = top.base + tree[d].offset,
         step' = "type", target' = d, base' = a, out' = out \o Name(d), walks' = walks,
         UNCHANGED <<tree, cmd, var_die, ret, faults>>
  PROVE  TextInv'
<1> SUFFICES ASSUME NEW m, m = Waiting, NEW o, o = out, NEW e, e = NowEnds, NEW now, now = NowText,
                    NEW x, x = Name(d), NEW n, n = Walking,
                    NEW next, next = T(Value(tree[d].type), a), NEW f, f = Ends(Value(tree[d].type))
             PROVE  TextInv'
  OBVIOUS
<1>1. InValue
  BY DEF InValue
<1>2. /\ tree \in Trees /\ walks \in Seq(Walks) /\ m \in Nat /\ n = m + 1 /\ Bottom \in Nat /\ Bottom <= m /\ ret = "OK"
      /\ o \in Seq(Pieces) /\ Balance(o, e, now, m) /\ now \in Seq(Pieces)
      /\ \A k \in Bottom + 1 .. m : tree[WalkCur(k)].tag = "member"
      /\ top.base \in Nat /\ Part = Rest(First(Coming)) /\ now = T(Part, top.base) /\ (e <=> Ends(Part))
  BY <1>1, ValueFacts, NowIs
<1>3. /\ d \in Dies /\ tree[d].tag = "member" /\ WalkCur(n) = d /\ First(Coming) = d
      /\ x = Heading(d) /\ x \in Seq(Pieces)
      /\ Left(n) = Rest(NextMember(d)) /\ LeftText(n) = T(Rest(NextMember(d)), top.base)
  BY MemberIs
<1>4. tree[d].type \in Dies \cup {0} /\ NextMember(d) \in Dies \cup {0} /\ top.base + tree[d].offset \in Nat
  BY <1>2, <1>3, MemberTypes, SMTT(30)
<1>5. /\ next \in Seq(Pieces) /\ LeftText(n) \in Seq(Pieces)
      /\ Len(next) = Len(T(Value(tree[d].type), top.base + tree[d].offset))
  BY <1>2, <1>3, <1>4, PartIs, WholeTexts, SMTT(30)
<1>6. e <=> f /\ Ends(Left(n))
  BY <1>2, <1>3, RestEnds
<1>7. e => now = (x \o T(Value(tree[d].type), top.base + tree[d].offset)) \o LeftText(n)
  BY <1>2, <1>3, RestTextIs
<1>8. e => Len(x) + Len(next) + Len(LeftText(n)) = Len(now)
  <2>1. PICK v \in Seq(Pieces), r \in Seq(Pieces) :
          v = T(Value(tree[d].type), top.base + tree[d].offset) /\ r = LeftText(n)
    BY <1>2, <1>4, <1>5, PartIs, WholeTexts
  <2>2. Len(x \o v) = Len(x) + Len(v) /\ Len((x \o v) \o r) = Len(x \o v) + Len(r)
    BY <1>3, JoinPieces
  <2> QED
    BY <1>5, <1>7, <2>1, <2>2
<1>9. Exact' => Exact
  BY DEF Exact, Plain
<1>10. e /\ Exact' => (x \o next) \o LeftText(n) = now
  BY <1>3, <1>7, <1>9 DEF Exact
<1>11. \A k \in 1 .. m + 1 : walks'[k] = walks[k]
  OBVIOUS
<1>12. Balance(o \o x, f, next, n)'
  <2> PICK r \in Seq(Pieces) : r = LeftText(n)
    BY <1>5
  <2>1. (e <=> f /\ Ends(Left(n))) /\ (e => Len(x) + Len(next) + Len(r) = Len(now)) /\ (e /\ Exact' => (x \o next) \o r = now)
    BY <1>6, <1>8, <1>10
  <2>2. \A k \in 1 .. n : walks'[k] = walks[k]
    OBVIOUS
  <2>3. /\ tree \in Trees /\ UNCHANGED <<tree, cmd, var_die>> /\ m \in Nat /\ Bottom <= m /\ n = m + 1
        /\ (Exact' => Exact) /\ o \in Seq(Pieces) /\ now \in Seq(Pieces) /\ Balance(o, e, now, m)
        /\ x \in Seq(Pieces) /\ next \in Seq(Pieces)
    BY <1>2, <1>3, <1>5, <1>9
  <2>4. Down(m, n, r, o, now, e, x, next, f)
    BY <2>1, <2>2, <2>3 DEF Down
  <2> QED
    BY <2>4, MemberBegins
<1>13. Bottom' = Bottom /\ Bottom <= n
  BY <1>2 DEF Bottom
<1>14. \A k \in Bottom' + 1 .. n : tree'[WalkCur(k)'].tag = "member"
  <2>1. \A k \in Bottom + 1 .. n : k = n \/ k \in Bottom + 1 .. m
    BY <1>2
  <2> QED
    BY <1>2, <1>3, <1>13, <2>1 DEF WalkCur
<1>15. NowEnds' = f /\ NowText' = next
  <2>1. Part' = Value(tree[d].type)
    BY DEF Part, Value
  <2>2. Ends(Part)' = Ends(Part') /\ NowText' = T(Part', a)
    BY SameText DEF Ends, NowText
  <2>3. NowEnds' = Ends(Part)'
    BY DEF NowEnds, Ends
  <2> QED
    BY <2>1, <2>2, <2>3
<1>16. Waiting' = n
  BY DEF Waiting, Walking
<1>17. Separated' /\ RetIs'
  BY <1>2 DEF Separated, RetIs, Goes
<1>18. o \o x \in Seq(Pieces) /\ out' = o \o x
  BY <1>2, <1>3, JoinPieces
<1> QED
  BY <1>2, <1>12, <1>13, <1>14, <1>15, <1>16, <1>17, <1>18, ValueGoesOn

(* The empty text.                                                         *)
LEMMA NothingAdded ==
  ASSUME NEW o \in Seq(Pieces)
  PROVE  <<>> \in Seq(Pieces) /\ o \o <<>> = o /\ <<>> \o o = o /\ Len(<<>>) = 0
OBVIOUS

(* A value cannot be printed: nothing is written.                          *)
LEMMA ValueFails ==
  ASSUME VarInv, TextInv, InValue, Waiting' = Waiting, \A k \in 1 .. Waiting : walks'[k] = walks[k],
         step' = "printed", ret' \in {"NO_ENTRY", "ERROR"}, UNCHANGED <<tree, cmd, var_die, out>>
  PROVE  TextInv'
<1>1. out \in Seq(Pieces) /\ NowText \in Seq(Pieces) /\ Len(NowText) \in Nat
  BY ValueFacts, NowIs
<1>2. PICK x \in Seq(Pieces) : x = <<>>
  BY <1>1, NothingAdded, Zenon
<1>3. out' = out \o x /\ Len(x) <= Len(NowText) /\ ~Exact' /\ ret' # "OK"
  BY <1>1, <1>2, NothingAdded DEF Exact
<1> QED
  BY <1>2, <1>3, ValueIsOver

(* The loop of sprint_var_die_given_struct_type.                           *)
LEMMA MemberText == ASSUME VarInv, TextInv, Member PROVE TextInv'
<1> SUFFICES ASSUME NEW n, n = Walking, NEW m, m = Waiting, NEW d, d = top.cur, NEW x, x = Name(d)
             PROVE  TextInv'
  OBVIOUS
<1> DEFINE fails == Prints("ERROR") /\ walks' = Below /\ out' = out
           goes(a) == /\ tree[d].label = "none" \/ tree[d].form # "other"
                      /\ base' = a /\ target' = d /\ Write(x, "type") /\ walks' = walks
           stops == /\ tree[d].label # "none" /\ tree[d].form = "other"
                    /\ Write(x, "printed") /\ walks' = Below
           crashes == End("crash")
<1>1. /\ step = "item" /\ Members /\ UNCHANGED <<tree, cmd, var_die, faults>>
      /\ fails \/ (\E a \in MemberAddress(top.base, d) : goes(a)) \/ stops \/ crashes
  BY DEF Member
<1>2. InValue
  BY <1>1 DEF InValue
<1>3. /\ tree \in Trees /\ walks \in Seq(Walks) /\ m \in Nat /\ n = m + 1
      /\ Part = Rest(First(Coming)) /\ NowText = T(Part, top.base) /\ (NowEnds <=> Ends(Part)) /\ top.base \in Nat
  BY <1>1, <1>2, ValueFacts, NowIs
<1>4. /\ d \in Dies /\ d # 0 /\ tree[d].tag = "member" /\ First(Coming) = d /\ x = Heading(d) /\ x \in Seq(Pieces)
      /\ x # <<>> /\ x[Len(x)].is # "open"
  BY <1>1, MemberIs, DieNumbers
<1>5. NowEnds => Len(x) <= Len(NowText)
  BY <1>3, <1>4, RestIsLong
<1>6. walks' = Below => Walking' = m /\ \A k \in 1 .. m : walks'[k] = walks[k]
  BY <1>3, WalksBelow
<1>7. CASE fails
  <2>1. step' = "printed" /\ ret' = "ERROR" /\ Waiting' = m /\ out' = out
    BY <1>6, <1>7 DEF Prints, Waiting
  <2> QED
    BY <1>1, <1>2, <1>6, <1>7, <2>1, ValueFails
<1>8. ASSUME Write(x, "type") \/ Write(x, "printed"), Len(out \o x) > Capacity,
             \A k \in 1 .. m : walks'[k] = walks[k]
      PROVE  TextInv'
  <2>1. End("overrun")
    BY <1>8 DEF Write
  <2> QED
    BY <1>1, <1>2, <1>4, <1>5, <1>8, <2>1, ValueOverruns
<1>9. ASSUME NEW a \in MemberAddress(top.base, d), goes(a) PROVE TextInv'
  <2>1. CASE Len(out \o x) > Capacity
    BY <1>8, <1>9, <2>1
  <2>2. CASE ~(Len(out \o x) > Capacity)
    <3>1. step' = "type" /\ ret' = ret /\ out' = out \o x
      BY <1>9, <2>2 DEF Write
    <3>2. tree[d].offset \in Nat /\ tree[d].form \in {"constant", "expression", "other", "none"}
      BY <1>3, <1>4, TreesAssumption DEF Die
    <3>3. a \in Nat /\ (Plain(d) => a = top.base + tree[d].offset)
      BY <1>3, <1>4, <3>2 DEF MemberAddress, Plain
    <3> QED
      BY <1>1, <1>9, <3>1, <3>3, MemberGoesDown
  <2> QED
    BY <2>1, <2>2
<1>10. CASE stops
  <2>1. CASE Len(out \o x) > Capacity
    BY <1>6, <1>8, <1>10, <2>1
  <2>2. CASE ~(Len(out \o x) > Capacity)
    <3>1. step' = "printed" /\ ret' = ret /\ out' = out \o x
      BY <1>10, <2>2 DEF Write
    <3>2. ~Exact'
      BY <1>1, <1>4, <1>10 DEF Exact, Plain
    <3>3. ret = "OK" /\ Waiting' = m
      BY <1>1, <1>2, <1>6, <1>10, <3>1, ValueFacts DEF Waiting
    <3> QED
      BY <1>1, <1>2, <1>4, <1>5, <1>6, <1>10, <3>1, <3>2, <3>3, ValueIsOver
  <2> QED
    BY <2>1, <2>2
<1>11. CASE crashes
  BY <1>11, NoValue DEF End, RetIs, Goes, InValue
<1> QED
  BY <1>1, <1>7, <1>9, <1>10, <1>11

(* What is being printed begins with x.                                    *)
(* A modifier gives way to its type, a struct to its first member.         *)
Deeper(m, o, now, e, x, next, f) ==
  /\ tree \in Trees /\ UNCHANGED <<tree, cmd, var_die>> /\ m \in Nat /\ Bottom <= m
  /\ \A k \in 1 .. m : walks'[k] = walks[k]
  /\ Exact' => Exact
  /\ o \in Seq(Pieces) /\ now \in Seq(Pieces) /\ Balance(o, e, now, m)
  /\ x \in Seq(Pieces) /\ next \in Seq(Pieces)
  /\ (e <=> f) /\ (e => now = x \o next)

(* The balance when what is being printed has begun.                       *)
LEMMA GoesDeeper ==
  ASSUME NEW m, NEW o, NEW now, NEW e, NEW x, NEW next, NEW f, Deeper(m, o, now, e, x, next, f)
  PROVE  Balance(o \o x, f, next, m)'
<1> USE DEF Deeper
<1>1. /\ e => Len(x) + Len(next) <= Len(now)
      /\ e /\ Exact' => x \o next = now
      /\ (e => f) /\ (Exact' /\ f => e)
  <2>1. Len(x \o next) = Len(x) + Len(next) /\ Len(x) \in Nat /\ Len(next) \in Nat
    BY JoinPieces
  <2> QED
    BY <2>1
<1> QED
  BY <1>1, Advances

(* The type of a value is one that only modifies another.                  *)
LEMMA ModifiedType ==
  ASSUME VarInv, TextInv, step = "type", NEW t \in Dies, t = tree[target].type, tree[t].tag = "modifier",
         target' = t, UNCHANGED <<tree, cmd, var_die, base, step, ret, walks, out, faults>>
  PROVE  TextInv'
<1> SUFFICES ASSUME NEW m, m = Waiting, NEW o, o = out, NEW e, e = NowEnds, NEW now, now = NowText,
                    NEW next, next = T(Value(tree[t].type), base), NEW f, f = Ends(Value(tree[t].type))
             PROVE  TextInv'
  OBVIOUS
<1>1. InValue
  BY DEF InValue
<1>2. /\ tree \in Trees /\ walks \in Seq(Walks) /\ m \in Nat /\ Bottom \in Nat /\ Bottom <= m /\ ret = "OK"
      /\ o \in Seq(Pieces) /\ Balance(o, e, now, m) /\ now \in Seq(Pieces) /\ base \in Nat
      /\ \A k \in Bottom + 1 .. m : tree[WalkCur(k)].tag = "member"
      /\ Part = Value(t) /\ now = T(Part, base) /\ (e <=> Ends(Part))
  BY <1>1, ValueFacts, NowIs
<1>3. t # 0 /\ tree[t].type \in Dies \cup {0}
  BY <1>2, MemberTypes, DieNumbers
<1>4. next \in Seq(Pieces)
  BY <1>2, <1>3, PartIs, WholeTexts
<1>5. (e <=> f) /\ (e => now = next)
  BY <1>2, <1>3, ValueEnds, ValueTextIs
<1>6. \A k \in 1 .. m : walks'[k] = walks[k]
  OBVIOUS
<1>7. Bottom' = Bottom /\ \A k \in Bottom + 1 .. m : k \in 1 .. m
  BY <1>2, <1>6, SameRoot
<1>8. \A k \in Bottom' + 1 .. m : tree'[WalkCur(k)'].tag = "member"
  BY <1>2, <1>7 DEF WalkCur
<1>9. NowEnds' = f /\ NowText' = next
  <2>1. Part' = Value(tree[t].type)
    BY DEF Part, Value
  <2>2. Ends(Part)' = Ends(Part') /\ NowText' = T(Part', base)
    BY SameText DEF Ends, NowText
  <2>3. NowEnds' = Ends(Part)'
    BY DEF NowEnds, Ends
  <2> QED
    BY <2>1, <2>2, <2>3
<1>10. Waiting' = m
  BY DEF Waiting, Walking
<1>11. Separated' /\ RetIs'
  BY <1>2 DEF Separated, RetIs, Goes
<1>12. Balance(o, f, next, m)'
  <2>1. PICK x \in Seq(Pieces) : x = <<>>
    BY <1>2, NothingAdded, Zenon
  <2>2. x \o next = next /\ o \o x = o
    BY <1>2, <1>4, <2>1, NothingAdded
  <2>3. Exact' => Exact
    BY DEF Exact, Plain
  <2>4. Balance(o \o x, f, next, m)'
    <3>1. Deeper(m, o, now, e, x, next, f)
      BY <1>2, <1>4, <1>5, <1>6, <2>2, <2>3 DEF Deeper
    <3> QED
      BY <3>1, GoesDeeper
  <2> QED
    BY <2>2, <2>4
<1> QED
  BY <1>2, <1>4, <1>7, <1>8, <1>9, <1>10, <1>11, <1>12, ValueGoesOn

(* The type of a value is a struct: its first member is next.              *)
LEMMA StructBegins ==
  ASSUME VarInv, TextInv, step = "type", NEW t \in Dies, t = tree[target].type, tree[t].tag = "struct",
         NEW x, x = <<Piece("open", 0, 0)>>, step' = "walk", out' = out \o x, walks' = Append(walks, Walk(t, base)),
         UNCHANGED <<tree, cmd, var_die, base, ret, faults>>
  PROVE  TextInv'
<1> SUFFICES ASSUME NEW m, m = Waiting, NEW o, o = out, NEW e, e = NowEnds, NEW now, now = NowText,
                    NEW next, next = T(Rest(FirstOf(t)), base), NEW f, f = Ends(Rest(FirstOf(t)))
             PROVE  TextInv'
  OBVIOUS
<1>1. InValue
  BY DEF InValue
<1>2. /\ tree \in Trees /\ walks \in Seq(Walks) /\ m \in Nat /\ Bottom \in Nat /\ Bottom <= m /\ ret = "OK" /\ m = Walking
      /\ o \in Seq(Pieces) /\ Balance(o, e, now, m) /\ now \in Seq(Pieces) /\ base \in Nat
      /\ \A k \in Bottom + 1 .. m : tree[WalkCur(k)].tag = "member"
      /\ Part = Value(t) /\ now = T(Part, base) /\ (e <=> Ends(Part))
  BY <1>1, ValueFacts, NowIs
<1>3. t # 0 /\ FirstOf(t) \in Dies \cup {0}
  BY <1>2, MemberTypes, DieNumbers
<1>4. next \in Seq(Pieces)
  BY <1>2, <1>3, PartIs, WholeTexts
<1>5. (e <=> f) /\ (e => now = x \o next)
  BY <1>2, <1>3, ValueEnds, ValueTextIs
<1>6. x \in Seq(Pieces) /\ Len(x) = 1 /\ x[1].is = "open"
  <2>1. Piece("open", 0, 0) \in Pieces /\ Piece("open", 0, 0).is = "open"
    BY PieceTypes DEF Piece
  <2> QED
    BY <2>1
<1>7. /\ walks' \in Seq(Walks) /\ Walking' = m + 1 /\ top' = Walk(t, base)
      /\ \A k \in 1 .. m : walks'[k] = walks[k]
  <2>1. Walk(t, base) \in Walks
    BY <1>2 DEF Walk, Walks
  <2> QED
    BY <1>2, <2>1, WalksBelow
<1>8. Bottom' = Bottom /\ \A k \in Bottom + 1 .. m : k \in 1 .. m
  BY <1>2, <1>7, SameRoot
<1>9. \A k \in Bottom' + 1 .. m : tree'[WalkCur(k)'].tag = "member"
  BY <1>2, <1>7, <1>8 DEF WalkCur
<1>10. Coming' = MembersOf(t) /\ MembersOf(top.of)' = MembersOf(t) /\ top'.base = base
  <2>1. top'.of = t /\ top'.cur = 0 /\ top'.base = base
    BY <1>7 DEF Walk
  <2>2. MembersOf(top.of)' = MembersOf(t)
    BY <2>1 DEF MembersOf, ChildrenOf
  <2>3. \A k \in MembersOf(t) : k > 0
    <3> SUFFICES ASSUME NEW k \in MembersOf(t) PROVE k > 0
      OBVIOUS
    <3>1. k \in Nat /\ k # 0
      BY DieNumbers DEF MembersOf, ChildrenOf
    <3> QED
      BY <3>1
  <2> QED
    BY <2>1, <2>2, <2>3 DEF Coming
<1>11. NowEnds' = f /\ NowText' = next
  <2>1. Part' = Rest(FirstOf(t))
    BY <1>10 DEF Part, Rest, FirstOf, First
  <2>2. Ends(Part)' = Ends(Part') /\ NowText' = T(Part', base)
    BY <1>10, SameText DEF Ends, NowText
  <2>3. NowEnds' = Ends(Part)'
    BY DEF NowEnds, Ends
  <2> QED
    BY <2>1, <2>2, <2>3
<1>12. Waiting' = m
  BY <1>2, <1>7 DEF Waiting
<1>13. o \o x \in Seq(Pieces) /\ out' = o \o x /\ o \o x # <<>> /\ (o \o x)[Len(o \o x)].is = "open"
  <2>1. o \o x \in Seq(Pieces) /\ Len(o \o x) = Len(o) + 1 /\ Len(o) \in Nat
    BY <1>2, <1>6, JoinPieces
  <2>2. (o \o x)[Len(o) + 1] = x[1]
    BY <1>2, <1>6, JoinIs
  <2> QED
    BY <1>6, <2>1, <2>2
<1>14. Separated' /\ RetIs'
  BY <1>2, <1>10, <1>13 DEF Separated, LastIsOpen, RetIs, Goes
<1>15. Balance(o \o x, f, next, m)'
  <2>1. Exact' => Exact
    BY DEF Exact, Plain
  <2>2. Deeper(m, o, now, e, x, next, f)
    BY <1>2, <1>4, <1>5, <1>6, <1>7, <2>1 DEF Deeper
  <2> QED
    BY <2>2, GoesDeeper
<1> QED
  BY <1>2, <1>4, <1>8, <1>9, <1>11, <1>12, <1>13, <1>14, <1>15, ValueGoesOn

(* sprint_variable_die_val.                                                *)
LEMMA TypeText == ASSUME VarInv, TextInv, Type PROVE TextInv'
<1> SUFFICES ASSUME NEW n, n = Walking, NEW m, m = Waiting, NEW t, t = tree[target].type,
                    NEW v, v = <<Piece("value", t, base)>>, NEW s, s = <<Piece("open", 0, 0)>>
             PROVE  TextInv'
  OBVIOUS
<1> DEFINE fails == Prints(IF t = 0 THEN "NO_ENTRY" ELSE "ERROR") /\ walks' = walks /\ out' = out
           modifies == t # 0 /\ tree[t].tag = "modifier" /\ target' = t /\ UNCHANGED <<step, ret, walks, out>>
           prints == t # 0 /\ tree[t].tag = "base" /\ Write(v, "printed") /\ walks' = walks
           opens == t # 0 /\ tree[t].tag = "struct" /\ Write(s, "walk") /\ walks' = Append(walks, Walk(t, base))
<1>1. /\ step = "type" /\ UNCHANGED <<tree, cmd, var_die, base, faults>>
      /\ fails \/ modifies \/ prints \/ opens
  BY DEF Type, ReadsAt
<1>2. InValue
  BY <1>1 DEF InValue
<1>3. /\ tree \in Trees /\ walks \in Seq(Walks) /\ m \in Nat /\ n = m /\ base \in Nat /\ ret = "OK"
      /\ Part = Value(t) /\ NowText = T(Part, base) /\ (NowEnds <=> Ends(Part)) /\ t \in Dies \cup {0}
      /\ NowText \in Seq(Pieces)
  BY <1>1, <1>2, ValueFacts, NowIs
<1>4. walks' = walks => Walking' = m /\ \A k \in 1 .. m : walks'[k] = walks[k]
  BY <1>3 DEF Walking
<1>5. CASE fails
  <2>1. step' = "printed" /\ ret' \in {"NO_ENTRY", "ERROR"} /\ Waiting' = m
    BY <1>4, <1>5 DEF Prints, Waiting
  <2> QED
    BY <1>1, <1>2, <1>4, <1>5, <2>1, ValueFails
<1>6. CASE modifies
  BY <1>1, <1>3, <1>6, ModifiedType
<1>7. CASE prints
  <2>1. t \in Dies /\ NowEnds /\ NowText = v
    BY <1>3, <1>7, ValueEnds, ValueTextIs
  <2>2. v \in Seq(Pieces) /\ Len(v) <= Len(NowText) /\ v # <<>> /\ v[Len(v)].is # "open"
    <3>1. Piece("value", t, base) \in Pieces /\ Piece("value", t, base).is = "value"
      BY <1>3, PieceTypes DEF Piece
    <3>2. v \in Seq(Pieces) /\ Len(v) = 1 /\ v # <<>> /\ v[Len(v)].is # "open"
      BY <3>1
    <3> QED
      BY <2>1, <3>2
  <2>3. CASE Len(out \o v) > Capacity
    <3>1. End("overrun")
      BY <1>7, <2>3 DEF Write
    <3> QED
      BY <1>1, <1>2, <1>4, <1>7, <2>1, <2>2, <2>3, <3>1, ValueOverruns
  <2>4. CASE ~(Len(out \o v) > Capacity)
    <3>1. step' = "printed" /\ ret' = "OK" /\ out' = out \o v /\ Waiting' = m
      BY <1>3, <1>4, <1>7, <2>4 DEF Write, Waiting
    <3>2. Exact' => Exact
      BY <1>1 DEF Exact, Plain
    <3> QED
      BY <1>1, <1>2, <1>4, <1>7, <2>1, <2>2, <3>1, <3>2, ValueIsOver
  <2> QED
    BY <2>3, <2>4
<1>8. CASE opens
  <2>1. t \in Dies
    BY <1>3, <1>8
  <2>2. s \in Seq(Pieces) /\ Len(s) = 1
    BY PieceTypes
  <2>3. NowEnds => Len(s) <= Len(NowText)
    <3>1. ASSUME NowEnds PROVE Len(s) <= Len(NowText)
      <4>1. NowText = s \o T(Rest(FirstOf(t)), base)
        BY <1>3, <1>8, <2>1, <3>1, ValueTextIs
      <4>2. T(Rest(FirstOf(t)), base) \in Seq(Pieces)
        BY <1>3, <2>1, MemberTypes, PartIs, WholeTexts
      <4>3. PICK w \in Seq(Pieces) : NowText = s \o w
        BY <4>1, <4>2
      <4>4. Len(s \o w) = Len(s) + Len(w) /\ Len(w) \in Nat
        BY <2>2, JoinPieces
      <4> QED
        BY <2>2, <4>3, <4>4
    <3> QED
      BY <3>1
  <2>4. \A k \in 1 .. m : walks'[k] = walks[k]
    <3>1. Walk(t, base) \in Walks
      BY <1>3, <2>1 DEF Walk, Walks
    <3> QED
      BY <1>3, <1>8, <3>1, WalksBelow
  <2>5. CASE Len(out \o s) > Capacity
    <3>1. End("overrun")
      BY <1>8, <2>5 DEF Write
    <3> QED
      BY <1>1, <1>2, <2>2, <2>3, <2>4, <2>5, <3>1, ValueOverruns
  <2>6. CASE ~(Len(out \o s) > Capacity)
    <3>1. step' = "walk" /\ ret' = ret /\ out' = out \o s
      BY <1>8, <2>6 DEF Write
    <3> QED
      BY <1>1, <1>8, <2>1, <3>1, StructBegins
  <2> QED
    BY <2>5, <2>6
<1> QED
  BY <1>1, <1>5, <1>6, <1>7, <1>8

(* What is left of the innermost struct, when the value of its member has  *)
(* been printed.                                                           *)
LEMMA LeftIs ==
  ASSUME VarInv, TextInv, step = "printed", Members, NEW n, n = Walking
  PROVE  /\ n \in Nat /\ n - 1 \in Nat /\ Bottom <= n - 1 /\ n = (n - 1) + 1 /\ n \in Bottom + 1 .. n /\ Bottom \in Nat
         /\ WalkCur(n) \in Dies /\ top.cur = WalkCur(n) /\ tree[top.cur].tag = "member" /\ tree[top.cur].parent = top.of
         /\ top.cur \in MembersOf(top.of) /\ top.base \in Nat
         /\ Left(n) = Rest(NextMember(top.cur)) /\ LeftText(n) = T(Left(n), top.base) /\ LeftText(n) \in Seq(Pieces)
<1>1. InValue /\ Printing
  BY DEF InValue, Printing
<1>2. /\ tree \in Trees /\ walks \in Seq(Walks) /\ Waiting = n /\ Bottom \in Nat /\ n \in Nat
      /\ \A k \in Bottom + 1 .. Waiting : tree[WalkCur(k)].tag = "member"
  BY <1>1, ValueFacts
<1>3. /\ cmd.what \in {"local", "params"} /\ n # 0 /\ WalkIsRight(n) /\ n \in 1 .. n
      /\ (cmd.what = "params" => n > 1)
  BY <1>1, PrintIs, <1>2, WalkTypes
<1>4. n - 1 \in Nat /\ Bottom <= n - 1 /\ n = (n - 1) + 1 /\ n \in Bottom + 1 .. n
  BY <1>2, <1>3 DEF Bottom
<1>5. /\ WalkCur(n) \in Dies /\ top.cur = WalkCur(n) /\ top.of = WalkOf(n) /\ Parent(WalkCur(n)) = WalkOf(n)
  BY <1>1, <1>2, <1>3, WalkTypes DEF WalkIsRight
<1>6. tree[top.cur].tag = "member" /\ tree[top.cur].parent = top.of
  BY <1>2, <1>4, <1>5 DEF Parent
<1>7. top.cur \in MembersOf(top.of)
  BY <1>5, <1>6 DEF MembersOf, ChildrenOf
<1>8. top = walks[n] /\ top.base \in Nat
  BY <1>2, <1>3, WalksBelow
<1>9. Left(n) = Rest(NextMember(top.cur)) /\ LeftText(n) = T(Left(n), top.base)
  BY <1>5, <1>8 DEF Left, LeftText
<1>10. LeftText(n) \in Seq(Pieces)
  <2>1. NextMember(top.cur) \in Dies \cup {0}
    BY <1>2, <1>5, MemberTypes
  <2> QED
    BY <1>2, <1>8, <1>9, <2>1, PartIs, WholeTexts
<1> QED
  BY <1>2, <1>4, <1>5, <1>6, <1>7, <1>8, <1>9, <1>10

(* A member has been printed: its struct goes on.                          *)
LEMMA StructGoesOn ==
  ASSUME VarInv, TextInv, step = "printed", ret = "OK", Members, step' = "walk", ret' = "OK",
         UNCHANGED <<tree, cmd, var_die, walks, out, faults>>
  PROVE  TextInv'
<1> SUFFICES ASSUME NEW n, n = Walking, NEW m, m = n - 1, NEW o, o = out, NEW d, d = top.cur, NEW s, s = top.of,
                    NEW next, next = LeftText(n), NEW f, f = Ends(Left(n))
             PROVE  TextInv'
  OBVIOUS
<1>1. InValue
  BY DEF InValue
<1>2. /\ tree \in Trees /\ walks \in Seq(Walks) /\ o \in Seq(Pieces) /\ Waiting = n
      /\ Balance(o, NowEnds, NowText, n) /\ NowText = <<>> /\ NowEnds = TRUE /\ Separated
      /\ \A k \in Bottom + 1 .. n : tree[WalkCur(k)].tag = "member"
  BY <1>1, ValueFacts, NowIs
<1>3. /\ n \in Nat /\ m \in Nat /\ Bottom <= m /\ n = m + 1 /\ n \in Bottom + 1 .. n /\ Bottom \in Nat
      /\ d \in Dies /\ tree[d].parent = s /\ d \in MembersOf(s) /\ top.base \in Nat
      /\ Left(n) = Rest(NextMember(d)) /\ next = T(Left(n), top.base) /\ next \in Seq(Pieces)
  BY LeftIs
<1>4. \A k \in 1 .. m : walks'[k] = walks[k]
  OBVIOUS
<1>5. Bottom' = Bottom
  BY DEF Bottom
<1>6. \A k \in Bottom' + 1 .. m : tree'[WalkCur(k)'].tag = "member"
  <2>1. \A k \in Bottom + 1 .. m : k \in Bottom + 1 .. n
    BY <1>3
  <2> QED
    BY <1>2, <1>5, <2>1 DEF WalkCur
<1>7. Coming' = {k \in MembersOf(s) : k > d} /\ MembersOf(top.of)' = MembersOf(s) /\ top' = top
  <2>1. top' = top
    BY DEF top
  <2>2. MembersOf(top.of)' = MembersOf(s)
    BY <2>1 DEF MembersOf, ChildrenOf
  <2> QED
    BY <2>1, <2>2 DEF Coming
<1>8. NowEnds' = f /\ NowText' = next
  <2>1. Part' = Rest(NextMember(d))
    BY <1>3, <1>7 DEF Part, Rest, NextMember, First
  <2>2. Ends(Part)' = Ends(Part') /\ NowText' = T(Part', top.base)
    BY <1>7, SameText DEF Ends, NowText
  <2>3. NowEnds' = Ends(Part)'
    BY DEF NowEnds, Ends
  <2> QED
    BY <1>3, <2>1, <2>2, <2>3
<1>9. Members' /\ Waiting' = m
  BY DEF Members, Waiting, Walking, top
<1>10. Separated' /\ RetIs'
  <2>1. o # <<>> /\ ~LastIsOpen
    BY <1>2, <1>3 DEF Separated
  <2>2. ~LastIsOpen' /\ out' = o
    BY <2>1 DEF LastIsOpen
  <2>3. d \notin Coming'
    <3>1. d \in Nat
      BY <1>3, DieNumbers
    <3> QED
      BY <1>7, <3>1
  <2> QED
    BY <1>3, <1>7, <2>1, <2>2, <2>3 DEF Separated, RetIs, Goes
<1>11. Balance(o, f, next, m)'
  <2>1. Exact' => Exact
    BY DEF Exact, Plain
  <2>2. Balance(o, TRUE, <<>>, n)
    BY <1>2
  <2>3. Up(m, n, next, o, next, f)
    BY <1>2, <1>3, <1>4, <2>1, <2>2 DEF Up
  <2> QED
    BY <2>3, Resumes
<1> QED
  BY <1>2, <1>3, <1>5, <1>6, <1>8, <1>9, <1>10, <1>11, ValueGoesOn

(* A member could not be printed: its struct is given up.                  *)
LEMMA StructIsGivenUp ==
  ASSUME VarInv, TextInv, step = "printed", ret # "OK", Members, walks' = Below,
         UNCHANGED <<tree, cmd, var_die, step, ret, out, faults>>
  PROVE  TextInv'
<1> SUFFICES ASSUME NEW n, n = Walking, NEW m, m = n - 1, NEW o, o = out
             PROVE  TextInv'
  OBVIOUS
<1>1. InValue
  BY DEF InValue
<1>2. /\ tree \in Trees /\ walks \in Seq(Walks) /\ o \in Seq(Pieces) /\ Waiting = n
      /\ Balance(o, NowEnds, NowText, n) /\ NowText = <<>> /\ NowEnds = TRUE
      /\ \A k \in Bottom + 1 .. n : tree[WalkCur(k)].tag = "member"
  BY <1>1, ValueFacts, NowIs
<1>3. /\ n \in Nat /\ m \in Nat /\ Bottom <= m /\ n = m + 1 /\ n \in Bottom + 1 .. n /\ Bottom \in Nat
      /\ LeftText(n) \in Seq(Pieces)
  BY LeftIs
<1>4. Walking' = m /\ \A k \in 1 .. m : walks'[k] = walks[k]
  BY <1>2, <1>3, WalksBelow
<1>5. Bottom' = Bottom /\ \A k \in Bottom + 1 .. m : k \in 1 .. m
  BY <1>2, <1>3, <1>4, SameRoot
<1>6. \A k \in Bottom' + 1 .. m : tree'[WalkCur(k)'].tag = "member"
  <2>1. \A k \in Bottom + 1 .. m : k \in Bottom + 1 .. n
    BY <1>3
  <2> QED
    BY <1>2, <1>4, <1>5, <2>1 DEF WalkCur
<1>7. PICK next \in Seq(Pieces) : next = <<>>
  BY <1>2, NothingAdded, Zenon
<1>8. PICK f \in BOOLEAN : f = TRUE
  OBVIOUS
<1>9. NowEnds' = f /\ NowText' = next
  BY <1>7, <1>8 DEF NowEnds, NowText
<1>10. Waiting' = m
  BY <1>4 DEF Waiting
<1>11. ret \in {"NO_ENTRY", "ERROR"}
  BY DEF TextInv, RetIs
<1>12. Separated' /\ RetIs'
  BY <1>11 DEF Separated, RetIs, Goes
<1>13. Balance(o, f, next, m)'
  <2>1. ~Exact'
    BY DEF Exact
  <2>2. Balance(o, TRUE, <<>>, n)
    BY <1>2
  <2>3. PICK r \in Seq(Pieces) : r = LeftText(n)
    BY <1>3
  <2>4. Up(m, n, r, o, next, f)
    BY <1>2, <1>3, <1>4, <1>7, <1>8, <2>1, <2>2, <2>3 DEF Up
  <2> QED
    BY <2>4, Resumes
<1> QED
  BY <1>2, <1>3, <1>5, <1>6, <1>9, <1>10, <1>12, <1>13, ValueGoesOn

(* The value has been printed, or could not be.                            *)
LEMMA WholeIsPrinted ==
  ASSUME VarInv, TextInv, step = "printed", walks = <<>>, End(ret), "cut" \notin faults' => "cut" \notin faults,
         UNCHANGED <<tree, cmd, var_die, walks, out>>
  PROVE  TextInv'
<1> SUFFICES ASSUME NEW o, o = out, NEW w, w = Whole PROVE TextInv'
  OBVIOUS
<1>1. InValue
  BY DEF InValue
<1>2. /\ tree \in Trees /\ o \in Seq(Pieces) /\ Waiting = Walking /\ Walking = 0 /\ Bottom <= Waiting /\ Bottom \in Nat
      /\ Balance(o, NowEnds, NowText, Waiting) /\ NowText = <<>> /\ NowEnds = TRUE
  BY <1>1, ValueFacts, NowIs DEF Walking
<1>3. Bottom = 0 /\ Waiting = 0
  BY <1>2
<1>4. Balance(o, TRUE, <<>>, 0)
  BY <1>2
<1>5. Whole' = w
  BY <1>3, SameRoot
<1>6. ASSUME ret = "OK", cmd.what = "local", "cut" \notin faults', \A d \in Dies : Plain(d) PROVE o = w
  <2>1. Exact
    BY <1>6 DEF Exact
  <2>2. LeftEnds(0)
    BY <1>3 DEF LeftEnds
  <2>3. Ends(RootPart)
    BY <1>4, <2>1, <2>2 DEF Balance
  <2>4. PICK rs : Fits(rs, 0, o, <<>>)
    BY <1>4, <2>3 DEF Balance
  <2>5. (o \o <<>>) \o rs[0] = w /\ rs[0] = <<>>
    BY <1>3, <2>1, <2>4 DEF Fits, Stack
  <2>6. o \o <<>> = o
    BY <1>2, NothingAdded
  <2> QED
    BY <2>5, <2>6
<1>7. PrintsWholeValue'
  <2>1. (\A d \in Dies : Plain(d)) <=> (\A d \in Dies : Plain(d))'
    BY DEF Plain
  <2> QED
    BY <1>5, <1>6, <2>1 DEF PrintsWholeValue, End
<1>8. ret # "overrun"
  BY DEF TextInv, RetIs
<1> QED
  BY <1>7, <1>8 DEF TextInv, End, OverrunsIfTooLong, InValue, RetIs, Goes

(* What follows a value.                                                   *)
LEMMA PrintedText == ASSUME VarInv, TextInv, Printed PROVE TextInv'
<1>1. step = "printed" /\ UNCHANGED <<tree, cmd, var_die, out>>
  BY DEF Printed
<1>2. CASE Members /\ ret # "OK" /\ walks' = Below /\ UNCHANGED <<step, ret, live, faults>>
  BY <1>1, <1>2, StructIsGivenUp
<1>3. CASE walks # <<>> /\ (Members => ret = "OK") /\ step' = "walk" /\ ret' = "OK" /\ UNCHANGED <<walks, live, faults>>
  <2>1. CASE Members
    BY <1>1, <1>3, <2>1, StructGoesOn
  <2>2. CASE ~Members
    <3>1. ~Members'
      BY <1>1, <1>3, <2>2 DEF Members, top
    <3> QED
      BY <1>3, <3>1, NoValue DEF InValue, RetIs, Goes
  <2> QED
    BY <2>1, <2>2
<1>4. CASE walks = <<>> /\ End(ret) /\ UNCHANGED walks /\ ("cut" \notin faults' => "cut" \notin faults)
  BY <1>1, <1>4, WholeIsPrinted
<1> QED
  BY <1>1, <1>2, <1>3, <1>4 DEF Printed

(* A value that is about to be printed: nothing is written yet.            *)
LEMMA ValueBegins ==
  ASSUME tree \in Trees, UNCHANGED tree, NEW r \in Dies, Root' = r, target' = r, step' = "type", ret' = "OK",
         base' = 0, out' = <<>>, Walking' = Bottom'
  PROVE  TextInv'
<1> SUFFICES ASSUME NEW b, b = Bottom', NEW p, p = Value(tree[r].type), NEW w, w = T(p, 0), NEW e, e = Ends(p)
             PROVE  TextInv'
  OBVIOUS
<1>1. b \in Nat /\ Bottom' = b /\ Waiting' = b
  BY DEF Bottom, Waiting
<1>2. w \in Seq(Pieces)
  <2>1. p \in Parts
    BY MemberTypes, PartIs
  <2> QED
    BY <2>1, WholeTexts
<1>3. RootPart' = p /\ Part' = p
  BY DEF RootPart, Part, Value
<1>4. Whole' = w
  <2>1. Whole' = T(RootPart, 0)'
    BY DEF Whole, RootPart, T, Value
  <2>2. T(RootPart, 0)' = T(RootPart', 0)
    BY SameText
  <2> QED
    BY <1>3, <2>1, <2>2
<1>5. Ends(RootPart)' = e
  <2>1. Ends(RootPart)' = Ends(RootPart')
    BY SameText DEF Ends
  <2> QED
    BY <1>3, <2>1
<1>6. NowEnds' = e /\ NowText' = w
  <2>1. Ends(Part)' = Ends(Part') /\ NowText' = T(Part', 0)
    BY SameText DEF Ends, NowText
  <2>2. NowEnds' = Ends(Part)'
    BY DEF NowEnds, Ends
  <2> QED
    BY <1>3, <2>1, <2>2
<1>7. PICK rs \in [Nat -> Seq(Pieces)] : rs[b] = <<>>
  <2> DEFINE q == [k \in Nat |-> <<>>]
  <2>1. q \in [Nat -> Seq(Pieces)] /\ q[b] = <<>>
    BY <1>1, <1>2, NothingAdded
  <2> HIDE DEF q
  <2> QED
    BY <2>1, Zenon
<1>8. \A k \in b + 1 .. b : FALSE
  BY <1>1
<1>9. Stack(rs, b)' /\ LeftEnds(b)'
  BY <1>1, <1>7, <1>8 DEF Stack, LeftEnds
<1>10. PICK o \in Seq(Pieces) : o = <<>>
  BY <1>2, NothingAdded, Zenon
<1>11. Len(o) + Len(w) + Len(rs[b]) <= Len(w) /\ (o \o w) \o rs[b] = w
  <2>1. o \o w = w /\ w \o rs[b] = w /\ Len(o) = 0 /\ Len(rs[b]) = 0 /\ Len(w) \in Nat
    BY <1>2, <1>7, <1>10, NothingAdded
  <2>2. Len(o) + Len(w) + Len(rs[b]) <= Len(w)
    <3>1. \A l \in Nat : 0 + l + 0 <= l
      OBVIOUS
    <3> QED
      BY <2>1, <3>1, Zenon
  <2>3. (o \o w) \o rs[b] = w
    BY <2>1, Zenon
  <2> QED
    BY <2>2, <2>3
<1>12. Fits(rs, b, o, w)'
  BY <1>4, <1>9, <1>11 DEF Fits
<1>13. Balance(o, e, w, b)'
  BY <1>5, <1>9, <1>12 DEF Balance
<1>14. Separated' /\ RetIs'
  BY DEF Separated, RetIs, Goes
<1>15. Bottom' <= b /\ \A k \in Bottom' + 1 .. b : tree'[WalkCur(k)'].tag = "member"
  <2>1. Bottom' <= b
    BY <1>1
  <2>2. \A k \in Bottom' + 1 .. b : FALSE
    BY <1>1, <1>8, Zenon
  <2> QED
    BY <2>1, <2>2, Zenon
<1>16. out' = o /\ Balance(o, e, w, b)'
  BY <1>10, <1>13
<1> QED
  BY <1>1, <1>2, <1>6, <1>14, <1>15, <1>16, ValueGoesOn

(* The loop of handle_param_var: a value may begin.                        *)
LEMMA ParameterText == ASSUME VarInv, TextInv, Parameter PROVE TextInv'
<1> DEFINE ends == End("ERROR")
           goes == step' = "walk" /\ UNCHANGED <<walks, ret>>
           begins == step' = "type" /\ out' = <<>> /\ target' = top.cur /\ UNCHANGED <<walks, ret>>
<1>1. step = "item" /\ ~Members /\ base' = 0 /\ UNCHANGED <<tree, cmd, var_die>> /\ (ends \/ goes \/ begins)
  BY DEF Parameter
<1>2. Printing /\ ret = "OK"
  BY <1>1 DEF Printing, TextInv, RetIs, Goes
<1>3. tree \in Trees /\ walks \in Seq(Walks) /\ Walking # 0
  BY <1>1, <1>2, PrintIs DEF PrintPhase
<1>4. /\ cmd.what = "params" /\ Walking = 1 /\ WalkIsRight(1) /\ 1 \in 1 .. Walking
  BY <1>1, <1>2, <1>3, PrintIs
<1>5. CASE ends
  BY <1>5, NoValue DEF End, RetIs, Goes, InValue
<1>6. CASE goes
  <2>1. ~Members'
    BY <1>1, <1>6 DEF Members, top
  <2> QED
    BY <1>2, <1>6, <2>1, NoValue DEF InValue, RetIs, Goes
<1>7. CASE begins
  <2>1. top.cur = WalkCur(1) /\ WalkCur(1) \in Dies
    BY <1>1, <1>3, <1>4, WalkTypes DEF WalkIsRight
  <2>2. Root' = top.cur
    BY <1>1, <1>4, <1>7, <2>1 DEF Root, WalkCur
  <2>3. Walking' = Bottom'
    BY <1>1, <1>4, <1>7 DEF Walking, Bottom
  <2> QED
    BY <1>1, <1>2, <1>3, <1>7, <2>1, <2>2, <2>3, ValueBegins
<1> QED
  BY <1>1, <1>5, <1>6, <1>7

(* handle_get_local_var: the value of the variable begins.                 *)
LEMMA FoundText == ASSUME VarInv, TextInv, Found PROVE TextInv'
<1> DEFINE begins == ret = "OK" /\ var_die # 0 /\ step' = "type" /\ target' = var_die /\ UNCHANGED ret
<1>1. /\ step = "return" /\ cmd.what = "local" /\ UNCHANGED <<tree, cmd, var_die, walks, base, out>>
      /\ begins \/ End("ERROR")
  BY DEF Found
<1>2. tree \in Trees /\ var_die \in Dies \cup {0} /\ walks = <<>>
  BY <1>1, LookupIs DEF LookupPhase
<1>3. base = 0 /\ out = <<>>
  BY <1>1 DEF TextInv
<1>4. CASE begins
  <2>1. var_die \in Dies
    BY <1>2, <1>4
  <2>2. Root' = var_die /\ Walking' = Bottom'
    BY <1>1, <1>2 DEF Root, Walking, Bottom
  <2> QED
    BY <1>1, <1>2, <1>3, <1>4, <2>1, <2>2, ValueBegins
<1>5. CASE End("ERROR")
  BY <1>5, NoValue DEF End, RetIs, Goes, InValue
<1> QED
  BY <1>1, <1>4, <1>5

(* After the frame base nothing is printed yet.                            *)
LEMMA FrameText == ASSUME VarInv, TextInv, FrameBase PROVE TextInv'
<1> DEFINE found == sub # 0 /\ res # "ERROR" /\ ret' = ret
                    /\ (step' = "call" \/ (step' = "walk" /\ walks' = <<Walk(sub, 0)>>))
<1>1. step = "search" /\ at = "done" /\ UNCHANGED <<tree, cmd, base, out>> /\ (End("ERROR") \/ found)
  BY DEF FrameBase
<1>2. ret = "OK" /\ base = 0 /\ out = <<>>
  BY <1>1 DEF TextInv, RetIs, Goes
<1>3. CASE End("ERROR")
  BY <1>3, NoValue DEF End, RetIs, Goes, InValue
<1>4. CASE found
  <2>1. sub \in Holders
    BY <1>1, <1>4, SearchIs DEF SearchPhase, SearchInv, Over, Finished, Holders
  <2>2. step' = "walk" => ~Members'
    <3>1. step' = "walk" => top'.of = sub
      <4>1. PICK w : w = Walk(sub, 0)
        OBVIOUS
      <4>2. w.of = sub
        BY <4>1 DEF Walk
      <4>3. step' = "walk" => walks' = <<w>>
        BY <1>4, <4>1
      <4>4. step' = "walk" => Len(walks') = 1 /\ walks'[1] = w
        BY <4>3
      <4> QED
        BY <4>2, <4>4 DEF top
    <3>2. tree'[sub].tag = "subprogram"
      BY <1>1, <2>1 DEF Holders
    <3> QED
      BY <3>1, <3>2 DEF Members
  <2> QED
    BY <1>1, <1>2, <1>4, <2>2, NoValue DEF InValue, RetIs, Goes
<1> QED
  BY <1>1, <1>3, <1>4

(* The steps that print nothing.                                           *)
LEMMA QuietText ==
  ASSUME VarInv, TextInv, handle_var \/ FindSubprogram \/ get_local_var_from_name \/ AfterCall \/ NextSibling
  PROVE  TextInv'
<1>1. step \in {"search", "call", "return", "sibling"}
  BY DEF handle_var, FindSubprogram, get_local_var_from_name, AfterCall, NextSibling
<1>2. base = 0 /\ out = <<>>
  BY <1>1 DEF TextInv
<1>3. CASE handle_var
  BY <1>3, NoValue DEF handle_var, End, RetIs, Goes, InValue
<1>4. CASE FindSubprogram
  <2>1. step' = "search" /\ ret' = "OK" /\ base' = 0 /\ out' = <<>>
    BY <1>2, <1>4 DEF FindSubprogram, varVars, TextInv, RetIs, Goes
  <2> QED
    BY <2>1, NoValue DEF RetIs, Goes, InValue
<1>5. CASE get_local_var_from_name \/ AfterCall \/ NextSibling
  <2>1. /\ step' \in {"call", "return", "sibling"} \/ (step' = "end" /\ ret' = "crash")
        /\ base' = 0 /\ out' = <<>>
    BY <1>2, <1>5 DEF get_local_var_from_name, AfterCall, NextSibling, Returns, End
  <2> QED
    BY <2>1, NoValue DEF RetIs, Goes, InValue
<1> QED
  BY <1>3, <1>4, <1>5

(* A step that changes nothing.                                            *)
LEMMA TextStutter == ASSUME TextInv, UNCHANGED vars PROVE TextInv'
<1>1. UNCHANGED <<tree, cmd, step, calls, target, ret, var_die, walks, base, out, listed, faults>>
  BY DEF vars, searchVars, varVars
<1>2. Text' = Text
  BY <1>1 DEF Text, ValueText, RestText, NextMember, MembersOf, ChildrenOf, IsFirstOne
<1>3. Whole' = Whole /\ Bottom' = Bottom /\ Waiting' = Waiting /\ Root' = Root
  BY <1>1, <1>2 DEF Whole, Root, Bottom, Waiting, Walking
<1>4. RetIs' /\ PrintsWholeValue' /\ OverrunsIfTooLong'
  BY <1>1, <1>3 DEF TextInv, RetIs, Goes, PrintsWholeValue, OverrunsIfTooLong, Plain
<1>5. InValue' => InValue
  BY <1>1 DEF InValue, Members, top
<1>6. ASSUME InValue PROVE ValueInv'
  <2>1. ValueInv
    BY <1>6 DEF TextInv
  <2>2. NowEnds' = NowEnds /\ NowText' = NowText
    BY <1>1, <1>2 DEF NowEnds, NowText, Ends, T, Part, Value, Rest, Coming, First, MembersOf, ChildrenOf, top
  <2>3. Separated' = Separated
    BY <1>1 DEF Separated, Members, LastIsOpen, Coming, MembersOf, ChildrenOf, top, Walking, Bottom
  <2>4. \A k : Left(k)' = Left(k) /\ LeftText(k)' = LeftText(k) /\ Ends(Left(k))' = Ends(Left(k)) /\ WalkCur(k)' = WalkCur(k)
    BY <1>1, <1>2 DEF Left, LeftText, Ends, T, WalkCur, Rest, NextMember, MembersOf, ChildrenOf
  <2>5. Ends(RootPart)' = Ends(RootPart) /\ Exact' = Exact
    BY <1>1, <1>2, <1>3 DEF RootPart, Ends, T, Value, Exact, Plain
  <2>6. \A m : (\A rs : Stack(rs, m)' = Stack(rs, m)) /\ LeftEnds(m)' = LeftEnds(m)
    BY <1>3, <2>4 DEF Stack, LeftEnds
  <2>7. Balance(out, NowEnds, NowText, Waiting)' = Balance(out, NowEnds, NowText, Waiting)
    BY <1>1, <1>3, <2>2, <2>5, <2>6 DEF Balance, Fits
  <2> QED
    BY <1>1, <1>3, <2>1, <2>3, <2>4, <2>7 DEF ValueInv
<1> QED
  BY <1>1, <1>4, <1>5, <1>6 DEF TextInv

(* The invariant holds at first.                                           *)
LEMMA TextInvInit == ASSUME Init PROVE TextInv
BY DEF Init, TextInv, RetIs, Goes, InValue, PrintsWholeValue, OverrunsIfTooLong

(* Every step preserves it.                                                *)
LEMMA TextInvStep == ASSUME VarInv, TextInv, [Next]_vars PROVE TextInv'
BY QuietText, FrameText, FoundText, ParameterText, MemberText, TypeText, PrintedText, WalkOnText, WalkTagText,
   TextStutter DEF Next, Var

(* A value that var reports as printed is printed as a whole, every member *)
(* once, in order and from its own address: the loop of                    *)
(* sprint_var_die_given_struct_type, for every tree of types and every     *)
(* depth of structs.                                                       *)
THEOREM TextCorrect == Spec => []PrintsWholeValue
<1>1. VarInv /\ TextInv /\ [Next]_vars => TextInv'
  BY TextInvStep
<1>2. TextInv => PrintsWholeValue
  BY DEF TextInv
<1> QED
  BY <1>1, <1>2, TextInvInit, VarInvariant, PTL DEF Spec

(* The sprintf calls leave var_val_s only if the whole text of the value   *)
(* is longer than it, or if the value has no whole text because its type   *)
(* contains itself or one that cannot be printed.                          *)
THEOREM OverrunCorrect == Spec => []OverrunsIfTooLong
<1>1. VarInv /\ TextInv /\ [Next]_vars => TextInv'
  BY TextInvStep
<1>2. TextInv => OverrunsIfTooLong
  BY DEF TextInv
<1> QED
  BY <1>1, <1>2, TextInvInit, VarInvariant, PTL DEF Spec
-----------------------------------------------------------------------------
(* The handles of types, attributes and members that are lost, counted     *)
(* along the text.                                                         *)
Count(o, S)   == Cardinality({k \in DOMAIN o : o[k] \in S})
TypePieces    == {e \in Pieces : IsType(e)}
LocatedPieces == {e \in Pieces : IsLocated(e)}
UnreadPieces  == {e \in Pieces : IsUnread(e)}
Losses(o)     == [types |-> Count(o, TypePieces), attrs |-> Count(o, LocatedPieces),
                  members |-> Count(o, UnreadPieces)]

LookingUp == step \in {"search", "frame", "call", "return", "sibling", "found"}
LossInv ==
  /\ out \in Seq(Pieces)
  /\ LookingUp => lost = Nothing /\ out = <<>>
  /\ ~LookingUp /\ cmd.what = "local" /\ ret = "OK" => lost = Losses(out)

(* One more piece is one more of its kind.                                 *)
LEMMA CountGrows ==
  ASSUME NEW S, NEW o \in Seq(Pieces), NEW e \in Pieces
  PROVE  /\ Count(o, S) \in Nat
         /\ Count(Append(o, e), S) = IF e \in S THEN Count(o, S) + 1 ELSE Count(o, S)
<1> DEFINE K == {k \in DOMAIN o : o[k] \in S}
           L == {k \in DOMAIN Append(o, e) : Append(o, e)[k] \in S}
           m == Len(o) + 1
<1>1. Len(o) \in Nat /\ DOMAIN o = 1 .. Len(o) /\ DOMAIN Append(o, e) = 1 .. m
  OBVIOUS
<1>2. K \subseteq 1 .. Len(o) /\ m \notin K
  BY <1>1
<1>3. IsFiniteSet(K) /\ Cardinality(K) \in Nat
  <2>1. IsFiniteSet(1 .. Len(o))
    BY <1>1, FS_Interval
  <2> QED
    BY <1>2, <2>1, FS_Subset, FS_CardinalityType
<1>4. L = IF e \in S THEN K \cup {m} ELSE K
  <2>1. \A k \in 1 .. m : k \in 1 .. Len(o) \/ k = m
    BY <1>1
  <2>2. /\ \A k \in 1 .. Len(o) : Append(o, e)[k] = o[k] /\ k \in 1 .. m
        /\ Append(o, e)[m] = e /\ m \in 1 .. m
    BY <1>1, Push
  <2> HIDE DEF m
  <2> QED
    BY <1>1, <2>1, <2>2
<1>5. Cardinality(K \cup {m}) = Cardinality(K) + 1
  BY <1>2, <1>3, FS_AddElement
<1> HIDE DEF K, L, m
<1>6. Cardinality(L) = IF e \in S THEN Cardinality(K) + 1 ELSE Cardinality(K)
  BY <1>4, <1>5
<1> QED
  BY <1>3, <1>6 DEF Count, K, L

(* The number of handles that one more piece loses.                        *)
One(b) == IF b THEN 1 ELSE 0
Added(l, e) == [types |-> l.types + One(IsType(e)), attrs |-> l.attrs + One(IsLocated(e)),
                members |-> l.members + One(IsUnread(e))]

LEMMA LossesGrow ==
  ASSUME NEW o \in Seq(Pieces), NEW e \in Pieces
  PROVE  /\ o \o <<e>> \in Seq(Pieces)
         /\ Losses(o) \in [types: Nat, attrs: Nat, members: Nat]
         /\ Losses(o \o <<e>>) = Added(Losses(o), e)
<1>1. o \o <<e>> = Append(o, e) /\ Append(o, e) \in Seq(Pieces)
  OBVIOUS
<1>2. ASSUME NEW S PROVE Count(o, S) \in Nat /\ Count(Append(o, e), S) = Count(o, S) + One(e \in S)
  BY CountGrows DEF One
<1>3. (e \in TypePieces <=> IsType(e)) /\ (e \in LocatedPieces <=> IsLocated(e)) /\ (e \in UnreadPieces <=> IsUnread(e))
  BY DEF TypePieces, LocatedPieces, UnreadPieces
<1>4. Losses(o) \in [types: Nat, attrs: Nat, members: Nat]
  BY <1>2 DEF Losses
<1>5. Losses(Append(o, e)) = Added(Losses(o), e)
  BY <1>2, <1>3 DEF Losses, Added, One
<1> QED
  BY <1>1, <1>4, <1>5

LEMMA NoLosses == Losses(<<>>) = Nothing
<1>1. \A S : {k \in DOMAIN <<>> : <<>>[k] \in S} = {}
  OBVIOUS
<1>2. \A S : Count(<<>>, S) = 0
  BY <1>1, FS_EmptySet DEF Count
<1> QED
  BY <1>2 DEF Losses, Nothing

(* The counts of the next state.                                           *)
LEMMA SameLosses == ASSUME UNCHANGED tree PROVE \A o : Losses(o)' = Losses(o')
BY DEF Losses, Count, TypePieces, LocatedPieces, UnreadPieces, IsType, IsLocated, IsUnread

(* A comma, a brace and an address lose nothing; a value and an open brace *)
(* lose a type; a name loses the attribute or the member, if either.       *)
LEMMA Kinds ==
  /\ ~IsType(Piece("close", 0, 0)) /\ ~IsLocated(Piece("close", 0, 0)) /\ ~IsUnread(Piece("close", 0, 0))
  /\ ~IsType(Piece("comma", 0, 0)) /\ ~IsLocated(Piece("comma", 0, 0)) /\ ~IsUnread(Piece("comma", 0, 0))
  /\ IsType(Piece("open", 0, 0)) /\ ~IsLocated(Piece("open", 0, 0)) /\ ~IsUnread(Piece("open", 0, 0))
  /\ \A t, a : /\ IsType(Piece("value", t, a)) /\ ~IsLocated(Piece("value", t, a))
               /\ ~IsUnread(Piece("value", t, a))
  /\ \A d : /\ ~IsType(Piece("name", d, 0))
            /\ IsUnread(Piece("name", d, 0)) <=> tree[d].label # "none" /\ tree[d].form = "other"
            /\ IsLocated(Piece("name", d, 0)) <=> tree[d].form # "none" /\ ~IsUnread(Piece("name", d, 0))
BY DEF IsType, IsLocated, IsUnread, Piece

(* One handle more of a kind, as a record.                                 *)
LEMMA LosesIs ==
  ASSUME lost \in [types: Nat, attrs: Nat, members: Nat]
  PROVE  LET l(i, j, k) == [types |-> lost.types + i, attrs |-> lost.attrs + j, members |-> lost.members + k] IN
           /\ Loses("types") = l(1, 0, 0) /\ Loses("attrs") = l(0, 1, 0) /\ Loses("members") = l(0, 0, 1)
           /\ lost = l(0, 0, 0)
<1>1. PICK x \in Nat, y \in Nat, z \in Nat : lost = [types |-> x, attrs |-> y, members |-> z]
  OBVIOUS
<1>2. lost.types = x /\ lost.attrs = y /\ lost.members = z
  BY <1>1
<1>3. x + 0 = x /\ y + 0 = y /\ z + 0 = z
  OBVIOUS
<1>4. Loses("types") = [types |-> x + 1, attrs |-> y, members |-> z]
  BY <1>1 DEF Loses
<1>5. Loses("attrs") = [types |-> x, attrs |-> y + 1, members |-> z]
  BY <1>1 DEF Loses
<1>6. Loses("members") = [types |-> x, attrs |-> y, members |-> z + 1]
  BY <1>1 DEF Loses
<1> QED
  BY <1>1, <1>2, <1>3, <1>4, <1>5, <1>6

(* A piece is written, and the handles that it loses are counted.          *)
LEMMA PieceLoses ==
  ASSUME LossInv, UNCHANGED <<tree, cmd>>, ~LookingUp, ~LookingUp', NEW e \in Pieces, out' = out \o <<e>>,
         ret' = "OK" => ret = "OK",
         ret = "OK" /\ lost \in [types: Nat, attrs: Nat, members: Nat] => lost' = Added(lost, e)
  PROVE  LossInv'
<1>1. out' \in Seq(Pieces) /\ Losses(out') = Added(Losses(out), e)
  BY LossesGrow DEF LossInv
<1>2. Losses(out) \in [types: Nat, attrs: Nat, members: Nat]
  BY LossesGrow DEF LossInv
<1>3. Losses(out)' = Losses(out')
  BY SameLosses
<1> QED
  BY <1>1, <1>2, <1>3 DEF LossInv

(* A step that writes nothing loses nothing, or fails.                     *)
LEMMA NothingLost ==
  ASSUME LossInv, UNCHANGED <<tree, cmd, out>>, ~LookingUp',
         cmd.what = "local" /\ ret' = "OK" => lost' = lost /\ ret = "OK"
  PROVE  LossInv'
<1>1. Losses(out)' = Losses(out)
  BY SameLosses
<1> QED
  BY <1>1, NoLosses DEF LossInv

LEMMA LookupLoses ==
  ASSUME VarInv, LossInv,
         \/ handle_var \/ FindSubprogram \/ FrameBase \/ get_local_var_from_name \/ AfterCall \/ NextSibling
         \/ Found
  PROVE  LossInv'
<1>1. LookingUp /\ UNCHANGED <<out, lost>>
  BY DEF handle_var, FindSubprogram, varVars, FrameBase, get_local_var_from_name, AfterCall, NextSibling, Found,
         LookingUp
<1>2. UNCHANGED <<tree, cmd>>
  <2>1. CASE handle_var
    BY <2>1 DEF handle_var, searchVars
  <2>2. CASE FindSubprogram
    <3>1. Search /\ UNCHANGED cmd
      BY <2>2 DEF FindSubprogram, varVars
    <3> QED
      BY <3>1 DEF Search, Begin, Visit, Sibling, Fail
  <2>3. CASE FrameBase \/ get_local_var_from_name \/ AfterCall \/ NextSibling \/ Found
    BY <2>3 DEF FrameBase, get_local_var_from_name, AfterCall, NextSibling, Found, searchVars
  <2> QED
    BY <2>1, <2>2, <2>3
<1>3. LookingUp' \/ (cmd.what = "local" /\ ret' = "OK" => ret = "OK")
  BY DEF handle_var, FindSubprogram, varVars, FrameBase, get_local_var_from_name, AfterCall, NextSibling, Found,
         Returns, End, LookingUp
<1>4. CASE LookingUp'
  BY <1>1, <1>4 DEF LossInv
<1>5. CASE ~LookingUp'
  BY <1>1, <1>2, <1>3, <1>5, NothingLost
<1> QED
  BY <1>4, <1>5

LEMMA WalkLoses == ASSUME VarInv, LossInv, WalkOn \/ WalkTag PROVE LossInv'
<1>1. /\ step \in {"walk", "tag"} /\ UNCHANGED <<tree, cmd, lost>>
      /\ \/ UNCHANGED <<ret, out>> /\ step' \in {"tag", "item"}
         \/ \E w, r : WalkEnds(w, r)
  BY DEF WalkOn, WalkTag
<1>2. ~LookingUp
  BY <1>1 DEF LookingUp
<1>3. CASE UNCHANGED <<ret, out>> /\ step' \in {"tag", "item"}
  BY <1>1, <1>3, NothingLost DEF LookingUp
<1>4. CASE \E w, r : WalkEnds(w, r)
  <2>1. CASE Members
    <3>1. out' = out \o <<Piece("close", 0, 0)>> /\ ~LookingUp' /\ (ret' = "OK" => ret = "OK")
      BY <1>4, <2>1 DEF WalkEnds, Write, End, LookingUp
    <3>2. Piece("close", 0, 0) \in Pieces
      BY PieceTypes
    <3>3. lost \in [types: Nat, attrs: Nat, members: Nat] => lost' = Added(lost, Piece("close", 0, 0))
      BY <1>1, Kinds DEF Added, One
    <3> HIDE DEF Piece
    <3> QED
      BY <1>1, <1>2, <3>1, <3>2, <3>3, PieceLoses
  <2>2. CASE ~Members
    <3>1. cmd.what = "params"
      BY <1>1, <2>2, PrintIs DEF Printing, PrintPhase
    <3>2. out' = out /\ ~LookingUp'
      BY <1>4, <2>2 DEF WalkEnds, End, LookingUp
    <3> QED
      BY <1>1, <3>1, <3>2, NothingLost
  <2> QED
    BY <2>1, <2>2
<1> QED
  BY <1>1, <1>3, <1>4

LEMMA ParameterLoses == ASSUME VarInv, LossInv, Parameter PROVE LossInv'
<1>1. step = "item" /\ ~Members /\ UNCHANGED <<tree, cmd>> /\ ~LookingUp'
  BY DEF Parameter, End, LookingUp
<1>2. cmd.what = "params"
  BY <1>1, PrintIs DEF Printing, PrintPhase
<1>3. out' = out \/ out' = <<Piece("address", top.cur, 0)>> \/ out' = <<>>
  BY DEF Parameter
<1>4. top.cur \in Dies \cup {0}
  BY <1>1, PrintIs, WalkTypes DEF Printing, PrintPhase, Walks
<1>5. Piece("address", top.cur, 0) \in Pieces
  BY <1>4, PieceTypes
<1> HIDE DEF Piece
<1>6. <<Piece("address", top.cur, 0)>> \in Seq(Pieces) /\ <<>> \in Seq(Pieces)
  BY <1>5
<1>7. out' \in Seq(Pieces)
  BY <1>3, <1>6 DEF LossInv
<1> QED
  BY <1>1, <1>2, <1>7 DEF LossInv

LEMMA MemberLoses == ASSUME VarInv, LossInv, Member PROVE LossInv'
<1> SUFFICES ASSUME NEW d, d = top.cur PROVE LossInv'
  OBVIOUS
<1>1. step = "item" /\ Members /\ UNCHANGED <<tree, cmd>> /\ ~LookingUp /\ ~LookingUp'
  BY DEF Member, Write, Prints, End, LookingUp
<1>2. d \in Dies
  BY <1>1, PrintIs, WalkTypes DEF Printing, PrintPhase, WalkIsRight, Walks
<1> DEFINE located == tree[d].form # "none"
           unread == tree[d].label # "none" /\ tree[d].form = "other"
           e == Piece("name", d, 0)
<1>3. CASE ret' # "OK" /\ out' = out
  BY <1>1, <1>3, NothingLost
<1>4. CASE \E st : Write(Name(d), st) /\ lost' = IF unread THEN Loses("members") ELSE IF located THEN Loses("attrs") ELSE lost
  <2>1. ret' = "OK" => ret = "OK"
    BY <1>4 DEF Write, End
  <2>2. out' = out \o <<e>> \/ out' = out \o (<<Piece("comma", 0, 0)>> \o <<e>>)
    BY <1>4 DEF Write, Name
  <2>3. e \in Pieces /\ Piece("comma", 0, 0) \in Pieces
    BY <1>2, PieceTypes
  <2>4. /\ IsUnread(e) <=> unread
        /\ IsLocated(e) <=> located /\ ~unread
        /\ ~IsType(e)
    BY Kinds DEF IsType, Piece
  <2>5. lost \in [types: Nat, attrs: Nat, members: Nat] => lost' = Added(lost, e)
    <3> HIDE DEF e, located, unread
    <3>1. CASE unread
      BY <1>4, <2>4, <3>1, LosesIs DEF Added, One
    <3>2. CASE ~unread /\ located
      BY <1>4, <2>4, <3>2, LosesIs DEF Added, One
    <3>3. CASE ~unread /\ ~located
      BY <1>4, <2>4, <3>3, LosesIs DEF Added, One
    <3> QED
      BY <3>1, <3>2, <3>3
  <2> HIDE DEF e, Piece
  <2>6. CASE out' = out \o <<e>>
    BY <1>1, <2>1, <2>3, <2>5, <2>6, PieceLoses
  <2>7. CASE out' = out \o (<<Piece("comma", 0, 0)>> \o <<e>>)
    <3> DEFINE c == Piece("comma", 0, 0)
               o == out \o <<c>>
    <3>1. out \in Seq(Pieces) /\ <<c>> \in Seq(Pieces) /\ <<e>> \in Seq(Pieces)
      BY <2>3 DEF LossInv
    <3>2. out' = o \o <<e>>
      BY <2>7, <3>1, Joins
    <3>3. o \in Seq(Pieces) /\ Losses(o) = Added(Losses(out), c)
          /\ Losses(out) \in [types: Nat, attrs: Nat, members: Nat]
      BY <2>3, <3>1, LossesGrow
    <3>4. Added(Losses(out), c) = Losses(out)
      BY <3>3, Kinds DEF Added, One
    <3>5. out' \in Seq(Pieces) /\ Losses(out') = Added(Losses(out), e)
      <4>1. o \o <<e>> \in Seq(Pieces) /\ Losses(o \o <<e>>) = Added(Losses(o), e)
        BY <2>3, <3>3, LossesGrow
      <4> QED
        BY <4>1, <3>2, <3>3, <3>4
    <3>6. Losses(out)' = Losses(out')
      BY <1>1, SameLosses
    <3> QED
      BY <1>1, <2>1, <2>5, <3>3, <3>5, <3>6 DEF LossInv
  <2> QED
    BY <2>2, <2>6, <2>7
<1>5. \/ ret' # "OK" /\ out' = out
      \/ \E st : Write(Name(d), st) /\ lost' = IF unread THEN Loses("members") ELSE IF located THEN Loses("attrs") ELSE lost
  BY DEF Member, Prints, End
<1> QED
  BY <1>3, <1>4, <1>5

LEMMA TypeLoses == ASSUME VarInv, LossInv, Type PROVE LossInv'
<1> SUFFICES ASSUME NEW t, t = tree[target].type PROVE LossInv'
  OBVIOUS
<1>1. step = "type" /\ UNCHANGED <<tree, cmd>> /\ ~LookingUp /\ ~LookingUp'
  BY DEF Type, Write, Prints, End, LookingUp
<1>2. t \in Dies \cup {0} /\ base \in Nat
  BY <1>1, DieTypes DEF VarInv, VarTypes
<1>3. CASE out' = out /\ (ret' = "OK" => lost' = lost /\ ret = "OK")
  BY <1>1, <1>3, NothingLost
<1>4. CASE \E st : Write(<<Piece("value", t, ReadsAt)>>, st) /\ lost' = Loses("types")
  <2>1. out' = out \o <<Piece("value", t, base)>> /\ (ret' = "OK" => ret = "OK") /\ lost' = Loses("types")
    BY <1>4 DEF Write, End, ReadsAt
  <2>2. Piece("value", t, base) \in Pieces
    BY <1>2, PieceTypes
  <2>3. lost \in [types: Nat, attrs: Nat, members: Nat] => lost' = Added(lost, Piece("value", t, base))
    <3>1. LET e == Piece("value", t, base) IN IsType(e) /\ ~IsLocated(e) /\ ~IsUnread(e)
      BY Kinds
    <3> HIDE DEF Piece
    <3> QED
      BY <2>1, <3>1, LosesIs DEF Added, One
  <2> QED
    BY <1>1, <2>1, <2>2, <2>3, PieceLoses
<1>5. CASE \E st : Write(<<Piece("open", 0, 0)>>, st) /\ lost' = Loses("types")
  <2>1. out' = out \o <<Piece("open", 0, 0)>> /\ (ret' = "OK" => ret = "OK") /\ lost' = Loses("types")
    BY <1>5 DEF Write, End
  <2>2. Piece("open", 0, 0) \in Pieces
    BY PieceTypes
  <2>3. lost \in [types: Nat, attrs: Nat, members: Nat] => lost' = Added(lost, Piece("open", 0, 0))
    <3>1. LET e == Piece("open", 0, 0) IN IsType(e) /\ ~IsLocated(e) /\ ~IsUnread(e)
      BY Kinds
    <3> HIDE DEF Piece
    <3> QED
      BY <2>1, <3>1, LosesIs DEF Added, One
  <2> QED
    BY <1>1, <2>1, <2>2, <2>3, PieceLoses
<1>6. \/ out' = out /\ (ret' = "OK" => lost' = lost /\ ret = "OK")
      \/ \E st : Write(<<Piece("value", t, ReadsAt)>>, st) /\ lost' = Loses("types")
      \/ \E st : Write(<<Piece("open", 0, 0)>>, st) /\ lost' = Loses("types")
  BY DEF Type, Prints, FreesPrevious
<1> QED
  BY <1>3, <1>4, <1>5, <1>6

LEMMA PrintedLoses == ASSUME VarInv, LossInv, Printed PROVE LossInv'
<1>1. step = "printed" /\ UNCHANGED <<tree, cmd, out>> /\ ~LookingUp'
  BY DEF Printed, End, LookingUp
<1>2. cmd.what = "local" => (walks # <<>> => Members)
  BY <1>1, PrintIs, WalkTypes DEF Printing, PrintPhase
<1>3. cmd.what = "local" /\ ret' = "OK" => lost' = lost /\ ret = "OK"
  BY <1>2 DEF Printed, End
<1> QED
  BY <1>1, <1>3, NothingLost

LEMMA LossStutter == ASSUME LossInv, UNCHANGED vars PROVE LossInv'
<1>1. UNCHANGED <<tree, cmd, step, out, ret, lost>>
  BY DEF vars, searchVars, varVars
<1>2. Losses(out)' = Losses(out)
  BY <1>1, SameLosses
<1> QED
  BY <1>1, <1>2 DEF LossInv, LookingUp

(* The three counts of the property are those of the invariant.            *)
LEMMA CountsAre ==
  ASSUME out \in Seq(Pieces)
  PROVE  Losses(out) = [types |-> NumberOf(IsType), attrs |-> NumberOf(IsLocated), members |-> NumberOf(IsUnread)]
<1>1. \A k \in DOMAIN out : out[k] \in Pieces
  OBVIOUS
<1>2. Count(out, TypePieces) = Cardinality({k \in DOMAIN out : IsType(out[k])})
  BY <1>1 DEF Count, TypePieces
<1>3. Count(out, LocatedPieces) = Cardinality({k \in DOMAIN out : IsLocated(out[k])})
  BY <1>1 DEF Count, LocatedPieces
<1>4. Count(out, UnreadPieces) = Cardinality({k \in DOMAIN out : IsUnread(out[k])})
  BY <1>1 DEF Count, UnreadPieces
<1> QED
  BY <1>2, <1>3, <1>4 DEF Losses, NumberOf

(* A variable that is printed loses the handle of every base type and of   *)
(* every struct on the way, those of no other types, and a handle of every *)
(* member: sprint_var_die_given_base and sprint_var_die_given_struct_type  *)
(* do not give back what they are handed.                                  *)
THEOREM LossCorrect == Spec => []LosesOnePerType
<1>1. Init => LossInv
  BY DEF Init, LossInv, LookingUp
<1>2. VarInv /\ LossInv /\ [Next]_vars => LossInv'
  BY LookupLoses, WalkLoses, ParameterLoses, MemberLoses, TypeLoses, PrintedLoses, LossStutter DEF Next, Var
<1>3. LossInv => LosesOnePerType
  BY CountsAre DEF LossInv, LosesOnePerType, LookingUp
<1> QED
  BY VarInvariant, <1>1, <1>2, <1>3, PTL DEF Spec
=============================================================================
