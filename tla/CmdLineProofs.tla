--------------------------- MODULE CmdLineProofs ----------------------------
(***************************************************************************)
(* The command buffer and what the handlers get out of it, for every size  *)
(* of the buffer and everything that the user may type.                    *)
(***************************************************************************)
EXTENDS CmdLine, FiniteSetTheorems, SequenceTheorems, TLAPS

(* A nonempty set of natural numbers has a least element: induction, in    *)
(* the form in which the proofs below need it.                             *)
LEMMA LeastNatural ==
  ASSUME NEW S, S \subseteq Nat, S # {}
  PROVE  \E n \in S : \A m \in S : n <= m
<1> DEFINE R == {ss \in Nat \X Nat : ss[1] < ss[2]}
<1>1. OpToRel(<, Nat) = R
  BY DEF OpToRel
<1>2. IsWellFoundedOn(R, Nat)
  BY <1>1, NatLessThanWellFounded, Zenon
<1>3. PICK n \in S : \A m \in S : ~ <<m, n>> \in R
  <2> HIDE DEF R
  <2> QED
    BY <1>2, WFMin
<1>4. ASSUME NEW m \in S PROVE n <= m
  <2>1. ~ m < n
    <3>1. m \in Nat /\ n \in Nat /\ ~ <<m, n>> \in R
      BY <1>3
    <3> QED
      BY <3>1
  <2> QED
    BY <2>1
<1> QED
  BY <1>4

(* A nonempty bounded set of natural numbers has a greatest element.       *)
LEMMA GreatestNatural ==
  ASSUME NEW b \in Nat, NEW S, S \subseteq 0 .. b, S # {}
  PROVE  \E n \in S : \A m \in S : n >= m
<1> DEFINE U == {u \in 0 .. b : \A m \in S : m <= u}
<1>1. b \in U /\ U \subseteq Nat
  OBVIOUS
<1>2. PICK u \in U : \A v \in U : u <= v
  BY <1>1, LeastNatural
<1>3. u \in S
  <2> SUFFICES ASSUME u \notin S PROVE FALSE
    OBVIOUS
  <2>1. PICK m \in S : TRUE
    OBVIOUS
  <2>2. u - 1 \in U
    <3>1. u \in 0 .. b /\ \A l \in S : l <= u /\ l # u /\ l \in 0 .. b
      OBVIOUS
    <3>2. u # 0
      BY <2>1, <3>1
    <3>3. \A l \in S : l <= u - 1
      BY <3>1
    <3>4. u - 1 \in 0 .. b
      BY <3>1, <3>2
    <3> QED
      BY <3>3, <3>4
  <2> QED
    BY <1>2, <2>2
<1> QED
  BY <1>3

LEMMA MaxIsGreatest ==
  ASSUME NEW b \in Nat, NEW S, S \subseteq 0 .. b, S # {}
  PROVE  Max(S) \in S /\ \A m \in S : Max(S) >= m
BY GreatestNatural DEF Max

(* Min is the least element.                                               *)
LEMMA MinIsLeast ==
  ASSUME NEW S, S \subseteq Nat, S # {}
  PROVE  Min(S) \in S /\ \A m \in S : Min(S) <= m
BY LeastNatural DEF Min
-----------------------------------------------------------------------------
USE SizeAssumption, PollsAssumption

(* The byte behind the buffer stays NUL.  Between ';' and the handler's    *)
(* return the command ends in a NUL of its own, or the buffer is full.     *)
BufferInv ==
  /\ data[Size] = NUL
  /\ at \in {"poll", "parse"} => rseek = 0 /\ argv = <<>> /\ drained = FALSE
  /\ at \in {"command", "handle"} => wseek = Size \/ (wseek > 0 /\ data[wseek - 1] = NUL)
  /\ rseek <= wseek

CmdLineInv == TypeOK /\ BufferInv

LEMMA TextGrows ==
  ASSUME CmdLineInv, NEW c \in CommandChars
  PROVE  Append(text, c) \in Seq(CommandChars)
<1>1. text \in Seq(CommandChars)
  BY DEF CmdLineInv, TypeOK
<1> QED
  BY <1>1

LEMMA CmdLineInvInit == Init => CmdLineInv
BY GarbageAssumption DEF Init, CmdLineInv, TypeOK, BufferInv

(* A token ends at a NUL, and is the characters before it.                 *)
LEMMA TokenTypes ==
  ASSUME CmdLineInv
  PROVE  /\ TokenEnd \in rseek .. Size /\ data[TokenEnd] = NUL
         /\ \A k \in rseek .. TokenEnd - 1 : data[k] \in Letters
         /\ Token \in Tokens
<1> DEFINE Ends == {k \in rseek .. Size : data[k] = NUL}
<1>1. rseek \in Nat /\ Size \in Nat /\ rseek <= Size /\ data \in [0 .. Size -> Letters \cup {NUL}]
  BY DEF CmdLineInv, TypeOK
<1>2. Size \in Ends /\ Ends \subseteq Nat
  BY <1>1 DEF CmdLineInv, BufferInv
<1>3. TokenEnd \in Ends /\ \A k \in Ends : TokenEnd <= k
  BY <1>2, MinIsLeast DEF TokenEnd
<1>4. ASSUME NEW k \in rseek .. TokenEnd - 1 PROVE data[k] \in Letters
  BY <1>1, <1>3, <1>4
<1>5. Token \in Tokens
  <2>1. \A k \in 1 .. TokenEnd - rseek : rseek + k - 1 \in rseek .. TokenEnd - 1
    BY <1>1, <1>3
  <2>2. TokenEnd - rseek \in Nat
    BY <1>1, <1>3
  <2>3. Token \in [1 .. TokenEnd - rseek -> Letters]
    BY <1>4, <2>1 DEF Token
  <2> QED
    BY <2>2, <2>3 DEF Tokens
<1> QED
  BY <1>3, <1>4, <1>5

(* No token reaches into bytes that the command has not written.           *)
LEMMA TokenIsFresh ==
  ASSUME CmdLineInv, at \in {"command", "handle"}, ~NoToken
  PROVE  TokenEnd <= wseek /\ (TokenEnd < Size => TokenEnd < wseek)
<1>1. rseek < wseek /\ rseek \in Nat /\ wseek \in Nat /\ wseek <= Size /\ Size \in Nat
  BY DEF CmdLineInv, TypeOK, NoToken
<1>2. CASE wseek = Size
  BY <1>1, <1>2, TokenTypes
<1>3. CASE data[wseek - 1] = NUL
  <2>1. wseek - 1 \in {k \in rseek .. Size : data[k] = NUL}
    BY <1>1, <1>3
  <2>2. TokenEnd <= wseek - 1
    BY <1>1, <2>1, MinIsLeast DEF TokenEnd
  <2> QED
    BY <1>1, <2>2, TokenTypes
<1> QED
  BY <1>2, <1>3 DEF CmdLineInv, BufferInv

LEMMA NextToken ==
  ASSUME CmdLineInv, at \in {"command", "handle"}, next_token
  PROVE  /\ rseek' \in 0 .. Size /\ rseek' <= wseek
         /\ argv' \in Seq(Tokens) /\ drained' \in BOOLEAN
         /\ UNCHANGED <<data, wseek, text, overflow>>
<1>1. CASE NoToken
  BY <1>1 DEF next_token, CmdLineInv, TypeOK, BufferInv
<1>2. CASE ~NoToken
  <2>1. /\ TokenEnd \in rseek .. Size /\ TokenEnd <= wseek /\ (TokenEnd < Size => TokenEnd < wseek)
        /\ rseek \in 0 .. Size /\ wseek \in 0 .. Size
    BY <1>2, TokenTypes, TokenIsFresh DEF CmdLineInv, TypeOK
  <2>2. rseek' = IF TokenEnd < Size THEN TokenEnd + 1 ELSE Size
    BY <1>2 DEF next_token
  <2>3. rseek' \in 0 .. Size /\ rseek' <= wseek
    BY <2>1, <2>2
  <2>4. argv' = Append(argv, Token) /\ UNCHANGED <<drained, data, wseek, text, overflow>>
    BY <1>2 DEF next_token
  <2> QED
    BY <2>3, <2>4, TokenTypes DEF CmdLineInv, TypeOK
<1> QED
  BY <1>1, <1>2

(* Writing into the buffer leaves the byte behind it alone.                *)
LEMMA Writes ==
  ASSUME CmdLineInv, NEW c \in Letters \cup {NUL}, write_to_buffer(c)
  PROVE  /\ data' \in [0 .. Size -> Letters \cup {NUL}] /\ data'[Size] = NUL
         /\ data'[wseek] = c /\ wseek' = wseek + 1 /\ wseek' \in 0 .. Size /\ wseek < Size
         /\ rseek' = rseek
BY DEF CmdLineInv, TypeOK, BufferInv, write_to_buffer

LEMMA PollPreserves == ASSUME CmdLineInv, poll_input PROVE CmdLineInv'
BY InputAssumption
   DEF poll_input, CmdLineInv, TypeOK, BufferInv, buffer, history

LEMMA ParsePreserves == ASSUME CmdLineInv, parse_input PROVE CmdLineInv'
<1>1. /\ Len(line) \in Nat /\ pos \in 1 .. Len(line) /\ line[pos] \in Chars
      /\ line' = line /\ pos' \in 1 .. Len(line) + 1
  <2>1. line \in Seq(Chars)
    BY InputAssumption, SMTT(30) DEF CmdLineInv, TypeOK
  <2>2. pos \in 1 .. Len(line) + 1 /\ pos <= Len(line) /\ pos' = pos + 1 /\ line' = line
    BY DEF parse_input, CmdLineInv, TypeOK
  <2> QED
    BY <2>1, <2>2
<1>2. rseek = 0 /\ argv = <<>> /\ drained = FALSE /\ UNCHANGED <<argv, drained, polls>>
  BY DEF parse_input, CmdLineInv, BufferInv
<1>3. ASSUME NEW c \in Letters \cup {NUL}, Keep(c) \/ Overflow
      PROVE  /\ data' \in [0 .. Size -> Letters \cup {NUL}] /\ data'[Size] = NUL
             /\ rseek' = 0 /\ wseek' \in 0 .. Size /\ at' = at
             /\ cmnd' \in {"exit", "other", "invalid"} /\ overflow' \in BOOLEAN
  BY <1>2, <1>3, Writes
     DEF Keep, Overflow, reset_seek, CmdLineInv, TypeOK, BufferInv
<1>4. CASE line[pos] = ";"
  <2>1. UNCHANGED <<cmnd, overflow, text>> /\ at' = "command"
    BY <1>4, LettersAssumption DEF parse_input
  <2>2. CASE write_to_buffer(NUL)
    <3>1. /\ data' \in [0 .. Size -> Letters \cup {NUL}] /\ data'[Size] = NUL
          /\ wseek' \in 0 .. Size /\ rseek' = rseek
          /\ wseek' > 0 /\ data'[wseek' - 1] = NUL
      BY <2>2, Writes DEF CmdLineInv, TypeOK
    <3> QED
      BY <1>1, <1>2, <2>1, <3>1 DEF CmdLineInv, TypeOK, BufferInv
  <2>3. CASE wseek >= Size /\ UNCHANGED buffer
    BY <1>1, <1>2, <2>1, <2>3 DEF CmdLineInv, TypeOK, BufferInv, buffer
  <2> QED
    BY <1>4, <2>2, <2>3, LettersAssumption DEF parse_input
<1>5. CASE line[pos] \in Letters
  <2>1. (Keep(line[pos]) \/ Overflow) /\ at = "parse"
    BY <1>5, LettersAssumption DEF parse_input
  <2>2. text' \in Seq(CommandChars)
    <3>1. text' = Append(text, line[pos])
      BY <1>5, LettersAssumption DEF parse_input
    <3> QED
      BY <1>5, <3>1, TextGrows DEF CommandChars
  <2> QED
    BY <1>1, <1>2, <1>3, <1>5, <2>1, <2>2 DEF CmdLineInv, TypeOK, BufferInv
<1>6. CASE line[pos] = " "
  <2>1. /\ Keep(NUL) \/ Overflow \/ UNCHANGED <<buffer, at, cmnd, overflow>>
        /\ at = "parse"
    BY <1>6, LettersAssumption DEF parse_input
  <2>4. text' = Append(text, " ")
    BY <1>6, LettersAssumption DEF parse_input
  <2>5. text' \in Seq(CommandChars)
    BY <2>4, TextGrows DEF CommandChars
  <2>2. CASE Keep(NUL) \/ Overflow
    BY <1>1, <1>2, <1>3, <2>1, <2>2, <2>5 DEF CmdLineInv, TypeOK, BufferInv
  <2>3. CASE UNCHANGED <<buffer, at, cmnd, overflow>>
    BY <1>1, <1>2, <2>1, <2>3, <2>5 DEF CmdLineInv, TypeOK, BufferInv, buffer
  <2> QED
    BY <2>1, <2>2, <2>3
<1> QED
  BY <1>1, <1>4, <1>5, <1>6 DEF Chars

LEMMA LineEndPreserves == ASSUME CmdLineInv, LineEnd PROVE CmdLineInv'
<1>1. /\ at = "parse" /\ at' = "poll" /\ line' = <<>> /\ pos' = 1
      /\ UNCHANGED <<cmnd, argv, drained, overflow, polls>>
  BY DEF LineEnd
<1>4. text' \in Seq(CommandChars)
  BY TextGrows DEF LineEnd, CommandChars
<1>2. CASE write_to_buffer(NUL)
  <2>1. /\ data' \in [0 .. Size -> Letters \cup {NUL}] /\ data'[Size] = NUL
        /\ wseek' \in 0 .. Size /\ wseek' > wseek /\ rseek' = rseek
    BY <1>2, Writes DEF CmdLineInv, TypeOK
  <2> QED
    BY <1>1, <1>4, <2>1 DEF CmdLineInv, TypeOK, BufferInv
<1>3. CASE UNCHANGED buffer
  BY <1>1, <1>3, <1>4 DEF CmdLineInv, TypeOK, BufferInv, buffer
<1> QED
  BY <1>2, <1>3 DEF LineEnd

LEMMA CommandPreserves == ASSUME CmdLineInv, Command PROVE CmdLineInv'
<1>1. match_command \in {"exit", "other", "invalid"}
  BY DEF match_command
<1> QED
  BY <1>1, NextToken DEF Command, CmdLineInv, TypeOK, BufferInv

LEMMA HandlerPreserves == ASSUME CmdLineInv, HandlerReads \/ HandlerReturns PROVE CmdLineInv'
<1>1. CASE HandlerReads
  BY <1>1, NextToken DEF HandlerReads, CmdLineInv, TypeOK, BufferInv
<1>2. CASE HandlerReturns
  BY <1>2, SMTT(30) DEF HandlerReturns, CmdLineInv, TypeOK, BufferInv, reset_seek, buffer, history
<1> QED
  BY <1>1, <1>2

LEMMA CmdLineInvariant == Spec => []CmdLineInv
<1>1. CmdLineInv /\ [Next]_vars => CmdLineInv'
  <2>1. CASE UNCHANGED vars
    BY <2>1 DEF vars, buffer, history, CmdLineInv, TypeOK, BufferInv
  <2> QED
    BY <2>1, PollPreserves, ParsePreserves, LineEndPreserves, CommandPreserves, HandlerPreserves
       DEF Next, Loop
<1> QED
  BY <1>1, CmdLineInvInit, PTL DEF Spec

(* next_token never reads past what the command has written, and always    *)
(* meets an end.                                                           *)
THEOREM TokensCorrect == Spec => []TokensFresh
<1>1. CmdLineInv => TokensFresh
  BY TokenIsFresh DEF TokensFresh, CmdLineInv, BufferInv
<1> QED
  BY <1>1, CmdLineInvariant, PTL
-----------------------------------------------------------------------------
(* How the words of a text grow with it.                                   *)

LEMMA StartsFinite ==
  ASSUME NEW t \in Seq(CommandChars)
  PROVE  /\ WordStarts(t) \subseteq 1 .. Len(t)
         /\ IsFiniteSet(WordStarts(t)) /\ Cardinality(WordStarts(t)) \in Nat
<1>1. WordStarts(t) \subseteq 1 .. Len(t)
  BY DEF WordStarts
<1>2. IsFiniteSet(1 .. Len(t))
  BY FS_Interval
<1> QED
  BY <1>1, <1>2, FS_Subset, FS_CardinalityType

(* The elements of a set up to k.                                          *)
UpTo(S, k) == {j \in S : j <= k}

LEMMA UpToFinite ==
  ASSUME NEW S, IsFiniteSet(S), NEW k
  PROVE  /\ IsFiniteSet(UpTo(S, k)) /\ Cardinality(UpTo(S, k)) \in Nat
         /\ Cardinality(UpTo(S, k)) <= Cardinality(S)
         /\ Cardinality(UpTo(S, k)) = Cardinality(S) => UpTo(S, k) = S
<1>1. UpTo(S, k) \in SUBSET S
  BY DEF UpTo
<1> QED
  BY <1>1, FS_Subset, FS_CardinalityType

(* Every set of m numbers has a first, a second, ..., an m-th element.     *)
LEMMA NthExists ==
  ASSUME NEW b \in Nat, NEW S, S \subseteq 1 .. b, IsFiniteSet(S), NEW n \in 1 .. Cardinality(S)
  PROVE  Only(Nth(S, n)) \in Nth(S, n)
<1> DEFINE C(k) == Cardinality(UpTo(S, k))
           G == {k \in Nat : C(k) >= n}
<1>1. \A k : C(k) \in Nat
  BY UpToFinite
<1>2. b \in G
  <2>1. UpTo(S, b) = S
    <3>1. \A j \in S : j <= b
      OBVIOUS
    <3> QED
      BY <3>1, Zenon DEF UpTo
  <2> QED
    BY <2>1, FS_CardinalityType
<1>3. PICK k \in G : \A m \in G : k <= m
  <2> HIDE DEF G
  <2>1. G \subseteq Nat
    BY DEF G
  <2> QED
    BY <1>2, <2>1, LeastNatural
<1>4. k # 0
  <2>1. UpTo(S, 0) = {}
    <3>1. \A j \in S : ~(j <= 0)
      OBVIOUS
    <3> QED
      BY <3>1, Zenon DEF UpTo
  <2> QED
    BY <2>1, FS_EmptySet
<1>5. k - 1 \in Nat /\ C(k - 1) < n
  <2>1. k - 1 \in Nat
    BY <1>4
  <2>2. k - 1 \notin G
    BY <1>3, <2>1
  <2> QED
    BY <1>1, <2>1, <2>2
<1>6. k \in S
  <2> SUFFICES ASSUME k \notin S PROVE FALSE
    OBVIOUS
  <2>1. UpTo(S, k) = UpTo(S, k - 1)
    <3>1. \A j \in S : j <= k <=> j <= k - 1
      BY <1>5
    <3> QED
      BY <3>1, Zenon DEF UpTo
  <2> QED
    BY <1>1, <1>5, <2>1
<1>7. C(k) = n
  <2>1. UpTo(S, k) = UpTo(S, k - 1) \cup {k}
    <3>1. \A j \in S : j <= k <=> j <= k - 1 \/ j = k
      BY <1>5
    <3>2. k <= k
      OBVIOUS
    <3> QED
      BY <1>6, <3>1, <3>2, Zenon DEF UpTo
  <2>2. C(k) <= C(k - 1) + 1
    <3>1. IsFiniteSet(UpTo(S, k - 1))
      BY UpToFinite
    <3>2. k \notin UpTo(S, k - 1)
      BY <1>5 DEF UpTo
    <3>3. C(k) = C(k - 1) + 1
      BY <2>1, <3>1, <3>2, FS_AddElement, Zenon
    <3> QED
      BY <1>1, <3>3
  <2> QED
    BY <1>1, <1>5, <2>2
<1>8. k \in Nth(S, n)
  BY <1>6, <1>7 DEF Nth, UpTo
<1> QED
  BY <1>8 DEF Only

(* There is one such element.                                              *)
LEMMA NthUnique ==
  ASSUME NEW S, S \subseteq Nat, IsFiniteSet(S), NEW n, NEW k \in Nth(S, n)
  PROVE  Only(Nth(S, n)) = k
<1>1. ASSUME NEW l \in Nth(S, n), NEW m \in Nth(S, n), l < m PROVE FALSE
  <2>1. l \in S /\ m \in S /\ Cardinality(UpTo(S, l)) = Cardinality(UpTo(S, m))
    BY DEF Nth, UpTo
  <2>2. UpTo(S, l) \subseteq UpTo(S, m)
    <3>1. \A j \in S : j <= l => j <= m
      BY <1>1, <2>1
    <3> QED
      BY <3>1, Zenon DEF UpTo
  <2>3. IsFiniteSet(UpTo(S, m))
    BY UpToFinite
  <2>4. UpTo(S, l) = UpTo(S, m)
    BY <2>1, <2>2, <2>3, FS_Subset, Zenon
  <2>5. m \in UpTo(S, m) /\ m \notin UpTo(S, l)
    BY <1>1, <2>1 DEF UpTo
  <2> QED
    BY <2>4, <2>5
<1>2. \A l \in Nth(S, n) : l \in Nat
  BY DEF Nth
<1>3. Only(Nth(S, n)) \in Nth(S, n)
  BY DEF Only
<1> QED
  BY <1>1, <1>2, <1>3

(* The word that starts at k ends at e.                                    *)
EndsAt(t, k, e) ==
  /\ e \in k .. Len(t)
  /\ \A l \in k .. e : ~Blank(t[l])
  /\ e = Len(t) \/ Blank(t[e + 1])

LEMMA WordIsRun ==
  ASSUME NEW t \in Seq(CommandChars), NEW k \in 1 .. Len(t), NEW e, EndsAt(t, k, e)
  PROVE  WordAt(t, k) = SubSeq(t, k, e)
<1>1. Run(t, k) \subseteq 0 .. Len(t) /\ Len(t) \in Nat
  BY DEF Run
<1>2. e \in Run(t, k)
  BY DEF Run, EndsAt
<1>3. /\ Max(Run(t, k)) \in Run(t, k)
      /\ Max(Run(t, k)) >= e
  BY <1>1, <1>2, MaxIsGreatest
<1>4. \A m \in Run(t, k) : m <= e
  BY DEF Run, EndsAt
<1>5. Max(Run(t, k)) = e
  <2>1. Max(Run(t, k)) \in Nat /\ Max(Run(t, k)) >= e /\ Max(Run(t, k)) <= e
    BY <1>1, <1>3, <1>4
  <2>2. e \in Nat
    BY <1>1, <1>2
  <2> QED
    BY <2>1, <2>2
<1> QED
  BY <1>5 DEF WordAt

LEMMA WordEnds ==
  ASSUME NEW t \in Seq(CommandChars), NEW k \in WordStarts(t)
  PROVE  \E e \in k .. Len(t) : EndsAt(t, k, e)
<1>1. k \in 1 .. Len(t) /\ ~Blank(t[k]) /\ Len(t) \in Nat
  BY DEF WordStarts
<1>2. Run(t, k) \subseteq 0 .. Len(t) /\ k \in Run(t, k)
  BY <1>1 DEF Run
<1>3. PICK e \in Run(t, k) : \A m \in Run(t, k) : e >= m
  BY <1>1, <1>2, GreatestNatural
<1>4. e \in k .. Len(t) /\ \A l \in k .. e : ~Blank(t[l])
  BY <1>3 DEF Run
<1>5. ASSUME e # Len(t), ~Blank(t[e + 1]) PROVE FALSE
  <2>1. \A l \in k .. e + 1 : l \in k .. e \/ l = e + 1
    BY <1>1, <1>4
  <2>2. e + 1 \in k .. Len(t)
    BY <1>1, <1>4, <1>5
  <2>3. e + 1 \in Run(t, k)
    BY <1>4, <1>5, <2>1, <2>2 DEF Run
  <2> QED
    BY <1>1, <1>3, <1>4, <2>3
<1> QED
  BY <1>4, <1>5 DEF EndsAt

LEMMA StartsGrow ==
  ASSUME NEW t \in Seq(CommandChars), NEW c \in CommandChars
  PROVE  WordStarts(Append(t, c)) =
           IF ~Blank(c) /\ (t = <<>> \/ Blank(t[Len(t)]))
           THEN WordStarts(t) \cup {Len(t) + 1} ELSE WordStarts(t)
<1> DEFINE u == Append(t, c)
<1>1. /\ Len(t) \in Nat /\ Len(u) = Len(t) + 1 /\ u[Len(t) + 1] = c
      /\ \A k \in 1 .. Len(t) : u[k] = t[k]
      /\ t = <<>> <=> Len(t) = 0
  OBVIOUS
<1> HIDE DEF u
<1>2. \A k \in 1 .. Len(t) : k \in WordStarts(u) <=> k \in WordStarts(t)
  BY <1>1 DEF WordStarts
<1>3. Len(t) + 1 \in WordStarts(u) <=> ~Blank(c) /\ (t = <<>> \/ Blank(t[Len(t)]))
  BY <1>1 DEF WordStarts
<1>4. /\ \A k \in WordStarts(u) : k \in 1 .. Len(t) \/ k = Len(t) + 1
      /\ WordStarts(t) \subseteq 1 .. Len(t)
  BY <1>1 DEF WordStarts
<1>5. WordStarts(u) = IF ~Blank(c) /\ (t = <<>> \/ Blank(t[Len(t)]))
                      THEN WordStarts(t) \cup {Len(t) + 1} ELSE WordStarts(t)
  <2> DEFINE n == Len(t) + 1
             dom == 1 .. Len(t)
  <2>1. n \notin dom
    BY <1>1
  <2> HIDE DEF n, dom
  <2>2. /\ \A k \in dom : k \in WordStarts(u) <=> k \in WordStarts(t)
        /\ \A k \in WordStarts(u) : k \in dom \/ k = n
        /\ WordStarts(t) \subseteq dom
    BY <1>2, <1>4 DEF n, dom
  <2>3. n \in WordStarts(u) <=> ~Blank(c) /\ (t = <<>> \/ Blank(t[Len(t)]))
    BY <1>3 DEF n
  <2>4. WordStarts(u) = IF ~Blank(c) /\ (t = <<>> \/ Blank(t[Len(t)]))
                        THEN WordStarts(t) \cup {n} ELSE WordStarts(t)
    <3>1. CASE ~Blank(c) /\ (t = <<>> \/ Blank(t[Len(t)]))
      <4>1. WordStarts(u) = WordStarts(t) \cup {n}
        BY <2>1, <2>2, <2>3, <3>1
      <4> QED
        BY <3>1, <4>1
    <3>2. CASE ~(~Blank(c) /\ (t = <<>> \/ Blank(t[Len(t)])))
      <4>1. WordStarts(u) = WordStarts(t)
        BY <2>1, <2>2, <2>3, <3>2
      <4> QED
        BY <3>2, <4>1
    <3> QED
      BY <3>1, <3>2
  <2> QED
    BY <2>4 DEF n
<1> QED
  BY <1>5 DEF u

(* A word that ends before the last character, or is followed by a blank,  *)
(* stays; one that ends at the last character takes a letter on.           *)
LEMMA WordStays ==
  ASSUME NEW t \in Seq(CommandChars), NEW c \in CommandChars,
         NEW k \in 1 .. Len(t), NEW e, EndsAt(t, k, e), e # Len(t) \/ Blank(c)
  PROVE  WordAt(Append(t, c), k) = WordAt(t, k)
<1> DEFINE u == Append(t, c)
<1>1. /\ Len(t) \in Nat /\ Len(u) = Len(t) + 1 /\ u[Len(t) + 1] = c /\ u \in Seq(CommandChars)
      /\ \A l \in 1 .. Len(t) : u[l] = t[l]
  OBVIOUS
<1>2. e \in k .. Len(t)
  BY DEF EndsAt
<1>3. SubSeq(u, k, e) = SubSeq(t, k, e)
  BY <1>2
<1> HIDE DEF u
<1>4. EndsAt(u, k, e)
  BY <1>1, <1>2 DEF EndsAt
<1>5. k \in 1 .. Len(u)
  BY <1>1
<1>6. WordAt(u, k) = SubSeq(u, k, e)
  BY <1>1, <1>4, <1>5, WordIsRun
<1>7. WordAt(t, k) = SubSeq(t, k, e)
  BY WordIsRun
<1>8. WordAt(u, k) = WordAt(t, k)
  BY <1>3, <1>6, <1>7
<1> QED
  BY <1>8 DEF u

LEMMA WordGrows ==
  ASSUME NEW t \in Seq(CommandChars), NEW c \in CommandChars, ~Blank(c),
         NEW k \in 1 .. Len(t), EndsAt(t, k, Len(t))
  PROVE  WordAt(Append(t, c), k) = Append(WordAt(t, k), c)
<1> DEFINE u == Append(t, c)
<1>1. /\ Len(t) \in Nat /\ Len(u) = Len(t) + 1 /\ u[Len(t) + 1] = c /\ u \in Seq(CommandChars)
      /\ \A l \in 1 .. Len(t) : u[l] = t[l]
  OBVIOUS
<1>2. SubSeq(u, k, Len(t) + 1) = Append(SubSeq(t, k, Len(t)), c)
  <2>1. SubSeq(u, k, Len(t) + 1) = [i \in 1 .. Len(t) + 2 - k |-> u[k + i - 1]]
    BY <1>1
  <2>2. /\ SubSeq(t, k, Len(t)) = [i \in 1 .. Len(t) + 1 - k |-> t[k + i - 1]]
        /\ SubSeq(t, k, Len(t)) \in Seq(CommandChars)
        /\ Len(SubSeq(t, k, Len(t))) = Len(t) + 1 - k
    BY <1>1
  <2>3. Append(SubSeq(t, k, Len(t)), c) =
          [i \in 1 .. Len(t) + 2 - k |-> IF i = Len(t) + 2 - k THEN c ELSE t[k + i - 1]]
    BY <1>1, <2>2
  <2>4. ASSUME NEW i \in 1 .. Len(t) + 2 - k
        PROVE  u[k + i - 1] = IF i = Len(t) + 2 - k THEN c ELSE t[k + i - 1]
    <3> HIDE DEF u
    <3>1. CASE i = Len(t) + 2 - k
      BY <1>1, <3>1
    <3>2. CASE i # Len(t) + 2 - k
      <4>1. k + i - 1 \in 1 .. Len(t)
        BY <1>1, <3>2
      <4> QED
        BY <1>1, <3>2, <4>1
    <3> QED
      BY <3>1, <3>2
  <2> HIDE DEF u
  <2> QED
    BY <2>1, <2>3, <2>4
<1> HIDE DEF u
<1>3. EndsAt(u, k, Len(t) + 1)
  <2>1. \A l \in k .. Len(t) + 1 : l \in k .. Len(t) \/ l = Len(t) + 1
    BY <1>1
  <2> QED
    BY <1>1, <2>1 DEF EndsAt
<1>4. k \in 1 .. Len(u)
  BY <1>1
<1>5. WordAt(u, k) = SubSeq(u, k, Len(t) + 1)
  BY <1>1, <1>3, <1>4, WordIsRun
<1>6. WordAt(t, k) = SubSeq(t, k, Len(t))
  BY WordIsRun
<1>7. WordAt(u, k) = Append(WordAt(t, k), c)
  BY <1>2, <1>5, <1>6
<1> QED
  BY <1>7 DEF u

LEMMA NthStays ==
  ASSUME NEW L \in Nat, NEW S, S \subseteq 1 .. L, IsFiniteSet(S)
  PROVE  /\ Cardinality(S \cup {L + 1}) = Cardinality(S) + 1
         /\ \A n \in 1 .. Cardinality(S) : Only(Nth(S \cup {L + 1}, n)) = Only(Nth(S, n))
         /\ Only(Nth(S \cup {L + 1}, Cardinality(S) + 1)) = L + 1
<1> DEFINE T == S \cup {L + 1}
           m == Cardinality(S)
<1>1. L + 1 \notin S /\ \A j \in S : j <= L /\ j \in Nat
  OBVIOUS
<1>2. Cardinality(T) = m + 1 /\ IsFiniteSet(T) /\ m \in Nat
  BY <1>1, FS_AddElement, FS_CardinalityType
<1>3. T \subseteq Nat
  BY <1>1
<1>4. ASSUME NEW n \in 1 .. m PROVE Only(Nth(T, n)) = Only(Nth(S, n))
  <2> DEFINE k == Only(Nth(S, n))
  <2>1. k \in Nth(S, n)
    BY NthExists
  <2> HIDE DEF k
  <2>2. k \in S /\ Cardinality(UpTo(S, k)) = n /\ k <= L /\ k \in Nat
    BY <1>1, <2>1 DEF Nth, UpTo
  <2>3. UpTo(T, k) = UpTo(S, k)
    <3>1. ~(L + 1 <= k)
      BY <2>2
    <3> QED
      BY <3>1, Zenon DEF UpTo
  <2>4. k \in Nth(T, n)
    BY <2>2, <2>3 DEF Nth, UpTo
  <2>5. Only(Nth(T, n)) = k
    <3> HIDE DEF T
    <3> QED
      BY <1>2, <1>3, <2>4, NthUnique
  <2> QED
    BY <2>5 DEF k
<1>5. Only(Nth(T, m + 1)) = L + 1
  <2>1. UpTo(T, L + 1) = T
    <3>1. \A j \in T : j <= L + 1
      BY <1>1
    <3> QED
      BY <3>1, Zenon DEF UpTo
  <2>2. L + 1 \in Nth(T, m + 1)
    BY <1>2, <2>1 DEF Nth, UpTo
  <2> HIDE DEF T, m
  <2> QED
    BY <1>2, <1>3, <2>2, NthUnique
<1> QED
  BY <1>2, <1>4, <1>5

(* Where the n-th word of a text starts.                                   *)
StartOf(t, n) == Only(Nth(WordStarts(t), n))

LEMMA WordsShape ==
  ASSUME NEW t \in Seq(CommandChars)
  PROVE  /\ Len(Words(t)) \in Nat /\ DOMAIN Words(t) = 1 .. Len(Words(t))
         /\ Words(t) = [n \in 1 .. Len(Words(t)) |-> WordAt(t, StartOf(t, n))]
         /\ Len(Words(t)) = Cardinality(WordStarts(t))
         /\ \A n \in 1 .. Len(Words(t)) : /\ StartOf(t, n) \in WordStarts(t)
                                          /\ StartOf(t, n) \in Nth(WordStarts(t), n)
<1>1. Cardinality(WordStarts(t)) \in Nat
  BY StartsFinite
<1>2. /\ Words(t) = [n \in 1 .. Cardinality(WordStarts(t)) |-> WordAt(t, StartOf(t, n))]
      /\ DOMAIN Words(t) = 1 .. Cardinality(WordStarts(t))
  BY DEF Words, StartOf
<1>3. Len(Words(t)) = Cardinality(WordStarts(t))
  BY <1>1, <1>2
<1>4. ASSUME NEW n \in 1 .. Cardinality(WordStarts(t))
      PROVE  StartOf(t, n) \in WordStarts(t) /\ StartOf(t, n) \in Nth(WordStarts(t), n)
  <2>1. StartOf(t, n) \in Nth(WordStarts(t), n)
    <3>1. Len(t) \in Nat
      OBVIOUS
    <3> QED
      BY <3>1, StartsFinite, NthExists DEF StartOf
  <2> QED
    BY <2>1 DEF Nth
<1> QED
  BY <1>1, <1>2, <1>3, <1>4

LEMMA WordsEmpty == Words(<<>>) = <<>>
<1>1. WordStarts(<<>>) = {}
  BY DEF WordStarts
<1>2. Cardinality(WordStarts(<<>>)) = 0
  BY <1>1, FS_EmptySet
<1> QED
  BY <1>2 DEF Words

LEMMA WordsBlank ==
  ASSUME NEW t \in Seq(CommandChars), NEW c \in CommandChars, Blank(c)
  PROVE  Words(Append(t, c)) = Words(t)
<1>1. WordStarts(Append(t, c)) = WordStarts(t)
  BY StartsGrow
<1>2. ASSUME NEW k \in WordStarts(t) PROVE WordAt(Append(t, c), k) = WordAt(t, k)
  <2>1. k \in 1 .. Len(t)
    BY DEF WordStarts
  <2>2. PICK e : EndsAt(t, k, e)
    BY WordEnds
  <2> QED
    BY <2>1, <2>2, WordStays
<1>3. \A n \in 1 .. Cardinality(WordStarts(t)) : Only(Nth(WordStarts(t), n)) \in WordStarts(t)
  BY WordsShape DEF StartOf
<1> QED
  BY <1>1, <1>2, <1>3 DEF Words

(* V is W with the word c behind it, or with c behind its last word.       *)
Starts(W, V, c) ==
  /\ Len(V) = Len(W) + 1
  /\ \A n \in 1 .. Len(W) : V[n] = W[n]
  /\ V[Len(W) + 1] = <<c>>
Grows(W, V, c) ==
  /\ Len(W) > 0 /\ Len(V) = Len(W)
  /\ \A n \in 1 .. Len(W) - 1 : V[n] = W[n]
  /\ V[Len(W)] = Append(W[Len(W)], c)

LEMMA WordsStart ==
  ASSUME NEW t \in Seq(CommandChars), NEW c \in CommandChars, ~Blank(c),
         t = <<>> \/ Blank(t[Len(t)])
  PROVE  Starts(Words(t), Words(Append(t, c)), c)
<1> DEFINE u == Append(t, c)
           m == Len(Words(t))
<1>1. /\ u \in Seq(CommandChars) /\ Len(u) = Len(t) + 1 /\ u[Len(t) + 1] = c /\ Len(t) \in Nat
      /\ t = <<>> <=> Len(t) = 0
  OBVIOUS
<1>2. WordStarts(u) = WordStarts(t) \cup {Len(t) + 1}
  BY StartsGrow
<1> HIDE DEF u
<1>3. m \in Nat /\ m = Cardinality(WordStarts(t))
  BY WordsShape
<1>4. Len(Words(u)) = Cardinality(WordStarts(u))
  BY <1>1, WordsShape
<1>5. /\ Len(Words(u)) = m + 1
      /\ \A n \in 1 .. m : StartOf(u, n) = StartOf(t, n)
      /\ StartOf(u, m + 1) = Len(t) + 1
  <2> DEFINE S == WordStarts(t)
             L == Len(t)
  <2>1. S \subseteq 1 .. L /\ IsFiniteSet(S) /\ L \in Nat
    BY <1>1, StartsFinite
  <2> HIDE DEF S, L
  <2>2. /\ Cardinality(S \cup {L + 1}) = Cardinality(S) + 1
        /\ \A n \in 1 .. Cardinality(S) : Only(Nth(S \cup {L + 1}, n)) = Only(Nth(S, n))
        /\ Only(Nth(S \cup {L + 1}, Cardinality(S) + 1)) = L + 1
    BY <2>1, NthStays, Zenon
  <2>3. m = Cardinality(S)
    BY <1>3 DEF S
  <2> HIDE DEF m
  <2> QED
    BY <1>2, <1>4, <2>2, <2>3 DEF StartOf, S, L
<1>6. ASSUME NEW k \in WordStarts(t) PROVE WordAt(u, k) = WordAt(t, k)
  <2>1. k \in 1 .. Len(t)
    BY DEF WordStarts
  <2>2. PICK e \in k .. Len(t) : EndsAt(t, k, e)
    BY WordEnds
  <2>3. e # Len(t)
    BY <1>1, <2>1, <2>2 DEF EndsAt
  <2> QED
    BY <2>1, <2>2, <2>3, WordStays DEF u
<1>7. WordAt(u, Len(t) + 1) = <<c>>
  <2>1. EndsAt(u, Len(t) + 1, Len(t) + 1)
    BY <1>1 DEF EndsAt
  <2>2. WordAt(u, Len(t) + 1) = SubSeq(u, Len(t) + 1, Len(t) + 1)
    <3>1. Len(t) + 1 \in 1 .. Len(u)
      BY <1>1
    <3> QED
      BY <1>1, <2>1, <3>1, WordIsRun
  <2> QED
    BY <1>1, <2>2
<1>8. \A n \in 1 .. m + 1 : Words(u)[n] = WordAt(u, StartOf(u, n))
  BY <1>1, <1>5, WordsShape
<1>9. \A n \in 1 .. m : Words(t)[n] = WordAt(t, StartOf(t, n)) /\ StartOf(t, n) \in WordStarts(t)
  BY WordsShape
<1>10. m + 1 \in 1 .. m + 1 /\ \A n \in 1 .. m : n \in 1 .. m + 1
  BY <1>3
<1> HIDE DEF m
<1>11. /\ Len(Words(u)) = m + 1
       /\ \A n \in 1 .. m : Words(u)[n] = Words(t)[n]
       /\ Words(u)[m + 1] = <<c>>
  BY <1>5, <1>6, <1>7, <1>8, <1>9, <1>10
<1> QED
  BY <1>11 DEF u, m, Starts

LEMMA WordsGrow ==
  ASSUME NEW t \in Seq(CommandChars), NEW c \in CommandChars, ~Blank(c),
         t # <<>>, ~Blank(t[Len(t)])
  PROVE  Grows(Words(t), Words(Append(t, c)), c)
<1> DEFINE u == Append(t, c)
           m == Len(Words(t))
           S == WordStarts(t)
           B == {k \in 1 .. Len(t) : \A l \in k .. Len(t) : ~Blank(t[l])}
<1>1. u \in Seq(CommandChars) /\ Len(t) \in Nat /\ Len(t) > 0
  OBVIOUS
<1>2. WordStarts(u) = S
  BY StartsGrow
<1> HIDE DEF u
<1>3. PICK k \in B : \A j \in B : k <= j
  <2>1. Len(t) \in B /\ B \subseteq Nat
    BY <1>1
  <2> HIDE DEF B
  <2> QED
    BY <2>1, LeastNatural
<1>4. k \in 1 .. Len(t) /\ \A l \in k .. Len(t) : ~Blank(t[l])
  BY <1>3
<1>5. k = 1 \/ Blank(t[k - 1])
  <2> SUFFICES ASSUME k # 1, ~Blank(t[k - 1]) PROVE FALSE
    OBVIOUS
  <2>1. k - 1 \in 1 .. Len(t) /\ \A l \in k - 1 .. Len(t) : l = k - 1 \/ l \in k .. Len(t)
    BY <1>1, <1>4
  <2>2. k - 1 \in B
    BY <1>4, <2>1
  <2> QED
    BY <1>1, <1>3, <1>4, <2>2
<1>6. k \in S
  <2>1. ~Blank(t[k])
    BY <1>1, <1>4
  <2> QED
    BY <1>4, <1>5, <2>1 DEF WordStarts
<1>7. \A j \in S : j <= k
  <2> SUFFICES ASSUME NEW j \in S, j > k PROVE FALSE
    BY <1>4 DEF WordStarts
  <2>1. j \in 1 .. Len(t) /\ Blank(t[j - 1]) /\ j - 1 \in k .. Len(t)
    BY <1>4 DEF WordStarts
  <2> QED
    BY <1>4, <2>1
<1>8. EndsAt(t, k, Len(t))
  BY <1>4 DEF EndsAt
<1>9. m \in Nat /\ m = Cardinality(S) /\ Len(Words(u)) = m
  BY <1>1, <1>2, WordsShape
<1>10. k \in Nth(S, m)
  <2>1. UpTo(S, k) = S
    BY <1>7, Zenon DEF UpTo
  <2> QED
    BY <1>6, <1>9, <2>1 DEF Nth, UpTo
<1>11. m > 0 /\ m \in 1 .. m
  <2>1. S # {}
    BY <1>6
  <2>2. Cardinality(S) # 0
    BY <2>1, StartsFinite, FS_EmptySet
  <2> QED
    BY <1>9, <2>2
<1>12. StartOf(t, m) = k /\ \A n \in 1 .. m : StartOf(u, n) = StartOf(t, n)
  <2>1. S \subseteq Nat /\ IsFiniteSet(S)
    BY StartsFinite
  <2>2. Only(Nth(S, m)) = k
    <3> HIDE DEF S, m
    <3> QED
      BY <1>10, <2>1, NthUnique
  <2> QED
    BY <1>2, <2>2 DEF StartOf
<1>13. ASSUME NEW n \in 1 .. m - 1 PROVE WordAt(u, StartOf(t, n)) = WordAt(t, StartOf(t, n))
  <2> DEFINE j == StartOf(t, n)
  <2>1. n \in 1 .. m /\ n # m
    BY <1>9
  <2>2. j \in S /\ j \in Nth(S, n)
    BY <2>1, WordsShape
  <2>3. j # k
    <3>1. Cardinality(UpTo(S, j)) = n
      BY <2>2 DEF Nth, UpTo
    <3>2. Cardinality(UpTo(S, k)) = m
      BY <1>10 DEF Nth, UpTo
    <3> QED
      BY <2>1, <3>1, <3>2
  <2> HIDE DEF j
  <2>4. j \in 1 .. Len(t) /\ j < k
    BY <1>4, <1>7, <2>2, <2>3 DEF WordStarts
  <2>5. PICK e \in j .. Len(t) : EndsAt(t, j, e)
    BY <2>2, WordEnds
  <2>6. e # Len(t)
    <3> SUFFICES ASSUME e = Len(t) PROVE FALSE
      OBVIOUS
    <3>1. k - 1 \in j .. e /\ k # 1
      BY <1>4, <2>4
    <3> QED
      BY <1>5, <2>5, <3>1 DEF EndsAt
  <2>7. WordAt(u, j) = WordAt(t, j)
    BY <2>4, <2>5, <2>6, WordStays DEF u
  <2> QED
    BY <2>7 DEF j
<1>14. WordAt(u, k) = Append(WordAt(t, k), c)
  BY <1>4, <1>8, WordGrows DEF u
<1>15. \A n \in 1 .. m : Words(u)[n] = WordAt(u, StartOf(u, n))
  BY <1>1, <1>9, WordsShape
<1>16. \A n \in 1 .. m : Words(t)[n] = WordAt(t, StartOf(t, n))
  BY WordsShape
<1>17. \A n \in 1 .. m - 1 : n \in 1 .. m
  BY <1>9
<1> HIDE DEF m
<1>18. /\ m > 0 /\ Len(Words(u)) = m
       /\ \A n \in 1 .. m - 1 : Words(u)[n] = Words(t)[n]
       /\ Words(u)[m] = Append(Words(t)[m], c)
  BY <1>9, <1>11, <1>12, <1>13, <1>14, <1>15, <1>16, <1>17
<1> QED
  BY <1>18 DEF u, m, Grows
-----------------------------------------------------------------------------
(* How the words W of the command lie in the buffer: the n-th at b[n], one *)
(* NUL between a word and the next, nothing before the first, and the end  *)
(* of the last not behind w.                                               *)
End(W, b) == b[Len(W)] + Len(W[Len(W)])

Laid(d, w, W, b) ==
  /\ b \in [1 .. Len(W) -> 0 .. Size]
  /\ \A n \in 1 .. Len(W) :
       /\ W[n] \in Tokens /\ Len(W[n]) > 0
       /\ b[n] + Len(W[n]) <= w
       /\ \A i \in 1 .. Len(W[n]) : d[b[n] + i - 1] = W[n][i]
       /\ n = 1 => b[n] = 0
       /\ n > 1 => b[n] = b[n - 1] + Len(W[n - 1]) + 1 /\ d[b[n] - 1] = NUL

(* While the text t is typed.                                              *)
Writing(d, w, t, W, b) ==
  /\ Len(W) = 0 => w = 0
  /\ t # <<>> /\ ~Blank(t[Len(t)]) => Len(W) > 0 /\ w = End(W, b)
  /\ t = <<>> \/ Blank(t[Len(t)]) =>
       \/ Len(W) = 0
       \/ End(W, b) = Size /\ w = Size
       \/ End(W, b) < Size /\ w = End(W, b) + 1 /\ d[End(W, b)] = NUL

(* While the command takes the tokens a, from r on.                        *)
Reading(d, w, r, a, dr, W, b) ==
  /\ Len(W) = 0 => d[0] = NUL
  /\ Len(W) > 0 => /\ d[End(W, b)] = NUL
                   /\ w <= End(W, b) + 1 \/ d[End(W, b) + 1] = NUL
  /\ Len(a) <= Len(W) /\ \A n \in 1 .. Len(a) : a[n] = W[n]
  /\ r = IF Len(a) < Len(W) THEN b[Len(a) + 1]
         ELSE IF Len(W) = 0 THEN 0
         ELSE IF End(W, b) < Size THEN End(W, b) + 1 ELSE Size
  /\ dr => Len(a) = Len(W)

LayoutInv ==
  /\ at \in {"poll", "parse"} /\ ~overflow =>
       \E b \in [1 .. Len(Words(text)) -> 0 .. Size] :
         Laid(data, wseek, Words(text), b) /\ Writing(data, wseek, text, Words(text), b)
  /\ at \in {"command", "handle"} /\ ~overflow =>
       \E b \in [1 .. Len(Words(text)) -> 0 .. Size] :
         /\ Laid(data, wseek, Words(text), b)
         /\ Reading(data, wseek, rseek, argv, drained, Words(text), b)

LEMMA TokenFacts ==
  ASSUME NEW s \in Tokens
  PROVE  /\ Len(s) \in Nat /\ \A i \in 1 .. Len(s) : s[i] \in Letters
         /\ \A c \in Letters : /\ Append(s, c) \in Tokens /\ Len(Append(s, c)) = Len(s) + 1
                               /\ \A i \in 1 .. Len(s) : Append(s, c)[i] = s[i]
                               /\ Append(s, c)[Len(s) + 1] = c
BY DEF Tokens

LEMMA SingleToken ==
  ASSUME NEW c \in Letters
  PROVE  <<c>> \in Tokens /\ Len(<<c>>) = 1 /\ <<c>>[1] = c
BY DEF Tokens

(* Every letter lies before the end of its word, and every word before w.  *)
LEMMA LaidRange ==
  ASSUME NEW d, NEW w \in 0 .. Size, NEW W, Len(W) \in Nat, NEW b, Laid(d, w, W, b),
         NEW n \in 1 .. Len(W)
  PROVE  /\ b[n] \in Nat /\ Len(W[n]) \in Nat /\ b[n] + Len(W[n]) <= w /\ b[n] < w
         /\ \A i \in 1 .. Len(W[n]) : b[n] + i - 1 \in b[n] .. b[n] + Len(W[n]) - 1
<1>1. b[n] \in Nat /\ Len(W[n]) \in Nat /\ b[n] + Len(W[n]) <= w /\ Len(W[n]) > 0
  BY TokenFacts DEF Laid
<1> QED
  BY <1>1, SMTT(30)

(* Writing at w leaves what is laid out before it.                         *)
Same(d, e, w) == \A k \in 0 .. w - 1 : e[k] = d[k]

LEMMA LaidStays ==
  ASSUME NEW d, NEW e, NEW w \in 0 .. Size, NEW v \in 0 .. Size, w <= v,
         Same(d, e, w),
         NEW W, Len(W) \in Nat, NEW b, Laid(d, w, W, b)
  PROVE  Laid(e, v, W, b)
<1>1. ASSUME NEW n \in 1 .. Len(W)
      PROVE  /\ W[n] \in Tokens /\ Len(W[n]) > 0
             /\ b[n] + Len(W[n]) <= v
             /\ \A i \in 1 .. Len(W[n]) : e[b[n] + i - 1] = W[n][i]
             /\ n = 1 => b[n] = 0
             /\ n > 1 => b[n] = b[n - 1] + Len(W[n - 1]) + 1 /\ e[b[n] - 1] = NUL
  <2>1. /\ b[n] \in Nat /\ Len(W[n]) \in Nat /\ b[n] + Len(W[n]) <= w /\ b[n] < w
        /\ \A i \in 1 .. Len(W[n]) : b[n] + i - 1 \in 0 .. w - 1
    <3>1. /\ b[n] \in Nat /\ Len(W[n]) \in Nat /\ b[n] + Len(W[n]) <= w /\ b[n] < w
          /\ \A i \in 1 .. Len(W[n]) : b[n] + i - 1 \in b[n] .. b[n] + Len(W[n]) - 1
      BY LaidRange
    <3> QED
      BY <3>1
  <2>2. \A i \in 1 .. Len(W[n]) : e[b[n] + i - 1] = W[n][i]
    BY <2>1 DEF Laid, Same
  <2>3. ASSUME n > 1
        PROVE  b[n] = b[n - 1] + Len(W[n - 1]) + 1 /\ e[b[n] - 1] = NUL
    <3>1. n - 1 \in 1 .. Len(W)
      BY <2>3
    <3>2. b[n] = b[n - 1] + Len(W[n - 1]) + 1 /\ d[b[n] - 1] = NUL
      BY <2>3 DEF Laid
    <3>3. b[n - 1] \in Nat /\ Len(W[n - 1]) \in Nat
      BY <3>1, LaidRange
    <3>4. b[n] - 1 \in 0 .. w - 1
      BY <2>1, <3>2, <3>3, SMTT(30)
    <3> QED
      BY <3>2, <3>4 DEF Same
  <2>4. W[n] \in Tokens /\ Len(W[n]) > 0 /\ (n = 1 => b[n] = 0)
    BY DEF Laid
  <2>5. b[n] + Len(W[n]) <= v
    BY <2>1
  <2> QED
    BY <2>2, <2>3, <2>4, <2>5, Zenon
<1> QED
  BY <1>1 DEF Laid

(* A word may start at w.                                                  *)
Room(d, w, W, b) ==
  /\ Len(W) = 0 => w = 0
  /\ Len(W) > 0 => w = End(W, b) + 1 /\ d[End(W, b)] = NUL

Placed(W, b, w) == [n \in 1 .. Len(W) + 1 |-> IF n <= Len(W) THEN b[n] ELSE w]

(* A letter after a blank starts a word at w.                              *)
LEMMA LaidStart ==
  ASSUME NEW c \in Letters, NEW d, NEW w \in 0 .. Size - 1,
         NEW e, e[w] = c, Same(d, e, w),
         NEW W, Len(W) \in Nat, NEW b, Laid(d, w, W, b),
         Room(d, w, W, b), NEW V, Starts(W, V, c)
  PROVE  Laid(e, w + 1, V, Placed(W, b, w)) /\ End(V, Placed(W, b, w)) = w + 1
<1> DEFINE a == Placed(W, b, w)
<1>1. Size \in Nat /\ w \in 0 .. Size /\ w + 1 \in 0 .. Size
  OBVIOUS
<1>2. /\ Len(V) = Len(W) + 1 /\ V[Len(W) + 1] = <<c>>
      /\ \A n \in 1 .. Len(W) : V[n] = W[n]
  BY DEF Starts
<1>3. Laid(e, w + 1, W, b)
  <2>1. w <= w + 1
    OBVIOUS
  <2> QED
    BY <1>1, <2>1, LaidStays
<1>4. /\ a \in [1 .. Len(V) -> 0 .. Size]
      /\ a[Len(W) + 1] = w /\ \A n \in 1 .. Len(W) : a[n] = b[n]
  BY <1>1, <1>2 DEF Laid, Placed
<1> HIDE DEF a
<1>5. ASSUME NEW n \in 1 .. Len(W)
      PROVE  /\ V[n] \in Tokens /\ Len(V[n]) > 0
             /\ a[n] + Len(V[n]) <= w + 1
             /\ \A i \in 1 .. Len(V[n]) : e[a[n] + i - 1] = V[n][i]
             /\ n = 1 => a[n] = 0
             /\ n > 1 => a[n] = a[n - 1] + Len(V[n - 1]) + 1 /\ e[a[n] - 1] = NUL
  <2>1. n > 1 => n - 1 \in 1 .. Len(W)
    OBVIOUS
  <2>2. a[n] = b[n] /\ V[n] = W[n] /\ (n > 1 => a[n - 1] = b[n - 1] /\ V[n - 1] = W[n - 1])
    BY <1>2, <1>4, <2>1
  <2> QED
    <3>1. /\ W[n] \in Tokens /\ Len(W[n]) > 0
          /\ b[n] + Len(W[n]) <= w + 1
          /\ \A i \in 1 .. Len(W[n]) : e[b[n] + i - 1] = W[n][i]
          /\ n = 1 => b[n] = 0
          /\ n > 1 => b[n] = b[n - 1] + Len(W[n - 1]) + 1 /\ e[b[n] - 1] = NUL
      BY <1>3 DEF Laid
    <3>2. CASE n > 1
      BY <2>2, <3>1, <3>2
    <3>3. CASE ~(n > 1)
      BY <2>2, <3>1, <3>3
    <3> QED
      BY <3>2, <3>3
<1>6. /\ V[Len(V)] \in Tokens /\ Len(V[Len(V)]) = 1
      /\ \A i \in 1 .. Len(V[Len(V)]) : e[a[Len(V)] + i - 1] = V[Len(V)][i]
  <2>1. V[Len(V)] = <<c>> /\ a[Len(V)] = w
    BY <1>2, <1>4
  <2>2. \A i \in 1 .. 1 : w + i - 1 = w /\ i = 1
    BY <1>1
  <2> QED
    BY <2>1, <2>2, SingleToken
<1>7. Len(V) = 1 => a[Len(V)] = 0
  <2>1. Len(V) = 1 => Len(W) = 0
    <3>1. ASSUME NEW m \in Nat, m + 1 = 1 PROVE m = 0
      BY <3>1
    <3> QED
      BY <1>2, <3>1
  <2>2. Len(W) = 0 => w = 0
    BY DEF Room
  <2> QED
    BY <1>2, <1>4, <2>1, <2>2
<1>8. ASSUME Len(V) > 1
      PROVE  a[Len(V)] = a[Len(V) - 1] + Len(V[Len(V) - 1]) + 1 /\ e[a[Len(V)] - 1] = NUL
  <2>1. Len(W) \in 1 .. Len(W) /\ Len(V) - 1 = Len(W)
    BY <1>2, <1>8
  <2>2. w = b[Len(W)] + Len(W[Len(W)]) + 1 /\ d[b[Len(W)] + Len(W[Len(W)])] = NUL
    BY <2>1 DEF End, Room
  <2>3. b[Len(W)] \in Nat /\ Len(W[Len(W)]) \in Nat
    BY <1>1, <2>1, LaidRange
  <2>4. w - 1 = b[Len(W)] + Len(W[Len(W)]) /\ w - 1 \in 0 .. w - 1
    BY <2>2, <2>3
  <2> QED
    BY <1>2, <1>4, <2>1, <2>2, <2>4 DEF Same
<1>9. \A n \in 1 .. Len(V) : n \in 1 .. Len(W) \/ n = Len(V)
  BY <1>2
<1>10. Laid(e, w + 1, V, a)
  <2>1. \A n \in 1 .. Len(V) :
             /\ V[n] \in Tokens /\ Len(V[n]) > 0
             /\ a[n] + Len(V[n]) <= w + 1
             /\ \A i \in 1 .. Len(V[n]) : e[a[n] + i - 1] = V[n][i]
             /\ n = 1 => a[n] = 0
             /\ n > 1 => a[n] = a[n - 1] + Len(V[n - 1]) + 1 /\ e[a[n] - 1] = NUL
    <3> TAKE n \in 1 .. Len(V)
    <3>1. CASE n \in 1 .. Len(W)
      BY <1>5, <3>1
    <3>2. CASE n = Len(V)
      <4>1. Len(V[n]) > 0 /\ a[n] + Len(V[n]) <= w + 1
        <5>1. a[n] = w /\ Len(V[n]) = 1
          BY <1>2, <1>4, <1>6, <3>2
        <5> QED
          BY <5>1
      <4> QED
        BY <1>6, <1>7, <1>8, <3>2, <4>1, Zenon
    <3> QED
      BY <1>9, <3>1, <3>2
  <2> QED
    BY <1>4, <2>1 DEF Laid
<1>11. End(V, a) = w + 1
  BY <1>2, <1>4, <1>6 DEF End
<1> QED
  BY <1>10, <1>11 DEF a

(* A letter after a letter goes to the end of the last word.               *)
LEMMA LaidGrow ==
  ASSUME NEW c \in Letters, NEW d, NEW w \in 0 .. Size - 1,
         NEW e, e[w] = c, Same(d, e, w),
         NEW W, Len(W) \in Nat, NEW b, Laid(d, w, W, b), w = End(W, b),
         NEW V, Grows(W, V, c)
  PROVE  Laid(e, w + 1, V, b) /\ End(V, b) = w + 1
<1> DEFINE m == Len(W)
<1>1. Size \in Nat /\ w \in 0 .. Size /\ w + 1 \in 0 .. Size /\ m \in 1 .. m
  BY DEF Grows
<1>2. /\ Len(V) = m /\ V[m] = Append(W[m], c)
      /\ \A n \in 1 .. m - 1 : V[n] = W[n]
  BY DEF Grows
<1>3. Laid(e, w + 1, W, b)
  <2>1. w <= w + 1
    OBVIOUS
  <2> QED
    BY <1>1, <2>1, LaidStays
<1>4. /\ b[m] \in Nat /\ Len(W[m]) \in Nat /\ w = b[m] + Len(W[m]) /\ W[m] \in Tokens
  BY <1>1, LaidRange DEF Laid, End
<1>5. /\ V[m] \in Tokens /\ Len(V[m]) = Len(W[m]) + 1
      /\ \A i \in 1 .. Len(W[m]) : V[m][i] = W[m][i]
      /\ V[m][Len(W[m]) + 1] = c
  BY <1>2, <1>4, TokenFacts, SMTT(30)
<1>6. \A i \in 1 .. Len(V[m]) : e[b[m] + i - 1] = V[m][i]
  <2> TAKE i \in 1 .. Len(V[m])
  <2>1. CASE i \in 1 .. Len(W[m])
    BY <1>1, <1>3, <1>5, <2>1 DEF Laid
  <2>2. CASE i = Len(W[m]) + 1
    <3>1. b[m] + i - 1 = w
      BY <1>4, <2>2
    <3> QED
      BY <1>5, <2>2, <3>1
  <2> QED
    BY <1>4, <1>5, <2>1, <2>2, SMTT(30)
<1>7. \A n \in 1 .. m : n > 1 => n - 1 \in 1 .. m - 1
  OBVIOUS
<1>8. \A n \in 1 .. m : n # m => n \in 1 .. m - 1
  OBVIOUS
<1> HIDE DEF m
<1>9. ASSUME NEW n \in 1 .. m
      PROVE  /\ V[n] \in Tokens /\ Len(V[n]) > 0
             /\ b[n] + Len(V[n]) <= w + 1
             /\ \A i \in 1 .. Len(V[n]) : e[b[n] + i - 1] = V[n][i]
             /\ n = 1 => b[n] = 0
             /\ n > 1 => b[n] = b[n - 1] + Len(V[n - 1]) + 1 /\ e[b[n] - 1] = NUL
  <2>1. n > 1 => b[n] = b[n - 1] + Len(V[n - 1]) + 1 /\ e[b[n] - 1] = NUL
    BY <1>2, <1>3, <1>7 DEF Laid, m
  <2>2. n = 1 => b[n] = 0
    BY <1>3 DEF Laid, m
  <2>3. CASE n = m
    <3>1. Len(V[m]) > 0 /\ b[m] + Len(V[m]) <= w + 1
      BY <1>1, <1>4, <1>5, SMTT(30)
    <3> QED
      BY <1>5, <1>6, <2>1, <2>2, <2>3, <3>1, Zenon
  <2>4. CASE n # m
    <3>1. n \in 1 .. m - 1
      BY <1>8, <2>4
    <3> QED
      <4>1. V[n] = W[n]
        BY <1>2, <3>1
      <4>2. /\ W[n] \in Tokens /\ Len(W[n]) > 0 /\ b[n] + Len(W[n]) <= w + 1
            /\ \A i \in 1 .. Len(W[n]) : e[b[n] + i - 1] = W[n][i]
        BY <1>3 DEF Laid, m
      <4> QED
        BY <2>1, <2>2, <4>1, <4>2
  <2> QED
    BY <2>3, <2>4
<1>10. b \in [1 .. Len(V) -> 0 .. Size]
  BY <1>2, <1>3 DEF Laid, m
<1>11. End(V, b) = w + 1
  BY <1>2, <1>4, <1>5 DEF End, m
<1>12. Laid(e, w + 1, V, b)
  BY <1>2, <1>9, <1>10 DEF Laid, m
<1> QED
  BY <1>11, <1>12

LEMMA Characters ==
  /\ Blank(" ") /\ " " \in CommandChars /\ NUL \notin Letters
  /\ \A c \in Letters : ~Blank(c) /\ c \in CommandChars
BY LettersAssumption DEF Blank, CommandChars

LEMMA LastCharacter ==
  ASSUME NEW t \in Seq(CommandChars), NEW c \in CommandChars
  PROVE  Append(t, c) # <<>> /\ Append(t, c)[Len(Append(t, c))] = c /\ Append(t, c) \in Seq(CommandChars)
OBVIOUS

LEMMA TextWords ==
  ASSUME CmdLineInv
  PROVE  /\ text \in Seq(CommandChars) /\ Len(Words(text)) \in Nat
         /\ Words(text) = [n \in 1 .. Len(Words(text)) |-> Words(text)[n]]
<1>1. text \in Seq(CommandChars)
  BY DEF CmdLineInv, TypeOK
<1> QED
  BY <1>1, WordsShape

LEMMA NothingLaid ==
  /\ <<>> \in [1 .. Len(Words(<<>>)) -> 0 .. Size]
  /\ \A d : Laid(d, 0, Words(<<>>), <<>>) /\ Writing(d, 0, <<>>, Words(<<>>), <<>>)
<1>1. Words(<<>>) = <<>> /\ Len(<<>>) = 0
  BY WordsEmpty
<1>2. <<>> \in [1 .. 0 -> 0 .. Size] /\ 1 .. 0 = {}
  OBVIOUS
<1> QED
  BY <1>1, <1>2 DEF Laid, Writing

(* A letter is laid down where the words say.                              *)
LEMMA LetterIsLaid ==
  ASSUME CmdLineInv, LayoutInv, at = "parse", ~overflow,
         NEW c \in Letters, write_to_buffer(c), text' = Append(text, c)
  PROVE  \E b \in [1 .. Len(Words(text')) -> 0 .. Size] :
           Laid(data', wseek', Words(text'), b) /\ Writing(data', wseek', text', Words(text'), b)
<1> DEFINE W == Words(text)
           V == Words(text')
<1>1. PICK b \in [1 .. Len(W) -> 0 .. Size] :
        Laid(data, wseek, W, b) /\ Writing(data, wseek, text, W, b)
  BY DEF LayoutInv
<1>2. /\ data \in [0 .. Size -> Letters \cup {NUL}] /\ wseek \in 0 .. Size - 1
      /\ data'[wseek] = c /\ Same(data, data', wseek) /\ wseek' = wseek + 1
  BY DEF Same, CmdLineInv, TypeOK, write_to_buffer
<1>3. text \in Seq(CommandChars) /\ Len(W) \in Nat /\ ~Blank(c) /\ c \in CommandChars
  BY TextWords, Characters
<1>4. text' # <<>> /\ text'[Len(text')] = c /\ ~Blank(text'[Len(text')])
  BY <1>3, LastCharacter
<1>5. CASE text = <<>> \/ Blank(text[Len(text)])
  <2>1. Starts(W, V, c)
    BY <1>3, <1>5, WordsStart
  <2>2. Room(data, wseek, W, b)
    BY <1>1, <1>2, <1>5 DEF Writing, Room
  <2> HIDE DEF W, V
  <2> DEFINE a == Placed(W, b, wseek)
  <2>3. Laid(data', wseek + 1, V, a) /\ End(V, a) = wseek + 1
    BY <1>1, <1>2, <1>3, <2>1, <2>2, LaidStart
  <2>4. Len(V) > 0 /\ a \in [1 .. Len(V) -> 0 .. Size]
    BY <1>3, <2>1, <2>3 DEF Starts, Laid
  <2> HIDE DEF a
  <2>5. Writing(data', wseek', text', V, a)
    BY <1>2, <1>4, <2>3, <2>4 DEF Writing
  <2> QED
    BY <1>2, <2>3, <2>4, <2>5 DEF V
<1>6. CASE text # <<>> /\ ~Blank(text[Len(text)])
  <2>1. Grows(W, V, c)
    BY <1>3, <1>6, WordsGrow
  <2>2. wseek = End(W, b) /\ Len(W) > 0 /\ Len(V) = Len(W)
    BY <1>1, <1>3, <1>6, <2>1 DEF Writing, Grows
  <2> HIDE DEF W, V
  <2>3. Laid(data', wseek + 1, V, b) /\ End(V, b) = wseek + 1
    BY <1>1, <1>2, <1>3, <2>1, <2>2, LaidGrow, SMTT(30)
  <2>4. Writing(data', wseek', text', V, b)
    BY <1>2, <1>4, <2>1, <2>2, <2>3 DEF Writing
  <2> QED
    BY <1>1, <1>2, <2>2, <2>3, <2>4 DEF V
<1> QED
  BY <1>5, <1>6

(* The byte before w, when w is the end of a word, is a letter.            *)
LEMMA LetterBefore ==
  ASSUME CmdLineInv, NEW W, Len(W) \in Nat, Len(W) > 0, NEW b, Laid(data, wseek, W, b),
         wseek = End(W, b)
  PROVE  peek_buffer_back # NUL
<1>1. Len(W) \in 1 .. Len(W) /\ wseek \in 0 .. Size
  BY DEF CmdLineInv, TypeOK
<1>2. /\ b[Len(W)] \in Nat /\ Len(W[Len(W)]) \in Nat /\ b[Len(W)] < wseek
      /\ wseek = b[Len(W)] + Len(W[Len(W)]) /\ W[Len(W)] \in Tokens /\ Len(W[Len(W)]) > 0
  BY <1>1, LaidRange DEF Laid, End
<1>3. data[wseek - 1] = W[Len(W)][Len(W[Len(W)])]
  <2>1. Len(W[Len(W)]) \in 1 .. Len(W[Len(W)])
    BY <1>2
  <2>2. data[b[Len(W)] + Len(W[Len(W)]) - 1] = W[Len(W)][Len(W[Len(W)])]
    BY <1>1, <2>1 DEF Laid
  <2> QED
    BY <1>2, <2>2
<1>4. W[Len(W)][Len(W[Len(W)])] \in Letters
  <2>1. Len(W[Len(W)]) \in 1 .. Len(W[Len(W)])
    BY <1>2
  <2> QED
    BY <1>2, <2>1, TokenFacts
<1>5. wseek # 0
  BY <1>1, <1>2
<1> QED
  BY <1>3, <1>4, <1>5, Characters DEF peek_buffer_back

(* White space and the end of a line end the last word, once.              *)
LEMMA BlankIsLaid ==
  ASSUME CmdLineInv, LayoutInv, at = "parse", ~overflow,
         NEW c \in CommandChars, Blank(c), text' = Append(text, c),
         \/ peek_buffer_back # NUL /\ write_to_buffer(NUL)
         \/ (peek_buffer_back = NUL \/ wseek >= Size) /\ UNCHANGED buffer
  PROVE  \E b \in [1 .. Len(Words(text')) -> 0 .. Size] :
           Laid(data', wseek', Words(text'), b) /\ Writing(data', wseek', text', Words(text'), b)
<1> DEFINE W == Words(text)
<1>1. PICK b \in [1 .. Len(W) -> 0 .. Size] :
        Laid(data, wseek, W, b) /\ Writing(data, wseek, text, W, b)
  BY DEF LayoutInv
<1>2. text \in Seq(CommandChars) /\ Len(W) \in Nat /\ wseek \in 0 .. Size
  BY TextWords DEF CmdLineInv, TypeOK
<1>3. Words(text') = W
  BY <1>2, Characters, WordsBlank
<1>4. text' # <<>> /\ Blank(text'[Len(text')])
  BY <1>2, Characters, LastCharacter
<1> HIDE DEF W
<1>5. Len(W) > 0 => End(W, b) \in Nat /\ End(W, b) <= wseek
  <2> SUFFICES ASSUME Len(W) > 0 PROVE End(W, b) \in Nat /\ End(W, b) <= wseek
    OBVIOUS
  <2>1. Len(W) \in 1 .. Len(W)
    BY <1>2
  <2>2. b[Len(W)] \in Nat /\ Len(W[Len(W)]) \in Nat /\ b[Len(W)] + Len(W[Len(W)]) <= wseek
    BY <1>1, <1>2, <2>1, LaidRange
  <2> QED
    BY <2>2 DEF End
<1>6. CASE peek_buffer_back # NUL /\ write_to_buffer(NUL)
  <2>1. /\ wseek < Size /\ wseek # 0 /\ data[wseek - 1] # NUL
    BY <1>6 DEF peek_buffer_back, write_to_buffer
  <2>2. Len(W) > 0 /\ wseek = End(W, b)
    <3>1. text # <<>> /\ ~Blank(text[Len(text)])
      <4> SUFFICES ASSUME text = <<>> \/ Blank(text[Len(text)]) PROVE FALSE
        OBVIOUS
      <4>1. \/ Len(W) = 0
            \/ wseek = Size
            \/ End(W, b) < Size /\ wseek = End(W, b) + 1 /\ data[End(W, b)] = NUL
        BY <1>1 DEF Writing
      <4>2. Len(W) # 0
        BY <1>1, <2>1 DEF Writing
      <4>3. End(W, b) \in Nat
        BY <1>2, <1>5, <4>2
      <4>4. wseek # Size
        BY <1>2, <2>1
      <4>5. wseek = End(W, b) + 1 => wseek - 1 = End(W, b)
        BY <4>3
      <4> QED
        BY <2>1, <4>1, <4>2, <4>4, <4>5
    <3> QED
      BY <1>1, <3>1 DEF Writing
  <2>3. /\ data' = [data EXCEPT ![wseek] = NUL] /\ wseek' = wseek + 1
        /\ wseek' \in 0 .. Size /\ data'[wseek] = NUL /\ wseek <= wseek'
        /\ Same(data, data', wseek)
    BY <1>6 DEF Same, write_to_buffer, CmdLineInv, TypeOK
  <2>4. Laid(data', wseek', W, b)
    BY <1>1, <1>2, <2>3, LaidStays
  <2>5. Writing(data', wseek', text', W, b)
    BY <1>4, <2>1, <2>2, <2>3 DEF Writing
  <2> QED
    BY <1>1, <1>3, <2>4, <2>5
<1>7. CASE (peek_buffer_back = NUL \/ wseek >= Size) /\ UNCHANGED buffer
  <2>1. data' = data /\ wseek' = wseek
    BY <1>7 DEF buffer
  <2>2. Len(W) = 0 => wseek = 0
    BY <1>1 DEF Writing
  <2>3. \/ Len(W) = 0
        \/ End(W, b) = Size /\ wseek = Size
        \/ End(W, b) < Size /\ wseek = End(W, b) + 1 /\ data[End(W, b)] = NUL
    <3>1. CASE text = <<>> \/ Blank(text[Len(text)])
      BY <1>1, <3>1 DEF Writing
    <3>2. CASE text # <<>> /\ ~Blank(text[Len(text)])
      <4>1. Len(W) > 0 /\ wseek = End(W, b)
        BY <1>1, <3>2 DEF Writing
      <4>2. peek_buffer_back # NUL
        BY <1>1, <1>2, <4>1, LetterBefore
      <4>3. wseek = Size
        BY <1>2, <1>7, <4>2
      <4> QED
        BY <4>1, <4>3
    <3> QED
      BY <3>1, <3>2
  <2>4. Writing(data', wseek', text', W, b)
    BY <1>4, <2>1, <2>2, <2>3 DEF Writing
  <2> QED
    BY <1>1, <1>3, <2>1, <2>4
<1> QED
  BY <1>6, <1>7

(* ';' ends the last word, and what the handlers read is what was typed.   *)
LEMMA EndIsLaid ==
  ASSUME CmdLineInv, LayoutInv, at = "parse", ~overflow,
         write_to_buffer(NUL) \/ (wseek >= Size /\ UNCHANGED buffer)
  PROVE  \E b \in [1 .. Len(Words(text)) -> 0 .. Size] :
           Laid(data', wseek', Words(text), b) /\ Reading(data', wseek', 0, <<>>, FALSE, Words(text), b)
<1> DEFINE W == Words(text)
<1>1. PICK b \in [1 .. Len(W) -> 0 .. Size] :
        Laid(data, wseek, W, b) /\ Writing(data, wseek, text, W, b)
  BY DEF LayoutInv
<1>2. Len(W) \in Nat /\ wseek \in 0 .. Size /\ data[Size] = NUL
  BY TextWords DEF CmdLineInv, TypeOK, BufferInv
<1> HIDE DEF W
<1>3. \/ Len(W) = 0 /\ wseek = 0
      \/ Len(W) > 0 /\ wseek = End(W, b)
      \/ Len(W) > 0 /\ End(W, b) < Size /\ wseek = End(W, b) + 1 /\ data[End(W, b)] = NUL
  BY <1>1, <1>2 DEF Writing
<1>4. Len(W) > 0 => End(W, b) \in 0 .. Size
  <2> SUFFICES ASSUME Len(W) > 0 PROVE End(W, b) \in 0 .. Size
    OBVIOUS
  <2>1. Len(W) \in 1 .. Len(W)
    BY <1>2
  <2>2. b[Len(W)] \in Nat /\ Len(W[Len(W)]) \in Nat /\ b[Len(W)] + Len(W[Len(W)]) <= wseek
    BY <1>1, <1>2, <2>1, LaidRange
  <2> QED
    BY <1>2, <2>2 DEF End
<1>5. /\ Len(W) = 0 => data'[0] = NUL
      /\ Len(W) > 0 => /\ data'[End(W, b)] = NUL
                       /\ wseek' <= End(W, b) + 1 \/ data'[End(W, b) + 1] = NUL
      /\ Laid(data', wseek', W, b)
  <2>1. CASE write_to_buffer(NUL)
    <3>1. /\ wseek < Size /\ wseek' = wseek + 1 /\ data'[wseek] = NUL /\ Same(data, data', wseek)
          /\ wseek' \in 0 .. Size /\ wseek <= wseek'
      BY <2>1 DEF Same, write_to_buffer, CmdLineInv, TypeOK
    <3>2. Laid(data', wseek', W, b)
      BY <1>1, <1>2, <3>1, LaidStays
    <3>3. wseek = End(W, b) + 1 /\ End(W, b) \in Nat => End(W, b) \in 0 .. wseek - 1
      BY <1>2
    <3>4. ASSUME Len(W) > 0
          PROVE  data'[End(W, b)] = NUL /\ (wseek' <= End(W, b) + 1 \/ data'[End(W, b) + 1] = NUL)
      <4>1. End(W, b) \in Nat
        BY <1>4, <3>4
      <4>2. CASE wseek = End(W, b)
        BY <3>1, <4>1, <4>2
      <4>3. CASE wseek = End(W, b) + 1 /\ data[End(W, b)] = NUL
        BY <3>1, <3>3, <4>1, <4>3 DEF Same
      <4> QED
        BY <1>2, <1>3, <3>4, <4>2, <4>3
    <3> QED
      BY <1>2, <1>3, <3>1, <3>2, <3>4
  <2>2. CASE wseek >= Size /\ UNCHANGED buffer
    <3>1. data' = data /\ wseek' = wseek /\ wseek = Size
      BY <1>2, <2>2 DEF buffer
    <3>2. Len(W) # 0
      BY <1>2, <1>3, <3>1
    <3> QED
      BY <1>1, <1>2, <1>3, <1>4, <3>1, <3>2
  <2> QED
    BY <2>1, <2>2
<1>6. 0 = IF 0 < Len(W) THEN b[0 + 1]
          ELSE IF Len(W) = 0 THEN 0
          ELSE IF End(W, b) < Size THEN End(W, b) + 1 ELSE Size
  BY <1>1, <1>2 DEF Laid
<1>7. Reading(data', wseek', 0, <<>>, FALSE, W, b)
  BY <1>2, <1>5, <1>6 DEF Reading
<1> QED
  BY <1>1, <1>5, <1>7 DEF W

(* next_token returns the words one by one, and then NULL.                 *)
LEMMA WordIsRead ==
  ASSUME CmdLineInv, LayoutInv, at \in {"command", "handle"}, ~overflow, next_token
  PROVE  \E b \in [1 .. Len(Words(text)) -> 0 .. Size] :
           /\ Laid(data, wseek, Words(text), b)
           /\ Reading(data, wseek, rseek', argv', drained', Words(text), b)
<1> DEFINE W == Words(text)
           m == Len(argv) + 1
<1>1. PICK b \in [1 .. Len(W) -> 0 .. Size] :
        Laid(data, wseek, W, b) /\ Reading(data, wseek, rseek, argv, drained, W, b)
  BY DEF LayoutInv
<1>2. /\ Len(W) \in Nat /\ wseek \in 0 .. Size /\ data[Size] = NUL /\ Len(argv) \in Nat
      /\ argv \in Seq(Tokens) /\ rseek \in 0 .. Size
  BY TextWords DEF CmdLineInv, TypeOK, BufferInv
<1> HIDE DEF W
<1>3. \A n \in 1 .. Len(W) : /\ b[n] \in Nat /\ Len(W[n]) \in Nat /\ Len(W[n]) > 0
                             /\ b[n] + Len(W[n]) <= wseek
  <2> TAKE n \in 1 .. Len(W)
  <2>1. b[n] \in Nat /\ Len(W[n]) \in Nat /\ b[n] + Len(W[n]) <= wseek
    BY <1>1, <1>2, LaidRange
  <2>2. Len(W[n]) > 0
    BY <1>1 DEF Laid
  <2> QED
    BY <2>1, <2>2
<1>4. Len(W) > 0 => End(W, b) \in 0 .. Size /\ End(W, b) <= wseek
  BY <1>2, <1>3 DEF End
<1>5. CASE Len(argv) = Len(W)
  <2>1. NoToken
    <3>1. CASE Len(W) = 0
      BY <1>1, <1>2, <1>5, <3>1 DEF Reading, NoToken
    <3>2. CASE Len(W) > 0
      <4>1. rseek = IF End(W, b) < Size THEN End(W, b) + 1 ELSE Size
        BY <1>1, <1>2, <1>5, <3>2 DEF Reading
      <4>2. wseek <= End(W, b) + 1 \/ data[End(W, b) + 1] = NUL
        BY <1>1, <3>2 DEF Reading
      <4> QED
        BY <1>2, <1>4, <3>2, <4>1, <4>2 DEF NoToken
    <3> QED
      BY <1>2, <3>1, <3>2
  <2>2. rseek' = rseek /\ argv' = argv /\ drained' = TRUE
    BY <2>1 DEF next_token
  <2>3. Reading(data, wseek, rseek', argv', drained', W, b)
    BY <1>1, <1>5, <2>2 DEF Reading
  <2> QED
    BY <1>1, <2>3 DEF W
<1>6. CASE Len(argv) < Len(W)
  <2>1. m \in 1 .. Len(W) /\ m \in Nat
    BY <1>2, <1>6
  <2>2. rseek = b[m] /\ (\A n \in 1 .. Len(argv) : argv[n] = W[n])
    BY <1>1, <1>6 DEF Reading
  <2> HIDE DEF m
  <2>3. W[m] \in Tokens /\ \A i \in 1 .. Len(W[m]) : data[rseek + i - 1] = W[m][i]
    BY <1>1, <2>1, <2>2 DEF Laid
  <2>4. \A i \in 1 .. Len(W[m]) : data[rseek + i - 1] # NUL
    <3>1. \A i \in 1 .. Len(W[m]) : W[m][i] \in Letters
      BY <2>3, TokenFacts
    <3> QED
      BY <2>3, <3>1, Characters
  <2> DEFINE e == rseek + Len(W[m])
  <2>5. Len(W[m]) \in Nat /\ Len(W[m]) > 0 /\ e <= wseek /\ e \in rseek .. Size /\ rseek < wseek
    BY <1>2, <1>3, <2>1, <2>2
  <2>6. ASSUME m < Len(W) PROVE data[e] = NUL /\ b[m + 1] = e + 1 /\ e < Size
    <3>1. m + 1 \in 1 .. Len(W) /\ m + 1 > 1 /\ m + 1 - 1 = m
      BY <1>2, <2>1, <2>6
    <3>2. b[m + 1] = b[m] + Len(W[m]) + 1 /\ data[b[m + 1] - 1] = NUL
      <4> DEFINE n == m + 1
      <4> HIDE DEF n
      <4>1. n > 1 => b[n] = b[n - 1] + Len(W[n - 1]) + 1 /\ data[b[n] - 1] = NUL
        BY <1>1, <3>1 DEF Laid, n
      <4>2. n > 1 /\ n - 1 = m /\ n = m + 1
        BY <2>1 DEF n
      <4> QED
        BY <4>1, <4>2
    <3>3. b[m + 1] = e + 1
      BY <2>2, <3>1, <3>2
    <3>4. b[m + 1] - 1 = e /\ e < Size
      <4>1. b[m + 1] \in Nat /\ b[m + 1] < Size
        BY <1>2, <1>3, <3>1
      <4> QED
        BY <1>2, <2>5, <3>3, <4>1
    <3> QED
      BY <3>2, <3>3, <3>4
  <2>7. m = Len(W) => e = End(W, b) /\ data[e] = NUL
    BY <1>1, <1>6, <2>1, <2>2 DEF End, Reading
  <2>8. data[e] = NUL
    BY <1>2, <2>1, <2>6, <2>7
  <2>9. ~NoToken
    <3>1. data[rseek + 1 - 1] # NUL /\ rseek + 1 - 1 = rseek
      BY <1>2, <2>4, <2>5
    <3> QED
      BY <1>2, <2>5, <3>1 DEF NoToken
  <2>10. TokenEnd = e
    <3> DEFINE Ends == {k \in rseek .. Size : data[k] = NUL}
    <3>1. e \in Ends /\ Ends \subseteq Nat
      BY <1>2, <2>5, <2>8
    <3>2. TokenEnd \in Ends /\ TokenEnd <= e
      BY <3>1, MinIsLeast DEF TokenEnd
    <3>3. ASSUME TokenEnd < e PROVE FALSE
      <4> DEFINE i == TokenEnd - rseek + 1
      <4>1. i \in 1 .. Len(W[m]) /\ rseek + i - 1 = TokenEnd
        BY <1>2, <2>5, <3>2, <3>3
      <4> HIDE DEF i
      <4>2. data[TokenEnd] # NUL
        BY <2>4, <4>1
      <4> QED
        BY <3>2, <4>2
    <3>4. TokenEnd \in Nat /\ e \in Nat
      BY <3>1, <3>2
    <3> QED
      BY <3>2, <3>3, <3>4
  <2>11. Token = W[m]
    <3>1. Token = [k \in 1 .. Len(W[m]) |-> data[rseek + k - 1]]
      <4>1. TokenEnd - rseek = Len(W[m])
        BY <1>2, <2>5, <2>10
      <4> QED
        BY <4>1 DEF Token
    <3>2. W[m] = [k \in 1 .. Len(W[m]) |-> W[m][k]]
      BY <2>3 DEF Tokens
    <3> QED
      BY <2>3, <3>1, <3>2
  <2>12. /\ argv' = Append(argv, Token) /\ drained' = drained
         /\ rseek' = IF e < Size THEN e + 1 ELSE Size
    BY <2>9, <2>10 DEF next_token
  <2>13. Len(argv') = m /\ \A n \in 1 .. m : argv'[n] = W[n]
    <3>1. Token \in Tokens
      BY <2>3, <2>11
    <3>2. /\ Len(argv') = m /\ argv'[m] = W[m]
          /\ \A n \in 1 .. Len(argv) : argv'[n] = argv[n]
      BY <1>2, <2>11, <2>12, <3>1 DEF m
    <3>3. \A n \in 1 .. m : n = m \/ n \in 1 .. Len(argv)
      BY <1>2 DEF m
    <3> QED
      BY <2>2, <3>2, <3>3
  <2>14. ~drained'
    BY <1>1, <1>2, <1>6, <2>12 DEF Reading
  <2>15. rseek' = IF m < Len(W) THEN b[m + 1]
                  ELSE IF Len(W) = 0 THEN 0
                  ELSE IF End(W, b) < Size THEN End(W, b) + 1 ELSE Size
    BY <1>2, <2>1, <2>6, <2>7, <2>12
  <2>16. Reading(data, wseek, rseek', argv', drained', W, b)
    BY <1>1, <2>1, <2>13, <2>14, <2>15 DEF Reading
  <2> QED
    BY <1>1, <2>16 DEF W
<1>7. Len(argv) <= Len(W)
  BY <1>1 DEF Reading
<1> QED
  BY <1>2, <1>5, <1>6, <1>7
-----------------------------------------------------------------------------
LEMMA LayoutInit == Init => LayoutInv
<1> SUFFICES ASSUME Init PROVE LayoutInv
  OBVIOUS
<1>1. text = <<>> /\ wseek = 0 /\ at = "poll"
  BY DEF Init
<1> QED
  BY <1>1, NothingLaid DEF LayoutInv

LEMMA LayoutParse == ASSUME CmdLineInv, LayoutInv, parse_input PROVE LayoutInv'
<1>1. /\ at = "parse" /\ line[pos] \in Chars
      /\ rseek = 0 /\ argv = <<>> /\ drained = FALSE /\ UNCHANGED <<argv, drained>>
  <2>1. line \in Seq(Chars)
    BY InputAssumption DEF CmdLineInv, TypeOK
  <2>2. pos \in 1 .. Len(line) + 1 /\ pos <= Len(line)
    BY DEF CmdLineInv, TypeOK, parse_input
  <2>3. line[pos] \in Chars
    BY <2>1, <2>2
  <2> QED
    BY <2>3 DEF CmdLineInv, BufferInv, parse_input
<1>2. CASE line[pos] = ";"
  <2>1. /\ write_to_buffer(NUL) \/ (wseek >= Size /\ UNCHANGED buffer)
        /\ at' = "command" /\ UNCHANGED <<overflow, text>>
    BY <1>2, LettersAssumption DEF parse_input
  <2>2. rseek' = 0
    BY <1>1, <2>1 DEF write_to_buffer, buffer
  <2>3. overflow' = overflow /\ text' = text /\ argv' = <<>> /\ drained' = FALSE
    BY <1>1, <2>1
  <2>4. CASE overflow
    BY <2>1, <2>3, <2>4 DEF LayoutInv
  <2>5. CASE ~overflow
    <3>1. PICK b \in [1 .. Len(Words(text)) -> 0 .. Size] :
           Laid(data', wseek', Words(text), b) /\ Reading(data', wseek', 0, <<>>, FALSE, Words(text), b)
      BY <1>1, <2>1, <2>5, EndIsLaid
    <3>2. Laid(data', wseek', Words(text'), b) /\ Reading(data', wseek', rseek', argv', drained', Words(text'), b)
      BY <2>2, <2>3, <3>1
    <3> QED
      BY <2>1, <2>3, <3>2 DEF LayoutInv
  <2> QED
    BY <2>4, <2>5
<1>3. CASE line[pos] \in Letters
  <2>1. (Keep(line[pos]) \/ Overflow) /\ text' = Append(text, line[pos])
    BY <1>3, LettersAssumption DEF parse_input
  <2>2. CASE Overflow
    BY <1>1, <2>2 DEF Overflow, LayoutInv
  <2>3. CASE Keep(line[pos])
    <3>1. write_to_buffer(line[pos]) /\ at' = at /\ overflow' = overflow
      BY <2>3 DEF Keep
    <3> DEFINE c == line[pos]
    <3> HIDE DEF c
    <3>2. c \in Letters /\ write_to_buffer(c) /\ text' = Append(text, c)
      BY <1>3, <2>1, <3>1 DEF c
    <3>3. ~overflow => \E b \in [1 .. Len(Words(text')) -> 0 .. Size] :
           Laid(data', wseek', Words(text'), b) /\ Writing(data', wseek', text', Words(text'), b)
      BY <1>1, <3>2, LetterIsLaid
    <3> QED
      BY <1>1, <3>1, <3>3 DEF LayoutInv
  <2> QED
    BY <2>1, <2>2, <2>3
<1>4. CASE line[pos] = " "
  <2>1. /\ \/ peek_buffer_back # NUL /\ (Keep(NUL) \/ Overflow)
           \/ peek_buffer_back = NUL /\ UNCHANGED <<buffer, at, cmnd, overflow>>
        /\ text' = Append(text, " ")
    BY <1>4, LettersAssumption DEF parse_input
  <2>2. CASE Overflow
    BY <1>1, <2>2 DEF Overflow, LayoutInv
  <2>3. CASE ~Overflow
    <3>1. /\ \/ peek_buffer_back # NUL /\ write_to_buffer(NUL)
             \/ (peek_buffer_back = NUL \/ wseek >= Size) /\ UNCHANGED buffer
          /\ at' = at /\ overflow' = overflow
      BY <2>1, <2>3 DEF Keep
    <3> DEFINE c == " "
    <3>2. c \in CommandChars /\ Blank(c) /\ text' = Append(text, c)
      BY <2>1, Characters
    <3> HIDE DEF c
    <3>3. ~overflow => \E b \in [1 .. Len(Words(text')) -> 0 .. Size] :
           Laid(data', wseek', Words(text'), b) /\ Writing(data', wseek', text', Words(text'), b)
      BY <1>1, <3>1, <3>2, BlankIsLaid
    <3> QED
      BY <1>1, <3>1, <3>3 DEF LayoutInv
  <2> QED
    BY <2>2, <2>3
<1> QED
  BY <1>1, <1>2, <1>3, <1>4 DEF Chars

LEMMA LayoutLineEnd == ASSUME CmdLineInv, LayoutInv, LineEnd PROVE LayoutInv'
<1> DEFINE c == " "
<1>1. /\ at = "parse" /\ at' = "poll" /\ overflow' = overflow
      /\ \/ peek_buffer_back # NUL /\ write_to_buffer(NUL)
         \/ (peek_buffer_back = NUL \/ wseek >= Size) /\ UNCHANGED buffer
      /\ c \in CommandChars /\ Blank(c) /\ text' = Append(text, c)
  BY Characters DEF LineEnd
<1> HIDE DEF c
<1>2. ~overflow => \E b \in [1 .. Len(Words(text')) -> 0 .. Size] :
       Laid(data', wseek', Words(text'), b) /\ Writing(data', wseek', text', Words(text'), b)
  BY <1>1, BlankIsLaid
<1> QED
  BY <1>1, <1>2 DEF LayoutInv

LEMMA LayoutReads ==
  ASSUME CmdLineInv, LayoutInv, at \in {"command", "handle"}, next_token,
         at' \in {"command", "handle", "end"}
  PROVE  LayoutInv'
<1>1. UNCHANGED <<data, wseek, text, overflow>>
  BY DEF next_token
<1>2. ~overflow => \E b \in [1 .. Len(Words(text)) -> 0 .. Size] :
         /\ Laid(data, wseek, Words(text), b)
         /\ Reading(data, wseek, rseek', argv', drained', Words(text), b)
  BY WordIsRead
<1> QED
  BY <1>1, <1>2 DEF LayoutInv

LEMMA LayoutRest ==
  ASSUME CmdLineInv, LayoutInv, poll_input \/ HandlerReturns \/ UNCHANGED vars
  PROVE  LayoutInv'
<1>1. CASE poll_input
  <2>1. UNCHANGED <<data, wseek, text, overflow>> /\ at = "poll" /\ at' \in {"parse", "end"}
    BY <1>1 DEF poll_input, buffer, history
  <2> QED
    BY <2>1 DEF LayoutInv
<1>2. CASE HandlerReturns
  <2>1. \/ at' = "end"
        \/ at' = "parse" /\ text' = <<>> /\ wseek' = 0
    BY <1>2 DEF HandlerReturns, reset_seek
  <2> QED
    BY <2>1, NothingLaid DEF LayoutInv
<1>3. CASE UNCHANGED vars
  <2>1. UNCHANGED <<data, wseek, rseek, text, overflow, at, argv, drained>>
    BY <1>3 DEF vars, buffer, history
  <2> QED
    BY <2>1 DEF LayoutInv
<1> QED
  BY <1>1, <1>2, <1>3

LEMMA LayoutAnswers == ASSUME CmdLineInv, LayoutInv PROVE CommandAsTyped
<1> SUFFICES ASSUME at \in {"command", "handle"}, ~overflow
             PROVE  IsPrefix(argv, Words(text)) /\ (drained => argv = Words(text))
  BY DEF CommandAsTyped
<1> DEFINE W == Words(text)
<1>1. /\ Len(argv) <= Len(W) /\ \A n \in 1 .. Len(argv) : argv[n] = W[n]
      /\ drained => Len(argv) = Len(W)
  BY DEF LayoutInv, Reading
<1>2. /\ Len(W) \in Nat /\ W = [n \in 1 .. Len(W) |-> W[n]]
      /\ argv \in Seq(Tokens)
  BY TextWords DEF CmdLineInv, TypeOK
<1> HIDE DEF W
<1>3. argv = [n \in 1 .. Len(argv) |-> argv[n]] /\ Len(argv) \in Nat
  BY <1>2
<1>4. SubSeq(argv, 1, Len(argv)) = SubSeq(W, 1, Len(argv))
  <2>1. /\ SubSeq(argv, 1, Len(argv)) = [n \in 1 .. Len(argv) |-> argv[n]]
        /\ SubSeq(W, 1, Len(argv)) = [n \in 1 .. Len(argv) |-> W[n]]
    BY <1>3
  <2> QED
    BY <1>1, <2>1
<1>5. drained => argv = W
  <2> SUFFICES ASSUME drained PROVE argv = W
    OBVIOUS
  <2>1. Len(argv) = Len(W)
    BY <1>1
  <2> QED
    BY <1>1, <1>2, <1>3, <2>1
<1> QED
  BY <1>1, <1>4, <1>5 DEF IsPrefix, W

LEMMA LayoutInvariant == Spec => []LayoutInv
<1>1. CmdLineInv /\ LayoutInv /\ [Next]_vars => LayoutInv'
  <2> SUFFICES ASSUME CmdLineInv, LayoutInv, [Next]_vars PROVE LayoutInv'
    OBVIOUS
  <2>1. CASE Command \/ HandlerReads
    <3>1. /\ at \in {"command", "handle"} /\ next_token
          /\ at' \in {"command", "handle", "end"}
      BY <2>1 DEF Command, HandlerReads
    <3> QED
      BY <3>1, LayoutReads
  <2> QED
    BY <2>1, LayoutParse, LayoutLineEnd, LayoutRest DEF Next, Loop
<1> QED
  BY <1>1, LayoutInit, CmdLineInvariant, PTL DEF Spec

(* A handler sees the words that were typed since the last ';', over       *)
(* however many lines, for every size of the buffer, as long as what was   *)
(* typed fits into it.                                                     *)
THEOREM CommandCorrect == Spec => []CommandAsTyped
BY CmdLineInvariant, LayoutInvariant, LayoutAnswers, PTL
=============================================================================
