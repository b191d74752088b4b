---------------------------- MODULE LocExprProofs ----------------------------
(***************************************************************************)
(* The evaluation of locations and the reg command, for words of every     *)
(* width, every location list and every stack.                             *)
(***************************************************************************)
EXTENDS LocExpr, WellFoundedInduction, NaturalsInduction, SequenceTheorems, TLAPS

(* A nonempty set of natural numbers has a least element.                  *)
LEMMA LeastNatural ==
  ASSUME NEW S, S \subseteq Nat, S # {}
  PROVE  \E n \in S : \A m \in S : n <= m
<1> DEFINE R == {ss \in Nat \X Nat : ss[1] < ss[2]}
<1>1. OpToRel(<, Nat) = R
  BY DEF OpToRel
<1>2. IsWellFoundedOn(R, Nat)
  BY <1>1, NatLessThanWellFounded, Zenon
<1>3. PICK n \in S : \A m \in S : ~ <<m, n>> \in R
  <2> HIDE DEF R
  <2> QED
    BY <1>2, WFMin
<1>4. ASSUME NEW m \in S PROVE n <= m
  <2>1. m \in Nat /\ n \in Nat /\ ~ <<m, n>> \in R
    BY <1>3
  <2> QED
    BY <2>1
<1> QED
  BY <1>4

(* Induction up to n, for membership in a set.                             *)
LEMMA InductionTo ==
  ASSUME NEW n \in Nat, NEW P, 0 \in P, \A k \in 1 .. n : k - 1 \in P => k \in P
  PROVE  \A k \in 0 .. n : k \in P
<1> SUFFICES ASSUME {k \in 0 .. n : k \notin P} # {} PROVE FALSE
  OBVIOUS
<1>1. {k \in 0 .. n : k \notin P} \subseteq Nat
  OBVIOUS
<1>2. PICK m \in {k \in 0 .. n : k \notin P} : \A k \in {k \in 0 .. n : k \notin P} : m <= k
  BY <1>1, LeastNatural
<1>3. m \in 1 .. n /\ m - 1 \in 0 .. n
  BY <1>2
<1>4. m - 1 \in P
  BY <1>2, <1>3
<1> QED
  BY <1>2, <1>3, <1>4

(* A recursion over 0 .. n whose step is a function has a solution.        *)
Solvable(n, S, a, G) ==
  \E s \in [0 .. n -> S] : s[0] = a /\ \A k \in 1 .. n : s[k] = G[k][s[k - 1]]

LEMMA Recursion ==
  ASSUME NEW n \in Nat, NEW S, NEW a \in S, NEW G \in [1 .. n -> [S -> S]]
  PROVE  Solvable(n, S, a, G)
<1> DEFINE Solves(m, s) == s[0] = a /\ \A k \in 1 .. m : s[k] = G[k][s[k - 1]]
           P == {m \in 0 .. n : \E s \in [0 .. m -> S] : Solves(m, s)}
<1>1. 0 \in P
  <2> DEFINE t == [k \in 0 .. 0 |-> a]
  <2>1. t \in [0 .. 0 -> S] /\ t[0] = a /\ \A k \in 1 .. 0 : FALSE
    OBVIOUS
  <2> HIDE DEF t
  <2>2. Solves(0, t)
    BY <2>1
  <2>3. \E s \in [0 .. 0 -> S] : Solves(0, s)
    BY <2>1, <2>2
  <2> QED
    BY <2>3
<1>2. ASSUME NEW m \in 1 .. n, m - 1 \in P PROVE m \in P
  <2>1. PICK s \in [0 .. m - 1 -> S] : Solves(m - 1, s)
    BY <1>2
  <2>2. m - 1 \in 0 .. m - 1 /\ s[m - 1] \in S /\ G[m] \in [S -> S]
    BY <2>1
  <2> DEFINE b == G[m][s[m - 1]]
             t == [k \in 0 .. m |-> IF k = m THEN b ELSE s[k]]
  <2>3. b \in S
    BY <2>2
  <2> HIDE DEF b
  <2>4. t \in [0 .. m -> S]
    BY <2>1, <2>3
  <2>5. \A k \in 0 .. m - 1 : t[k] = s[k]
    OBVIOUS
  <2>6. t[m] = b
    OBVIOUS
  <2> HIDE DEF t
  <2>7. ASSUME NEW k \in 1 .. m PROVE t[k] = G[k][t[k - 1]]
    <3>1. CASE k = m
      BY <2>2, <2>5, <2>6, <3>1 DEF b
    <3>2. CASE k # m
      <4>1. k \in 1 .. m - 1 /\ k \in 0 .. m - 1 /\ k - 1 \in 0 .. m - 1
        BY <3>2
      <4> QED
        BY <2>1, <2>5, <4>1
    <3> QED
      BY <3>1, <3>2
  <2>8. t[0] = a
    BY <2>1, <2>5
  <2>9. Solves(m, t)
    BY <2>7, <2>8
  <2>10. \E q \in [0 .. m -> S] : Solves(m, q)
    <3> HIDE DEF Solves
    <3> QED
      BY <2>4, <2>9
  <2>11. m \in 0 .. n
    OBVIOUS
  <2> HIDE DEF Solves
  <2> QED
    BY <2>10, <2>11
<1>3. \A m \in 0 .. n : m \in P
  <2> HIDE DEF P
  <2> QED
    BY <1>1, <1>2, InductionTo
<1> QED
  BY <1>3 DEF Solvable

(* The recursion of Power.                                                 *)
LEMMA PowerUnfolds ==
  ASSUME NEW n \in Nat
  PROVE  \E p : Power(n) = p[n] /\ p[0] = 1 /\ \A k \in 1 .. n : p[k] = 2 * p[k - 1]
<1> DEFINE Eq(p) == p = [k \in 0 .. n |-> IF k = 0 THEN 1 ELSE 2 * p[k - 1]]
           p == CHOOSE p : Eq(p)
<1>1. Power(n) = p[n]
  BY DEF Power
<1>2. \E q : Eq(q)
  <2> DEFINE N == Nat \ {0}
             G == [k \in 1 .. n |-> [b \in N |-> 2 * b]]
  <2>1. n \in Nat /\ 1 \in N /\ G \in [1 .. n -> [N -> N]]
    OBVIOUS
  <2>2. \A k \in 1 .. n, b \in N : b \in Nat /\ G[k][b] = 2 * b
    OBVIOUS
  <2> HIDE DEF G, N
  <2>3. PICK s \in [0 .. n -> N] : s[0] = 1 /\ \A k \in 1 .. n : s[k] = G[k][s[k - 1]]
    <3>1. Solvable(n, N, 1, G)
      BY <2>1, Recursion
    <3> QED
      BY <3>1 DEF Solvable
  <2>4. \A k \in 1 .. n : k - 1 \in 0 .. n /\ s[k] = 2 * s[k - 1]
    <3> SUFFICES ASSUME NEW k \in 1 .. n PROVE k - 1 \in 0 .. n /\ s[k] = 2 * s[k - 1]
      OBVIOUS
    <3>1. k - 1 \in 0 .. n
      OBVIOUS
    <3>2. s[k - 1] \in N
      BY <2>3, <3>1
    <3> QED
      BY <2>2, <2>3, <3>1, <3>2
  <2>5. \A k \in 0 .. n : s[k] = IF k = 0 THEN 1 ELSE 2 * s[k - 1]
    BY <2>3, <2>4
  <2>6. s = [k \in 0 .. n |-> s[k]]
    BY <2>3
  <2>7. Eq(s)
    BY <2>5, <2>6
  <2> QED
    BY <2>7
<1>3. Eq(p)
  <2> HIDE DEF Eq
  <2> QED
    BY <1>2
<1> HIDE DEF p
<1>4. p[0] = 1 /\ \A k \in 1 .. n : p[k] = 2 * p[k - 1]
  BY <1>3
<1> QED
  BY <1>1, <1>4

(* What the recursive functions of the model compute.                      *)
LEMMA Powers ==
  ASSUME NEW n \in Nat
  PROVE  Power(n) \in Nat \ {0} /\ (n > 0 => Power(n) > 1)
<1>1. PICK p : Power(n) = p[n] /\ p[0] = 1 /\ \A k \in 1 .. n : p[k] = 2 * p[k - 1]
  BY PowerUnfolds
<1> DEFINE P == {k \in 0 .. n : p[k] \in Nat \ {0} /\ (k > 0 => p[k] > 1)}
<1>2. 0 \in P
  BY <1>1
<1>3. ASSUME NEW k \in 1 .. n, k - 1 \in P PROVE k \in P
  <2>1. p[k] = 2 * p[k - 1] /\ p[k - 1] \in Nat \ {0}
    BY <1>1, <1>3
  <2>2. p[k] \in Nat \ {0} /\ p[k] > 1
    BY <2>1
  <2> QED
    BY <2>2
<1>4. \A k \in 0 .. n : k \in P
  <2> HIDE DEF P
  <2> QED
    BY <1>2, <1>3, InductionTo
<1> QED
  BY <1>1, <1>4

(* So does one whose steps are affine: a sum, or a numeral in its base.    *)
LEMMA Affine ==
  ASSUME NEW n \in Nat, NEW c \in Int, NEW f \in [1 .. n -> Int]
  PROVE  \E s \in [0 .. n -> Int] : s[0] = 0 /\ \A k \in 1 .. n : s[k] = s[k - 1] * c + f[k]
<1> DEFINE G == [k \in 1 .. n |-> [b \in Int |-> b * c + f[k]]]
<1>1. ASSUME NEW k \in 1 .. n PROVE [b \in Int |-> b * c + f[k]] \in [Int -> Int]
  <2>1. f[k] \in Int
    OBVIOUS
  <2>2. \A b \in Int : b * c + f[k] \in Int
    BY <2>1
  <2> QED
    BY <2>2
<1>2. G \in [1 .. n -> [Int -> Int]]
  BY <1>1
<1>3. \A k \in 1 .. n, b \in Int : G[k][b] = b * c + f[k]
  OBVIOUS
<1> HIDE DEF G
<1>4. Solvable(n, Int, 0, G)
  <2> DEFINE Z == Int
  <2>1. n \in Nat /\ 0 \in Z /\ G \in [1 .. n -> [Z -> Z]]
    BY <1>2
  <2> HIDE DEF Z
  <2>2. Solvable(n, Z, 0, G)
    BY <2>1, Recursion
  <2> QED
    BY <2>2 DEF Z
<1>5. PICK s \in [0 .. n -> Int] : s[0] = 0 /\ \A k \in 1 .. n : s[k] = G[k][s[k - 1]]
  BY <1>4 DEF Solvable
<1>6. ASSUME NEW k \in 1 .. n PROVE s[k] = s[k - 1] * c + f[k]
  <2>1. k - 1 \in 0 .. n
    OBVIOUS
  <2>2. s[k - 1] \in Int
    BY <1>5, <2>1
  <2> QED
    BY <1>3, <1>5, <2>2
<1> QED
  BY <1>5, <1>6

(* The value of a token.                                                   *)
LEMMA TokenValues ==
  ASSUME NEW t, t.sign \in {1, -1}, t.digits \in Seq(Nat), NEW base \in Nat
  PROVE  /\ strtol(t, base) \in Int
         /\ Len(t.digits) = 1 => strtol(t, base) = t.sign * t.digits[1]
<1> DEFINE d == t.digits
           n == Len(d)
           Eq(v) == v = [k \in 0 .. n |-> IF k = 0 THEN 0 ELSE v[k - 1] * base + d[k]]
           v == CHOOSE v : Eq(v)
<1>1. strtol(t, base) = t.sign * v[n]
  BY DEF strtol
<1>2. n \in Nat /\ \A k \in 1 .. n : d[k] \in Nat
  OBVIOUS
<1> DEFINE f == [k \in 1 .. n |-> d[k]]
<1>3. f \in [1 .. n -> Int] /\ \A k \in 1 .. n : f[k] = d[k]
  BY <1>2
<1> HIDE DEF d, n, f
<1>4. \E q \in [0 .. n -> Int] : Eq(q)
  <2>1. base \in Int
    OBVIOUS
  <2>2. PICK s \in [0 .. n -> Int] : s[0] = 0 /\ \A k \in 1 .. n : s[k] = s[k - 1] * base + f[k]
    BY <1>2, <1>3, <2>1, Affine
  <2>3. ASSUME NEW k \in 0 .. n PROVE s[k] = IF k = 0 THEN 0 ELSE s[k - 1] * base + d[k]
    <3>1. CASE k = 0
      BY <2>2, <3>1
    <3>2. CASE k # 0
      <4>1. k \in 1 .. n
        BY <1>2, <3>2
      <4> QED
        BY <1>3, <2>2, <3>2, <4>1
    <3> QED
      BY <3>1, <3>2
  <2>4. s = [k \in 0 .. n |-> s[k]]
    BY <2>2
  <2>5. Eq(s)
    BY <2>3, <2>4
  <2> QED
    BY <2>2, <2>5
<1>5. Eq(v)
  <2> HIDE DEF Eq
  <2> QED
    BY <1>4
<1> HIDE DEF v
<1>6. v[0] = 0 /\ \A k \in 1 .. n : v[k] = v[k - 1] * base + d[k]
  BY <1>2, <1>5
<1>7. \A k \in 0 .. n : v[k] \in Int
  <2> DEFINE P == {k \in 0 .. n : v[k] \in Int}
  <2>1. 0 \in P
    BY <1>2, <1>6
  <2>2. ASSUME NEW k \in 1 .. n, k - 1 \in P PROVE k \in P
    <3>1. v[k] = v[k - 1] * base + d[k] /\ v[k - 1] \in Int /\ d[k] \in Int
      BY <1>2, <1>6, <2>2
    <3>2. v[k] \in Int
      BY <3>1
    <3> QED
      BY <1>2, <3>2
  <2>3. \A k \in 0 .. n : k \in P
    <3> HIDE DEF P
    <3> QED
      BY <1>2, <2>1, <2>2, InductionTo
  <2> QED
    BY <2>3
<1>8. strtol(t, base) \in Int
  <2>1. v[n] \in Int /\ t.sign \in Int
    BY <1>2, <1>7
  <2> QED
    BY <1>1, <2>1
<1>9. ASSUME n = 1 PROVE strtol(t, base) = t.sign * d[1]
  <2>1. d[1] \in Nat /\ v[1] = v[0] * base + d[1]
    BY <1>2, <1>6, <1>9
  <2>2. v[1] = d[1]
    BY <1>6, <2>1
  <2> QED
    BY <1>1, <1>9, <2>2
<1> QED
  BY <1>8, <1>9 DEF d, n

(* The words.                                                              *)
LEMMA Words ==
  /\ Modulus \in Nat /\ Modulus > 1
  /\ Half \in Nat \ {0}
  /\ \A n \in Int : Word(n) \in UWORD
  /\ \A w \in UWORD : /\ w \in Nat
                      /\ WORD(w) \in Int
                      /\ w # 0 => WORD(w) # 0
  /\ {0, 1} \subseteq UWORD
<1>1. Width \in Nat /\ Width > 0 /\ Width - 1 \in Nat
  BY WidthAssumption
<1>2. Modulus \in Nat /\ Modulus > 1 /\ Half \in Nat \ {0}
  BY <1>1, Powers DEF Modulus, Half
<1>3. ASSUME NEW n \in Int PROVE Word(n) \in UWORD
  BY <1>2 DEF Word, UWORD
<1>4. ASSUME NEW w \in UWORD PROVE w \in Nat /\ WORD(w) \in Int /\ (w # 0 => WORD(w) # 0)
  BY <1>2 DEF WORD, UWORD
<1>5. {0, 1} \subseteq UWORD
  BY <1>2 DEF UWORD
<1> QED
  BY <1>2, <1>3, <1>4, <1>5

(* A word is put together from bits by a sum.                              *)
LEMMA BitSums ==
  ASSUME NEW on
  PROVE  \E s : /\ WithBits(on) = s[Width] /\ s[0] = 0
                /\ \A k \in 1 .. Width : s[k] = s[k - 1] + (IF k - 1 \in on THEN Power(k - 1) ELSE 0)
<1> DEFINE f == [k \in 1 .. Width |-> IF k - 1 \in on THEN Power(k - 1) ELSE 0]
           Eq(v) == v = [k \in 0 .. Width |-> IF k = 0 THEN 0 ELSE v[k - 1] + (IF k - 1 \in on THEN Power(k - 1) ELSE 0)]
           v == CHOOSE v : Eq(v)
<1>1. WithBits(on) = v[Width]
  BY DEF WithBits
<1>2. Width \in Nat
  BY WidthAssumption
<1>3. f \in [1 .. Width -> Int]
  <2>1. ASSUME NEW k \in 1 .. Width PROVE (IF k - 1 \in on THEN Power(k - 1) ELSE 0) \in Int
    <3>1. k - 1 \in Nat
      BY <1>2
    <3>2. Power(k - 1) \in Nat
      BY <3>1, Powers
    <3> QED
      BY <3>2
  <2> QED
    BY <2>1
<1>4. \A k \in 1 .. Width : f[k] = IF k - 1 \in on THEN Power(k - 1) ELSE 0
  OBVIOUS
<1> HIDE DEF f
<1>a. PICK c \in Int : c = 1
  OBVIOUS
<1>5. PICK s \in [0 .. Width -> Int] : s[0] = 0 /\ \A k \in 1 .. Width : s[k] = s[k - 1] * c + f[k]
  BY <1>2, <1>3, Affine
<1>6. ASSUME NEW k \in 0 .. Width
      PROVE  s[k] = IF k = 0 THEN 0 ELSE s[k - 1] + (IF k - 1 \in on THEN Power(k - 1) ELSE 0)
  <2>1. CASE k = 0
    BY <1>5, <2>1
  <2>2. CASE k # 0
    <3>1. k \in 1 .. Width /\ k - 1 \in 0 .. Width
      BY <1>2, <2>2
    <3>2. s[k - 1] * c = s[k - 1]
      BY <1>a, <1>5, <3>1
    <3> QED
      BY <1>4, <1>5, <2>2, <3>1, <3>2
  <2> QED
    BY <2>1, <2>2
<1>7. s = [k \in 0 .. Width |-> s[k]]
  BY <1>5
<1>8. Eq(s)
  BY <1>6, <1>7
<1>9. Eq(v)
  <2> HIDE DEF Eq
  <2> QED
    BY <1>8
<1> HIDE DEF v
<1>10. v[0] = 0 /\ \A k \in 1 .. Width : v[k] = v[k - 1] + (IF k - 1 \in on THEN Power(k - 1) ELSE 0)
  BY <1>2, <1>9
<1> QED
  BY <1>1, <1>10

(* Such a word is a number.                                                *)
LEMMA BitsAreNumbers ==
  ASSUME NEW on
  PROVE  WithBits(on) \in Int
<1>1. PICK s : /\ WithBits(on) = s[Width] /\ s[0] = 0
               /\ \A k \in 1 .. Width : s[k] = s[k - 1] + (IF k - 1 \in on THEN Power(k - 1) ELSE 0)
  BY BitSums
<1>2. Width \in Nat
  BY WidthAssumption
<1> DEFINE P == {k \in 0 .. Width : s[k] \in Int}
<1>3. 0 \in P
  BY <1>1, <1>2
<1>4. ASSUME NEW k \in 1 .. Width, k - 1 \in P PROVE k \in P
  <2>1. k - 1 \in Nat
    BY <1>2
  <2>2. Power(k - 1) \in Nat /\ s[k - 1] \in Int
    BY <1>4, <2>1, Powers
  <2>3. s[k] \in Int
    BY <1>1, <2>2
  <2> QED
    BY <2>3
<1>5. \A k \in 0 .. Width : k \in P
  <2> HIDE DEF P
  <2> QED
    BY <1>2, <1>3, <1>4, InductionTo
<1> QED
  BY <1>1, <1>2, <1>5

(* An operation that does not trap has a number as its value.              *)
LEMMA UnaryValues ==
  ASSUME NEW o \in UnaryOps, NEW a \in Int, NEW b \in UWORD
  PROVE  Unary(o, a, b) \in Int
<1>1. b \in Nat /\ WORD(b) \in Int
  BY Words
<1>2. -WORD(b) \in Int /\ -b - 1 \in Int /\ Abs(WORD(b)) \in Int /\ b + a \in Int
  BY <1>1 DEF Abs
<1> HIDE DEF Abs
<1> QED
  BY <1>2 DEF Unary, UnaryOps

LEMMA Quotients ==
  ASSUME NEW n \in Int, NEW m \in Int, m # 0
  PROVE  Quot(n, m) \in Int
<1>1. Abs(n) \in Nat /\ Abs(m) \in Nat \ {0}
  BY DEF Abs
<1>2. Abs(n) \div Abs(m) \in Int
  BY <1>1
<1>3. -(Abs(n) \div Abs(m)) \in Int
  BY <1>2
<1> QED
  BY <1>2, <1>3 DEF Quot

LEMMA BinaryValues ==
  ASSUME NEW o \in BinaryOps, NEW c \in UWORD, NEW b \in UWORD, ~Traps(o, c, b)
  PROVE  Binary(o, c, b) \in Int
<1>1. b \in Nat /\ WORD(b) \in Int /\ c \in Nat /\ WORD(c) \in Int /\ (b # 0 => WORD(b) # 0)
  BY Words
<1>a. ASSUME o \in UBinary PROVE Binary(o, c, b) = UBINOP(o, c, b)
  <2>1. o \notin SBinary /\ o \notin {"div", "shl", "shr", "shra"}
    BY <1>a DEF UBinary, SBinary
  <2> QED
    BY <1>a, <2>1, Zenon DEF Binary
<1>2. CASE o \in {"and", "or", "xor"}
  <2>1. UBINOP(o, c, b) \in Int
    BY <1>2, BitsAreNumbers DEF UBINOP
  <2> QED
    BY <1>2, <1>a, <2>1 DEF UBinary
<1>3. CASE o \in {"plus", "minus", "mul"}
  <2>1. c + b \in Int /\ c - b \in Int /\ c * b \in Int
    BY <1>1
  <2>2. UBINOP(o, c, b) \in Int
    BY <1>3, <2>1 DEF UBINOP
  <2> QED
    BY <1>3, <1>a, <2>2 DEF UBinary
<1>4. CASE o = "mod"
  <2>1. b # 0
    BY <1>4 DEF Traps
  <2>2. c % b \in Int
    BY <1>1, <2>1
  <2>3. UBINOP(o, c, b) \in Int
    BY <1>4, <2>2 DEF UBINOP
  <2> QED
    BY <1>4, <1>a, <2>3 DEF UBinary
<1>5. CASE o \in SBinary
  <2>1. SBINOP(o, WORD(c), WORD(b)) \in Int
    BY <1>5 DEF SBINOP, SBinary, Truth
  <2> QED
    BY <1>5, <2>1 DEF Binary, UBinary, SBinary
<1>6. CASE o = "div"
  <2>1. b # 0
    BY <1>6 DEF Traps
  <2>2. Quot(WORD(c), WORD(b)) \in Int
    BY <1>1, <2>1, Quotients
  <2> QED
    BY <1>6, <2>2 DEF Binary, UBinary, SBinary, parse_op_div
<1>7. CASE o \in {"shl", "shr", "shra"}
  <2>1. Power(b) \in Nat \ {0}
    BY <1>1, Powers
  <2>2. c \div Power(b) \in Int /\ c * Power(b) \in Int
    BY <1>1, <2>1
  <2>3. -(Word(-WORD(c)) \div Power(b)) \in Int
    <3>1. -WORD(c) \in Int
      BY <1>1
    <3>2. Word(-WORD(c)) \in Nat
      BY <3>1, Words
    <3>3. Word(-WORD(c)) \div Power(b) \in Int
      BY <2>1, <3>2
    <3> QED
      BY <3>3
  <2>4. parse_op_shl(c, b) \in Int /\ parse_op_shr(c, b) \in Int /\ parse_op_shra(c, b) \in Int
    BY <2>2, <2>3 DEF parse_op_shl, parse_op_shr, parse_op_shra
  <2> QED
    BY <1>7, <2>4 DEF Binary, UBinary, SBinary
<1> QED
  BY <1>2, <1>3, <1>4, <1>5, <1>6, <1>7 DEF BinaryOps, UBinary

(* A register that is looked up is in the table.                           *)
LEMMA Registers27 == NUM_REGISTERS = 27 /\ REGISTER = 0 .. 26
BY DEF NUM_REGISTERS, REGISTER, registerAbbr

LEMMA LookupFinds ==
  ASSUME NEW table, NEW x
  PROVE  Lookup(table, x) \in REGISTER
<1>1. CASE \E k \in 1 .. NUM_REGISTERS : table[k] = x
  <2> DEFINE S == {k \in 1 .. NUM_REGISTERS : table[k] = x}
  <2>1. S \subseteq Nat /\ S # {}
    BY <1>1, Registers27
  <2>2. PICK k \in S : \A m \in S : k <= m
    <3> HIDE DEF S
    <3> QED
      BY <2>1, LeastNatural
  <2>3. k \in 1 .. NUM_REGISTERS /\ table[k] = x /\ \A j \in 1 .. k - 1 : table[j] # x
    BY <2>2, Registers27
  <2> DEFINE First == CHOOSE k_1 \in 1 .. NUM_REGISTERS : table[k_1] = x /\ \A j \in 1 .. k_1 - 1 : table[j] # x
  <2>4. First \in 1 .. NUM_REGISTERS
    BY <2>3
  <2>5. Lookup(table, x) = First - 1
    BY <1>1 DEF Lookup
  <2> HIDE DEF First
  <2> QED
    BY <2>4, <2>5, Registers27
<1>2. CASE ~\E k \in 1 .. NUM_REGISTERS : table[k] = x
  BY <1>2, Registers27 DEF Lookup, NO_SUCH_REGISTER
<1> QED
  BY <1>1, <1>2
-----------------------------------------------------------------------------
(***************************************************************************)
(* The registers.  The last write that was carried out is still what its   *)
(* name stands for.                                                        *)
(***************************************************************************)
HeldBy(w, g) ==
  w.mode \in {"s", "d"} =>
    /\ w.arg # Absent
    /\ \E r \in Named(w.mode, w.arg, BaseWrite) \ {NO_SUCH_REGISTER} :
         r \in REGISTER /\ g[r] = w.value

RegistersInv == RegistersTypeOK /\ HeldBy(wrote, regs)

LEMMA RegistersInitially == RegistersInit => RegistersInv
<1> SUFFICES ASSUME RegistersInit PROVE RegistersInv
  OBVIOUS
<1>1. \A r \in REGISTER : Word(r) \in UWORD
  <2>1. REGISTER \subseteq Int
    BY Registers27
  <2> QED
    BY <2>1, Words
<1>2. regs \in [REGISTER -> UWORD]
  BY <1>1 DEF RegistersInit
<1>3. reply \in [is: {"refused", "done", "value", "all"}, value: UWORD]
  BY Words DEF RegistersInit, Done
<1>4. wrote = None /\ None \in [mode: {"none", "s", "d"}, arg: Args \cup {Absent}, value: UWORD]
  BY Words DEF RegistersInit, None
<1>5. HeldBy(wrote, regs)
  BY <1>4 DEF HeldBy, None
<1> QED
  BY <1>2, <1>3, <1>4, <1>5 DEF RegistersInv, RegistersTypeOK, RegistersInit

(* A write that the debuggee takes.                                        *)
LEMMA WriteIsHeld ==
  ASSUME RegistersTypeOK, NEW mode, NEW arg \in Args, NEW value \in Values, arg # Absent,
         NEW r \in Named(mode, arg, BaseWrite) \ {NO_SUCH_REGISTER},
         set_reg_value(r, Word(strtoll(value))),
         wrote' = IF mode \in {"s", "d"}
                  THEN [mode |-> mode, arg |-> arg, value |-> Word(strtoll(value))] ELSE None
  PROVE  /\ regs' \in [REGISTER -> UWORD]
         /\ wrote' \in [mode: {"none", "s", "d"}, arg: Args \cup {Absent}, value: UWORD]
         /\ HeldBy(wrote', regs')
<1> DEFINE v == Word(strtoll(value))
<1>1. v \in UWORD
  <2>1. value.sign \in {1, -1} /\ value.digits \in Seq(Nat)
    BY TokensAssumption
  <2>2. strtol(value, 10) \in Int
    BY <2>1, TokenValues
  <2>3. strtoll(value) \in Int
    BY <2>2, Words DEF strtoll
  <2> QED
    BY <2>3, Words
<1>2. wrote' = IF mode \in {"s", "d"} THEN [mode |-> mode, arg |-> arg, value |-> v] ELSE None
  OBVIOUS
<1>3. regs' = IF get_register(r) THEN [regs EXCEPT ![r] = v] ELSE regs
  BY DEF set_reg_value
<1> HIDE DEF v
<1>4. regs \in [REGISTER -> UWORD]
  BY DEF RegistersTypeOK
<1>5. regs' \in [REGISTER -> UWORD]
  BY <1>1, <1>3, <1>4
<1>6. None \in [mode: {"none", "s", "d"}, arg: Args \cup {Absent}, value: UWORD]
  BY Words DEF None
<1>7. wrote' \in [mode: {"none", "s", "d"}, arg: Args \cup {Absent}, value: UWORD]
  BY <1>1, <1>2, <1>6
<1>8. CASE mode \in {"s", "d"}
  <2>1. wrote'.mode = mode /\ wrote'.arg = arg /\ wrote'.value = v
    BY <1>2, <1>8
  <2>2. r \in REGISTER
    <3>1. CASE mode = "s"
      <4>1. r = abbr_to_reg(arg)
        BY <3>1 DEF Named
      <4> QED
        BY <4>1, LookupFinds DEF abbr_to_reg
    <3>2. CASE mode = "d"
      <4>1. r = DW_to_reg(strtol(arg, BaseWrite))
        BY <3>2 DEF Named
      <4> QED
        BY <4>1, LookupFinds DEF DW_to_reg
    <3> QED
      BY <1>8, <3>1, <3>2
  <2>3. regs'[r] = v
    BY <1>3, <1>4, <2>2 DEF get_register
  <2> QED
    BY <1>5, <1>7, <2>1, <2>2, <2>3 DEF HeldBy
<1>9. CASE mode \notin {"s", "d"}
  <2>1. wrote' = None
    BY <1>2, <1>9
  <2>2. HeldBy(wrote', regs')
    BY <2>1 DEF HeldBy, None
  <2> QED
    BY <1>5, <1>7, <2>2
<1> QED
  BY <1>8, <1>9

LEMMA CommandKeepsRegisters ==
  ASSUME RegistersInv, RegisterCommand
  PROVE  RegistersInv'
<1> PICK action \in Options, mode \in Options, arg \in Args, value \in Values :
      handle_register(action, mode, arg, value)
  BY DEF RegisterCommand
<1> DEFINE m == match_register_option(mode)
           Replies == [is: {"refused", "done", "value", "all"}, value: UWORD]
           Writes == [mode: {"none", "s", "d"}, arg: Args \cup {Absent}, value: UWORD]
<1>1. /\ regs \in [REGISTER -> UWORD] /\ alive \in {"yes", "no"}
      /\ reply \in Replies /\ wrote \in Writes /\ HeldBy(wrote, regs)
  BY DEF RegistersInv, RegistersTypeOK
<1>2. Refused \in Replies /\ Done \in Replies /\ print_registers \in Replies
  BY Words DEF Refused, Done, print_registers
<1>3. None \in Writes /\ \A g : HeldBy(None, g)
  BY Words DEF None, HeldBy
<1> SUFFICES /\ regs' \in [REGISTER -> UWORD] /\ alive' \in {"yes", "no"}
             /\ reply' \in Replies /\ wrote' \in Writes /\ HeldBy(wrote', regs')
  BY DEF RegistersInv, RegistersTypeOK
<1>4. CASE reply' = Refused /\ UNCHANGED <<regs, alive, wrote>>
  BY <1>1, <1>2, <1>4
<1>5. CASE ReadRegister(m, arg) /\ UNCHANGED alive
  <2>1. reply' \in Replies
    <3>1. ASSUME NEW r, get_register(r) PROVE [is |-> "value", value |-> regs[r]] \in Replies
      BY <1>1, <3>1 DEF get_register
    <3> HIDE DEF Replies
    <3> QED
      BY <1>2, <1>5, <3>1 DEF ReadRegister
  <2> QED
    BY <1>1, <1>5, <2>1 DEF ReadRegister
<1>6. CASE WriteRegister(m, arg, value)
  <2>1. CASE reply' = Refused /\ UNCHANGED <<regs, alive, wrote>>
    BY <1>4, <2>1
  <2>2. CASE /\ arg # Absent /\ reply' = Done
             /\ \E r \in Named(m, arg, BaseWrite) \ {NO_SUCH_REGISTER} :
                  \/ /\ set_reg_value(r, Word(strtoll(value)))
                     /\ wrote' = IF m \in {"s", "d"}
                                 THEN [mode |-> m, arg |-> arg, value |-> Word(strtoll(value))] ELSE None
                     /\ UNCHANGED alive
                  \/ alive' = "no" /\ wrote' = None /\ UNCHANGED regs
                  \/ r \in Checked /\ wrote' = None /\ UNCHANGED <<regs, alive>>
    <3> HIDE DEF m
    <3> PICK r \in Named(m, arg, BaseWrite) \ {NO_SUCH_REGISTER} :
                  \/ /\ set_reg_value(r, Word(strtoll(value)))
                     /\ wrote' = IF m \in {"s", "d"}
                                 THEN [mode |-> m, arg |-> arg, value |-> Word(strtoll(value))] ELSE None
                     /\ UNCHANGED alive
                  \/ alive' = "no" /\ wrote' = None /\ UNCHANGED regs
                  \/ r \in Checked /\ wrote' = None /\ UNCHANGED <<regs, alive>>
      BY <2>2
    <3>1. CASE /\ set_reg_value(r, Word(strtoll(value)))
               /\ wrote' = IF m \in {"s", "d"}
                           THEN [mode |-> m, arg |-> arg, value |-> Word(strtoll(value))] ELSE None
               /\ UNCHANGED alive
      <4>1. /\ regs' \in [REGISTER -> UWORD] /\ wrote' \in Writes /\ HeldBy(wrote', regs')
        BY <2>2, <3>1, WriteIsHeld DEF RegistersInv
      <4> QED
        BY <1>1, <1>2, <2>2, <3>1, <4>1
    <3>2. CASE alive' = "no" /\ wrote' = None /\ UNCHANGED regs
      BY <1>1, <1>2, <1>3, <2>2, <3>2
    <3>3. CASE r \in Checked /\ wrote' = None /\ UNCHANGED <<regs, alive>>
      BY <1>1, <1>2, <1>3, <2>2, <3>3
    <3> QED
      BY <3>1, <3>2, <3>3
  <2> QED
    BY <1>6, <2>1, <2>2 DEF WriteRegister
<1> QED
  BY <1>4, <1>5, <1>6 DEF handle_register

LEMMA KillKeepsRegisters ==
  ASSUME RegistersInv, Killed
  PROVE  RegistersInv'
BY DEF RegistersInv, RegistersTypeOK, Killed
-----------------------------------------------------------------------------
(***************************************************************************)
(* One operation: what it leaves on the stack are words, and no more of    *)
(* them than the stack has room for.                                       *)
(***************************************************************************)
StackOK(s) == s \in Seq(UWORD) /\ Len(s) <= StackSize
OutcomeOK(out) == StackOK(out.stack) /\ out.skip \in Int

LEMMA OutcomesOfGoes ==
  ASSUME NEW s, StackOK(s), NEW b \in Int, NEW out \in Goes(s, b)
  PROVE  OutcomeOK(out)
BY DEF OutcomeOK, Goes

LEMMA OutcomesOfErrors ==
  ASSUME StackOK(stack), NEW out \in Fails \cup Crashes
  PROVE  OutcomeOK(out)
BY DEF OutcomeOK, Fails, Crashes

LEMMA Appended ==
  ASSUME NEW s \in Seq(UWORD), Len(s) < StackSize, NEW v \in UWORD
  PROVE  StackOK(Append(s, v)) /\ Len(Append(s, v)) = Len(s) + 1
<1>1. Append(s, v) \in Seq(UWORD) /\ Len(Append(s, v)) = Len(s) + 1 /\ Len(s) \in Nat
  BY AppendProperties
<1>2. StackSize \in Nat
  BY ScenariosAssumption
<1> QED
  BY <1>1, <1>2 DEF StackOK

LEMMA OutcomesOfPush ==
  ASSUME StackOK(stack), NEW v \in UWORD, NEW out \in push_expr_tkn(stack, v)
  PROVE  OutcomeOK(out)
<1>1. CASE Len(stack) = StackSize
  BY <1>1, OutcomesOfErrors DEF push_expr_tkn
<1>2. CASE Len(stack) # StackSize
  <2>1. Len(stack) < StackSize /\ stack \in Seq(UWORD)
    BY <1>2, ScenariosAssumption DEF StackOK
  <2>2. StackOK(Append(stack, v))
    BY <2>1, Appended
  <2>3. out \in Goes(Append(stack, v), 0)
    BY <1>2 DEF push_expr_tkn
  <2> QED
    BY <2>2, <2>3, OutcomesOfGoes
<1> QED
  BY <1>1, <1>2

(* The stack without its topmost values, and they themselves.              *)
LEMMA PoppedStack ==
  ASSUME StackOK(stack), NEW n \in Nat, n <= Len(stack)
  PROVE  /\ StackOK(Popped(n)) /\ Len(Popped(n)) = Len(stack) - n
         /\ \A k \in 1 .. n : Top(k) \in UWORD
<1>1. stack \in Seq(UWORD) /\ Len(stack) \in Nat /\ StackSize \in Nat /\ Len(stack) <= StackSize
  BY ScenariosAssumption DEF StackOK
<1>2. Popped(n) \in Seq(UWORD) /\ Len(Popped(n)) = Len(stack) - n
  BY <1>1 DEF Popped
<1>3. \A k \in 1 .. n : Top(k) \in UWORD
  BY <1>1 DEF Top
<1> QED
  BY <1>1, <1>2, <1>3 DEF StackOK

(* The values that are pushed.                                             *)
LEMMA PushedValues ==
  ASSUME RegistersTypeOK, NEW o \in Operation, o.op \in Pushes, NEW v \in Pushed(o)
  PROVE  v \in Int
<1>1. o.a \in Int
  BY DEF Operation
<1>2. /\ Frame.frame_base \in Int /\ Frame.load_address \in Int
      /\ Frame.caller_sp \in Int /\ Frame.obj_addr \in Int
  BY ScenariosAssumption
<1>3. \A w \in UWORD : w \in Int
  BY Words
<1>4. \A r \in REGISTER : regs[r] \in UWORD
  BY DEF RegistersTypeOK
<1>5. o.a + Frame.load_address \in Int /\ o.a + Frame.frame_base \in Int
  BY <1>1, <1>2
<1>6. CASE o.op \in {"const", "lit", "deref_size", "reg", "regx"}
  BY <1>1, <1>6 DEF Pushed
<1>7. CASE o.op \in {"addr", "fbreg", "push_object_address", "call_frame_cfa"}
  BY <1>2, <1>5, <1>7 DEF Pushed
<1>8. CASE o.op = "breg"
  <2>1. PICK r \in {o.a} \cap REGISTER : v = regs[r]
    BY <1>8 DEF Pushed
  <2> QED
    BY <1>3, <1>4, <2>1
<1>9. CASE o.op = "bregx"
  <2>1. v \in UWORD
    BY <1>9 DEF Pushed
  <2> QED
    BY <1>3, <2>1
<1> QED
  BY <1>6, <1>7, <1>8, <1>9 DEF Pushes

(* What is computed from the topmost n values takes their place.           *)
LEMMA OutcomesOfResult ==
  ASSUME StackOK(stack), NEW n \in Nat \ {0}, n <= Len(stack), NEW v \in UWORD,
         NEW out \in Goes(Append(Popped(n), v), 0)
  PROVE  OutcomeOK(out)
<1>1. StackOK(Popped(n)) /\ Len(Popped(n)) = Len(stack) - n
  BY PoppedStack
<1>2. Popped(n) \in Seq(UWORD) /\ Len(Popped(n)) < StackSize
  BY <1>1, ScenariosAssumption DEF StackOK
<1>3. StackOK(Append(Popped(n), v))
  BY <1>2, Appended
<1> QED
  BY <1>3, OutcomesOfGoes

LEMMA Outcomes ==
  ASSUME RegistersTypeOK, StackOK(stack), NEW o \in Operation, NEW out \in parse_opcode(o)
  PROVE  OutcomeOK(out)
<1> DEFINE n == Len(stack)
<1>1. stack \in Seq(UWORD) /\ n \in Nat /\ n <= StackSize /\ StackSize \in Nat
  BY ScenariosAssumption DEF StackOK
<1>2. o.a \in Int /\ (o.op = "pick" => o.a >= 0)
  BY DEF Operation
<1>3. ASSUME out \in Fails \cup Crashes PROVE OutcomeOK(out)
  BY <1>3, OutcomesOfErrors
<1>4. ASSUME NEW k \in Nat, k <= n PROVE StackOK(Popped(k))
  BY <1>4, PoppedStack
<1>5. CASE o.op \in Pushes
  <2>0. /\ o.op \notin UnaryOps /\ o.op \notin BinaryOps
        /\ o.op \notin {"deref", "dup", "drop", "over", "pick", "swap", "rot", "skip", "bra",
                        "nop", "stack_value", "implicit_value", "implicit_pointer"}
    BY <1>5 DEF UnaryOps, Pushes, BinaryOps, UBinary, SBinary
  <2>a. out \in IF Pushed(o) = {} THEN Fails ELSE UNION {push_expr_tkn(stack, Word(v)) : v \in Pushed(o)}
    BY <1>5, <2>0, Zenon DEF parse_opcode
  <2>1. CASE Pushed(o) = {}
    BY <1>3, <2>a, <2>1
  <2>2. CASE Pushed(o) # {}
    <3>1. out \in UNION {push_expr_tkn(stack, Word(v)) : v \in Pushed(o)}
      BY <2>a, <2>2, Zenon
    <3>2. PICK v \in Pushed(o) : out \in push_expr_tkn(stack, Word(v))
      BY <3>1
    <3>3. Word(v) \in UWORD
      BY <1>5, PushedValues, Words
    <3> QED
      BY <3>2, <3>3, OutcomesOfPush
  <2> QED
    BY <2>1, <2>2
<1>6. CASE o.op \in UnaryOps
  <2>1. out \in Pops(1, Goes(Append(Popped(1), Word(Unary(o.op, o.a, Top(1)))), 0))
    BY <1>6 DEF parse_opcode, UnaryOps, Pushes, BinaryOps, UBinary, SBinary
  <2>2. CASE n < 1
    BY <1>3, <2>1, <2>2 DEF Pops
  <2>3. CASE n >= 1
    <3>1. Top(1) \in UWORD
      BY <1>1, <2>3, PoppedStack
    <3>2. Word(Unary(o.op, o.a, Top(1))) \in UWORD
      BY <1>2, <1>6, <3>1, UnaryValues, Words
    <3>3. out \in Goes(Append(Popped(1), Word(Unary(o.op, o.a, Top(1)))), 0)
      BY <1>1, <2>1, <2>3 DEF Pops
    <3> QED
      BY <2>3, <3>2, <3>3, OutcomesOfResult
  <2> QED
    BY <1>1, <2>2, <2>3
<1>7. CASE o.op \in BinaryOps
  <2>1. out \in Pops(2, IF Traps(o.op, Top(2), Top(1)) THEN Crashes
                        ELSE Goes(Append(Popped(2), Word(Binary(o.op, Top(2), Top(1)))), 0))
    BY <1>7 DEF parse_opcode, UnaryOps, Pushes, BinaryOps, UBinary, SBinary
  <2>2. CASE n < 2 \/ Traps(o.op, Top(2), Top(1))
    BY <1>3, <2>1, <2>2 DEF Pops
  <2>3. CASE n >= 2 /\ ~Traps(o.op, Top(2), Top(1))
    <3>1. Top(1) \in UWORD /\ Top(2) \in UWORD
      BY <1>1, <2>3, PoppedStack
    <3>2. Word(Binary(o.op, Top(2), Top(1))) \in UWORD
      BY <1>7, <2>3, <3>1, BinaryValues, Words
    <3>3. out \in Goes(Append(Popped(2), Word(Binary(o.op, Top(2), Top(1)))), 0)
      BY <1>1, <2>1, <2>3 DEF Pops
    <3> QED
      BY <2>3, <3>2, <3>3, OutcomesOfResult
  <2> QED
    BY <1>1, <2>2, <2>3
<1> DEFINE Others == Pushes \cup UnaryOps \cup BinaryOps
<1>8. CASE o.op = "deref"
  <2>1. out \in parse_op_deref
    BY <1>8 DEF parse_opcode, UnaryOps, Pushes, BinaryOps, UBinary, SBinary
  <2>2. CASE out \in Fails
    BY <1>3, <2>2
  <2>3. CASE n >= 1 /\ Top(1) \in DOMAIN Memory /\ out \in Goes(Append(Popped(1), Memory[Top(1)]), 0)
    <3>1. Memory[Top(1)] \in UWORD
      BY <2>3, ScenariosAssumption
    <3> QED
      BY <2>3, <3>1, OutcomesOfResult
  <2> QED
    BY <1>1, <2>1, <2>2, <2>3 DEF parse_op_deref, Pops
<1>9. CASE o.op = "dup"
  <2>1. out \in Pops(1, push_expr_tkn(stack, Top(1)))
    BY <1>9 DEF parse_opcode, parse_op_dup, UnaryOps, Pushes, BinaryOps, UBinary, SBinary
  <2>2. CASE n < 1
    BY <1>3, <2>1, <2>2 DEF Pops
  <2>3. CASE n >= 1
    <3>1. Top(1) \in UWORD
      BY <1>1, <2>3, PoppedStack
    <3>2. out \in push_expr_tkn(stack, Top(1))
      BY <1>1, <2>1, <2>3 DEF Pops
    <3> QED
      BY <3>1, <3>2, OutcomesOfPush
  <2> QED
    BY <1>1, <2>2, <2>3
<1>10. CASE o.op = "drop"
  <2>1. out \in Pops(1, Goes(Popped(1), 0))
    BY <1>10 DEF parse_opcode, UnaryOps, Pushes, BinaryOps, UBinary, SBinary
  <2>2. CASE n < 1
    BY <1>3, <2>1, <2>2 DEF Pops
  <2>3. CASE n >= 1
    BY <1>1, <1>4, <2>1, <2>3, OutcomesOfGoes DEF Pops
  <2> QED
    BY <1>1, <2>2, <2>3
<1>11. CASE o.op \in {"over", "pick"}
  <2>1. PICK k \in Nat : out \in parse_op_pick(k)
    BY <1>2, <1>11 DEF parse_opcode, UnaryOps, Pushes, BinaryOps, UBinary, SBinary
  <2>2. CASE k >= n
    BY <1>3, <2>1, <2>2 DEF parse_op_pick
  <2>3. CASE k < n
    <3>1. Top(k + 1) \in UWORD
      BY <1>1, <2>3, PoppedStack
    <3>2. out \in push_expr_tkn(stack, Top(k + 1))
      BY <1>1, <2>1, <2>3 DEF parse_op_pick
    <3> QED
      BY <3>1, <3>2, OutcomesOfPush
  <2> QED
    BY <1>1, <2>2, <2>3
<1>12. CASE o.op = "swap"
  <2>1. out \in Pops(2, Goes(Popped(2) \o <<Top(1), Top(2)>>, 0))
    BY <1>12 DEF parse_opcode, parse_op_swap, UnaryOps, Pushes, BinaryOps, UBinary, SBinary
  <2>2. CASE n < 2
    BY <1>3, <2>1, <2>2 DEF Pops
  <2>3. CASE n >= 2
    <3>1. Popped(2) \in Seq(UWORD) /\ Len(Popped(2)) = n - 2 /\ Top(1) \in UWORD /\ Top(2) \in UWORD
      BY <1>1, <2>3, PoppedStack DEF StackOK
    <3>2. <<Top(1), Top(2)>> \in Seq(UWORD) /\ Len(<<Top(1), Top(2)>>) = 2
      BY <3>1
    <3>3. Popped(2) \o <<Top(1), Top(2)>> \in Seq(UWORD)
          /\ Len(Popped(2) \o <<Top(1), Top(2)>>) = n
      BY <1>1, <3>1, <3>2, ConcatProperties
    <3>4. out \in Goes(Popped(2) \o <<Top(1), Top(2)>>, 0)
      BY <1>1, <2>1, <2>3 DEF Pops
    <3>5. StackOK(Popped(2) \o <<Top(1), Top(2)>>)
      BY <1>1, <3>3 DEF StackOK
    <3> QED
      BY <3>4, <3>5, OutcomesOfGoes
  <2> QED
    BY <1>1, <2>2, <2>3
<1>13. CASE o.op = "rot"
  <2>1. out \in Pops(3, Goes(Popped(3) \o <<Top(1), Top(3), Top(2)>>, 0))
    BY <1>13 DEF parse_opcode, parse_op_rot, UnaryOps, Pushes, BinaryOps, UBinary, SBinary
  <2>2. CASE n < 3
    BY <1>3, <2>1, <2>2 DEF Pops
  <2>3. CASE n >= 3
    <3>1. /\ Popped(3) \in Seq(UWORD) /\ Len(Popped(3)) = n - 3
          /\ Top(1) \in UWORD /\ Top(2) \in UWORD /\ Top(3) \in UWORD
      BY <1>1, <2>3, PoppedStack DEF StackOK
    <3>2. <<Top(1), Top(3), Top(2)>> \in Seq(UWORD) /\ Len(<<Top(1), Top(3), Top(2)>>) = 3
      BY <3>1
    <3>3. Popped(3) \o <<Top(1), Top(3), Top(2)>> \in Seq(UWORD)
          /\ Len(Popped(3) \o <<Top(1), Top(3), Top(2)>>) = n
      BY <1>1, <3>1, <3>2, ConcatProperties
    <3>4. out \in Goes(Popped(3) \o <<Top(1), Top(3), Top(2)>>, 0)
      BY <1>1, <2>1, <2>3 DEF Pops
    <3>5. StackOK(Popped(3) \o <<Top(1), Top(3), Top(2)>>)
      BY <1>1, <3>3 DEF StackOK
    <3> QED
      BY <3>4, <3>5, OutcomesOfGoes
  <2> QED
    BY <1>1, <2>2, <2>3
<1>14. CASE o.op \in {"skip", "nop", "stack_value", "implicit_value", "implicit_pointer"}
  <2>1. \E b \in Int : out \in Goes(stack, b)
    BY <1>2, <1>14 DEF parse_opcode, UnaryOps, Pushes, BinaryOps, UBinary, SBinary
  <2> QED
    BY <2>1, OutcomesOfGoes
<1>15. CASE o.op = "bra"
  <2>1. out \in Pops(1, Goes(Popped(1), IF Top(1) # 0 THEN o.a ELSE 0))
    BY <1>15 DEF parse_opcode, parse_op_bra, UnaryOps, Pushes, BinaryOps, UBinary, SBinary
  <2>2. CASE n < 1
    BY <1>3, <2>1, <2>2 DEF Pops
  <2>3. CASE n >= 1
    BY <1>1, <1>2, <1>4, <2>1, <2>3, OutcomesOfGoes DEF Pops
  <2> QED
    BY <1>1, <2>2, <2>3
<1>16. CASE /\ o.op \notin Others
            /\ o.op \notin {"deref", "dup", "drop", "over", "pick", "swap", "rot", "skip", "bra",
                            "nop", "stack_value", "implicit_value", "implicit_pointer"}
  BY <1>3, <1>16 DEF parse_opcode
<1> QED
  BY <1>5, <1>6, <1>7, <1>8, <1>9, <1>10, <1>11, <1>12, <1>13, <1>14, <1>15, <1>16

(* The ends of a set of positions.                                         *)
LEMMA Least ==
  ASSUME NEW S, S \subseteq Nat, S # {}
  PROVE  Min(S) \in S /\ \A m \in S : Min(S) <= m
<1>1. \E n \in S : \A m \in S : n <= m
  BY LeastNatural
<1> QED
  BY <1>1 DEF Min

LEMMA Greatest ==
  ASSUME NEW n \in Nat, NEW S, S \subseteq 1 .. n, S # {}
  PROVE  Max(S) \in S /\ \A m \in S : m <= Max(S)
<1> DEFINE D == {n - m : m \in S}
<1>1. D \subseteq Nat /\ D # {}
  <2>1. \A m \in S : m \in 1 .. n
    OBVIOUS
  <2>2. \A m \in S : n - m \in Nat
    BY <2>1
  <2>3. PICK m \in S : TRUE
    OBVIOUS
  <2>4. n - m \in D
    OBVIOUS
  <2> QED
    BY <2>2, <2>4
<1>2. PICK d \in D : \A m \in D : d <= m
  <2> HIDE DEF D
  <2> QED
    BY <1>1, LeastNatural
<1>3. PICK g \in S : d = n - g
  BY <1>2
<1>4. ASSUME NEW m \in S PROVE m <= g
  <2>1. n - g <= n - m
    BY <1>2, <1>3
  <2>2. m \in Int /\ g \in Int
    BY <1>3
  <2> QED
    BY <2>1, <2>2
<1>5. g \in S /\ \A m \in S : g >= m
  <2>1. \A m \in S : m \in Int /\ g \in Int
    BY <1>3
  <2> QED
    BY <1>3, <1>4, <2>1
<1>6. Max(S) \in S /\ \A m \in S : Max(S) >= m
  BY <1>5 DEF Max
<1>7. \A m \in S : m \in Int
  OBVIOUS
<1> QED
  BY <1>6, <1>7

LEMMA Landings ==
  ASSUME NEW skip \in Int, i \in Nat \ {0}, Len(expr) \in Nat, i <= Len(expr)
  PROVE  Landing(skip) \in Nat \ {0}
<1> DEFINE F == {j \in i .. Len(expr) : Behind(j) >= skip \/ j = Len(expr)}
           B == {j \in 1 .. i : Behind(j) <= Dwarf_Unsigned(skip) \/ j = 1}
<1>1. F \subseteq Nat /\ Len(expr) \in F /\ \A j \in F : j # 0
  OBVIOUS
<1>2. B \subseteq 1 .. i /\ 1 \in B
  OBVIOUS
<1>3. Landing(skip) = IF skip > 0 THEN Min(F) ELSE Max(B)
  BY DEF Landing
<1> HIDE DEF F, B
<1>4. Min(F) \in F /\ Max(B) \in B
  BY <1>1, <1>2, Least, Greatest
<1>5. Min(F) \in Nat /\ Min(F) # 0
  BY <1>1, <1>4
<1>6. Max(B) \in Nat /\ Max(B) # 0
  <2>1. Max(B) \in 1 .. i
    BY <1>2, <1>4
  <2> QED
    BY <2>1
<1> QED
  BY <1>3, <1>5, <1>6
-----------------------------------------------------------------------------
(***************************************************************************)
(* The evaluation.  While the loop over the entries looks at entry i, none *)
(* before it has the pc; what is run is the expression of the first entry  *)
(* that has it, if there is one.                                           *)
(***************************************************************************)
HasPc(e, g) == LET p == Word(g[rip] - Frame.load_address) IN e.lo <= p /\ e.hi >= p

FirstWithPc(l, k, g) == HasPc(l[k], g) /\ \A j \in 1 .. k - 1 : ~HasPc(l[j], g)

EntryInv ==
  /\ at = "prompt" => i = 1
  /\ at = "entry" => \A j \in DOMAIN locs : j < i => ~HasPc(locs[j], regs)
  /\ at = "run" => \A k \in DOMAIN locs : FirstWithPc(locs, k, regs) => expr = locs[k].expr

ListInv ==
  /\ \E s \in Scenarios : locs = s.locs
  /\ expr = <<>> \/ \E k \in DOMAIN locs : expr = locs[k].expr

LocInv == TypeOK /\ i # 0 /\ RegistersInv /\ ListInv /\ EntryInv

LEMMA CoversIsHasPc == \A e : Covers(e) <=> HasPc(e, regs)
BY DEF Covers, HasPc, pc

LEMMA Lists ==
  ASSUME ListInv
  PROVE  /\ locs \in Seq([lo: Nat, hi: Nat, expr: Seq(Operation)])
         /\ expr \in Seq(Operation)
<1>1. locs \in Seq([lo: Nat, hi: Nat, expr: Seq(Operation)])
  BY ScenariosAssumption DEF ListInv
<1>2. ASSUME NEW k \in DOMAIN locs PROVE locs[k].expr \in Seq(Operation)
  <2>1. locs[k] \in [lo: Nat, hi: Nat, expr: Seq(Operation)]
    <3> DEFINE R == [lo: Nat, hi: Nat, expr: Seq(Operation)]
    <3>1. locs \in Seq(R)
      BY <1>1
    <3> HIDE DEF R
    <3>2. locs[k] \in R
      BY <3>1
    <3> QED
      BY <3>2 DEF R
  <2> QED
    BY <2>1
<1>3. <<>> \in Seq(Operation)
  OBVIOUS
<1> QED
  BY <1>1, <1>2, <1>3 DEF ListInv

LEMMA LocInitially == LocInit => LocInv
<1> SUFFICES ASSUME LocInit PROVE LocInv
  OBVIOUS
<1>1. RegistersInv
  BY RegistersInitially DEF LocInit
<1>2. PICK s \in Scenarios : locs = s.locs /\ initial = s.initial /\ budget = s.commands
  BY DEF LocInit
<1>3. initial \in {0, 1} /\ budget \in Nat
  BY <1>2, ScenariosAssumption
<1>4. at = "prompt" /\ i = 1 /\ expr = <<>> /\ stack = <<>> /\ result = Done
  BY DEF LocInit
<1>5. stack \in Seq(UWORD) /\ Len(stack) <= StackSize
  BY <1>4, ScenariosAssumption
<1>6. result.is = "done" /\ result.value \in UWORD
  BY <1>4, Words DEF Done
<1>7. TypeOK
  BY <1>1, <1>3, <1>4, <1>5, <1>6 DEF TypeOK, RegistersInv
<1>8. ListInv
  BY <1>2, <1>4 DEF ListInv
<1>9. EntryInv
  BY <1>4 DEF EntryInv
<1> QED
  BY <1>1, <1>4, <1>7, <1>8, <1>9 DEF LocInv

(* The variables of the evaluation are left alone by the registers'.       *)
LEMMA EvaluationStands ==
  ASSUME LocInv, UNCHANGED evalVars, RegistersInv', regs' = regs \/ at = "prompt"
  PROVE  LocInv'
<1>1. TypeOK'
  BY DEF LocInv, TypeOK, RegistersInv, evalVars
<1>2. ListInv'
  BY DEF LocInv, ListInv, evalVars
<1>3. EntryInv'
  BY DEF LocInv, EntryInv, evalVars
<1> QED
  BY <1>1, <1>2, <1>3 DEF LocInv, evalVars

(* The evaluation comes to an end.                                         *)
LEMMA Returning ==
  ASSUME LocInv, NEW r, r.is \in {"done", "value", "error", "crash"}, r.value \in UWORD, Return(r),
         StackOK(stack'), UNCHANGED <<regVars, locs, initial, budget, i, expr>>
  PROVE  LocInv'
<1>1. RegistersInv'
  BY DEF LocInv, RegistersInv, RegistersTypeOK, regVars
<1>2. TypeOK'
  BY <1>1 DEF LocInv, TypeOK, RegistersInv, Return, StackOK
<1>3. ListInv'
  BY DEF LocInv, ListInv
<1>4. EntryInv'
  BY DEF LocInv, EntryInv, Return
<1> QED
  BY <1>1, <1>2, <1>3, <1>4 DEF LocInv

LEMMA Errors ==
  /\ ErrorResult.is = "error" /\ ErrorResult.value \in UWORD
  /\ Crash.is = "crash" /\ Crash.value \in UWORD
BY Words DEF ErrorResult, Crash

LEMMA CommandKeeps == ASSUME LocInv, Command PROVE LocInv'
<1>1. RegistersInv'
  BY CommandKeepsRegisters DEF LocInv, Command
<1>2. budget' \in Nat /\ UNCHANGED <<locs, initial, at, i, expr, stack, result>> /\ at = "prompt"
  BY DEF LocInv, TypeOK, Command
<1>3. TypeOK'
  BY <1>1, <1>2 DEF LocInv, TypeOK, RegistersInv
<1>4. ListInv'
  BY <1>2 DEF LocInv, ListInv
<1>5. EntryInv'
  BY <1>2 DEF LocInv, EntryInv
<1> QED
  BY <1>1, <1>2, <1>3, <1>4, <1>5 DEF LocInv

LEMMA KillKeeps == ASSUME LocInv, Killed, UNCHANGED evalVars PROVE LocInv'
BY KillKeepsRegisters, EvaluationStands DEF LocInv, Killed

LEMMA LibdwarfFailsKeeps == ASSUME LocInv, LibdwarfFails PROVE LocInv'
<1>1. StackOK(stack')
  BY DEF LocInv, TypeOK, LibdwarfFails, StackOK
<1> QED
  BY <1>1, Errors, Returning DEF LibdwarfFails

LEMMA LocateKeeps == ASSUME LocInv, Locate PROVE LocInv'
<1>1. CASE alive = "no"
  <2>1. StackOK(stack') /\ Return(ErrorResult)
    BY <1>1 DEF LocInv, TypeOK, Locate, StackOK
  <2> QED
    BY <2>1, Errors, Returning DEF Locate
<1>2. CASE /\ alive = "yes" /\ at' = "entry"
           /\ stack' = IF initial # 0 THEN <<initial>> ELSE <<>>
           /\ UNCHANGED result
  <2>1. UNCHANGED <<regVars, locs, initial, budget, i, expr>> /\ at = "prompt"
    BY DEF Locate
  <2>2. RegistersInv'
    BY <2>1 DEF LocInv, RegistersInv, RegistersTypeOK, regVars
  <2>3. initial \in UWORD
    BY Words DEF LocInv, TypeOK
  <2>4. StackOK(stack')
    BY <1>2, <2>3, ScenariosAssumption DEF StackOK
  <2>5. TypeOK'
    BY <1>2, <2>1, <2>2, <2>4 DEF LocInv, TypeOK, RegistersInv, StackOK
  <2>6. ListInv'
    BY <2>1 DEF LocInv, ListInv
  <2>7. EntryInv'
    <3>1. i' = 1 /\ at' = "entry" /\ locs' = locs
      BY <1>2, <2>1 DEF LocInv, EntryInv
    <3>2. \A j \in DOMAIN locs : ~(j < 1)
      BY Lists DEF LocInv
    <3> QED
      BY <3>1, <3>2 DEF EntryInv
  <2> QED
    BY <2>1, <2>2, <2>5, <2>6, <2>7 DEF LocInv
<1> QED
  BY <1>1, <1>2 DEF Locate

LEMMA ChooseEntryKeeps == ASSUME LocInv, ChooseEntry PROVE LocInv'
<1>1. at = "entry" /\ UNCHANGED <<regVars, locs, initial, budget, stack, result>>
  BY DEF ChooseEntry
<1>2. RegistersInv'
  BY <1>1 DEF LocInv, RegistersInv, RegistersTypeOK, regVars
<1>3. Len(locs) \in Nat /\ DOMAIN locs = 1 .. Len(locs) /\ i \in Nat \ {0} /\ regs' = regs
  BY <1>1, Lists DEF LocInv, TypeOK, regVars
<1>4. \A j \in DOMAIN locs : j < i => ~HasPc(locs[j], regs)
  BY <1>1 DEF LocInv, EntryInv
<1>5. ASSUME at' \in {"entry", "run"}, i' \in Nat \ {0} PROVE TypeOK'
  BY <1>1, <1>2, <1>5 DEF LocInv, TypeOK, RegistersInv
<1>6. CASE i <= Len(locs) /\ expr' = locs[i].expr /\ Covers(locs[i]) /\ at' = "run" /\ i' = 1
  <2>1. i \in DOMAIN locs
    BY <1>3, <1>6
  <2>2. ListInv'
    BY <1>1, <1>6, <2>1 DEF LocInv, ListInv
  <2>3. HasPc(locs[i], regs)
    BY <1>6, CoversIsHasPc
  <2>4. ASSUME NEW k \in DOMAIN locs, FirstWithPc(locs, k, regs) PROVE k = i
    <3>1. HasPc(locs[k], regs) /\ \A j \in 1 .. k - 1 : ~HasPc(locs[j], regs)
      BY <2>4 DEF FirstWithPc
    <3>2. ~(k < i)
      BY <1>4, <3>1
    <3>3. ~(i < k)
      BY <1>3, <2>3, <3>1
    <3> QED
      BY <1>3, <3>2, <3>3
  <2>5. EntryInv'
    BY <1>1, <1>3, <1>6, <2>4 DEF EntryInv
  <2> QED
    BY <1>2, <1>5, <1>6, <2>2, <2>5 DEF LocInv
<1>7. CASE i <= Len(locs) /\ expr' = locs[i].expr /\ ~Covers(locs[i]) /\ at' = at /\ i' = i + 1
  <2>1. i \in DOMAIN locs
    BY <1>3, <1>7
  <2>2. ListInv'
    BY <1>1, <1>7, <2>1 DEF LocInv, ListInv
  <2>3. ~HasPc(locs[i], regs)
    BY <1>7, CoversIsHasPc
  <2>4. \A j \in DOMAIN locs : j < i + 1 => ~HasPc(locs[j], regs)
    BY <1>3, <1>4, <2>3
  <2>5. EntryInv'
    BY <1>1, <1>3, <1>7, <2>4 DEF EntryInv
  <2>6. i' \in Nat \ {0} /\ at' = "entry"
    BY <1>1, <1>3, <1>7
  <2> QED
    BY <1>2, <1>5, <2>2, <2>5, <2>6 DEF LocInv
<1>8. CASE i > Len(locs) /\ at' = "run" /\ i' = 1 /\ expr' = expr
  <2>1. ListInv'
    BY <1>1, <1>8 DEF LocInv, ListInv
  <2>2. \A k \in DOMAIN locs : ~HasPc(locs[k], regs)
    BY <1>3, <1>4, <1>8
  <2>3. EntryInv'
    BY <1>1, <1>3, <1>8, <2>2 DEF EntryInv, FirstWithPc
  <2> QED
    BY <1>2, <1>5, <1>8, <2>1, <2>3 DEF LocInv
<1> QED
  BY <1>6, <1>7, <1>8 DEF ChooseEntry

LEMMA EndOfExprKeeps == ASSUME LocInv, EndOfExpr PROVE LocInv'
<1> DEFINE r == IF stack = <<>> THEN ErrorResult ELSE [is |-> "value", value |-> Top(1)]
<1>1. Return(r) /\ UNCHANGED <<regVars, locs, initial, budget, i, expr>>
  BY DEF EndOfExpr
<1>2. StackOK(stack) /\ stack \in Seq(UWORD)
  BY DEF LocInv, TypeOK, StackOK
<1>3. CASE stack = <<>>
  <2>1. r = ErrorResult /\ StackOK(stack')
    BY <1>2, <1>3 DEF EndOfExpr
  <2> HIDE DEF r
  <2> QED
    BY <1>1, <2>1, Errors, Returning
<1>4. CASE stack # <<>>
  <2>1. 1 <= Len(stack)
    BY <1>2, <1>4
  <2>2. StackOK(Popped(1)) /\ Top(1) \in UWORD
    BY <1>2, <2>1, PoppedStack
  <2>3. StackOK(stack')
    BY <1>4, <2>2 DEF EndOfExpr
  <2>4. r.is = "value" /\ r.value \in UWORD
    BY <1>4, <2>2
  <2> HIDE DEF r
  <2> QED
    BY <1>1, <2>3, <2>4, Returning
<1> QED
  BY <1>3, <1>4

LEMMA RunOpKeeps == ASSUME LocInv, RunOp PROVE LocInv'
<1>1. at = "run" /\ i <= Len(expr) /\ UNCHANGED <<regVars, locs, initial, budget, expr>>
  BY DEF RunOp
<1>2. PICK out \in parse_opcode(expr[i]) :
       \/ /\ out.res = "next"
          /\ stack' = out.stack
          /\ i' = IF out.skip = 0 THEN i + 1 ELSE Landing(out.skip)
          /\ UNCHANGED <<at, result>>
       \/ out.res = "error" /\ Return(ErrorResult) /\ UNCHANGED <<i, stack>>
       \/ out.res = "crash" /\ Return(Crash) /\ UNCHANGED <<i, stack>>
  BY DEF RunOp
<1>3. StackOK(stack) /\ RegistersTypeOK /\ i \in Nat \ {0}
  BY DEF LocInv, TypeOK, StackOK
<1>4. CASE /\ stack' = out.stack
           /\ i' = IF out.skip = 0 THEN i + 1 ELSE Landing(out.skip)
           /\ UNCHANGED <<at, result>>
  <2>1. expr \in Seq(Operation) /\ Len(expr) \in Nat
    BY Lists DEF LocInv
  <2>2. expr[i] \in Operation
    BY <1>1, <1>3, <2>1
  <2>3. OutcomeOK(out)
    BY <1>3, <2>2, Outcomes
  <2>4. i' \in Nat \ {0}
    <3>1. i + 1 \in Nat \ {0} /\ Landing(out.skip) \in Nat \ {0}
      <4>1. out.skip \in Int
        BY <2>3 DEF OutcomeOK
      <4>2. Landing(out.skip) \in Nat \ {0}
        BY <1>1, <1>3, <2>1, <4>1, Landings
      <4>3. i + 1 \in Nat \ {0}
        BY <1>3
      <4> QED
        BY <4>2, <4>3
    <3> QED
      BY <1>4, <3>1
  <2>5. stack' \in Seq(UWORD) /\ Len(stack') <= StackSize
    BY <1>4, <2>3 DEF OutcomeOK, StackOK
  <2>6. RegistersInv'
    BY <1>1 DEF LocInv, RegistersInv, RegistersTypeOK, regVars
  <2>7. TypeOK'
    BY <1>1, <1>4, <2>4, <2>5, <2>6 DEF LocInv, TypeOK, RegistersInv
  <2>8. ListInv'
    BY <1>1 DEF LocInv, ListInv
  <2>9. EntryInv'
    BY <1>1, <1>4 DEF LocInv, EntryInv, regVars
  <2> QED
    BY <2>4, <2>6, <2>7, <2>8, <2>9 DEF LocInv
<1>5. CASE (Return(ErrorResult) \/ Return(Crash)) /\ UNCHANGED <<i, stack>>
  <2>1. StackOK(stack')
    BY <1>3, <1>5
  <2> QED
    BY <1>1, <1>5, <2>1, Errors, Returning
<1> QED
  BY <1>2, <1>4, <1>5

(* The invariant of the evaluation holds throughout.                       *)
THEOREM LocInvariant == Spec => []LocInv
<1>1. LocInit => LocInv
  BY LocInitially
<1>2. LocInv /\ [Next]_vars => LocInv'
  <2> SUFFICES ASSUME LocInv, [Next]_vars PROVE LocInv'
    OBVIOUS
  <2>1. CASE Command
    BY <2>1, CommandKeeps
  <2>2. CASE Locate
    BY <2>2, LocateKeeps
  <2>3. CASE ChooseEntry
    BY <2>3, ChooseEntryKeeps
  <2>4. CASE RunOp
    BY <2>4, RunOpKeeps
  <2>5. CASE EndOfExpr
    BY <2>5, EndOfExprKeeps
  <2>6. CASE LibdwarfFails
    BY <2>6, LibdwarfFailsKeeps
  <2>7. CASE Killed /\ UNCHANGED evalVars
    BY <2>7, KillKeeps
  <2>8. CASE UNCHANGED vars
    <3>1. RegistersInv' /\ UNCHANGED evalVars /\ regs' = regs
      BY <2>8 DEF LocInv, RegistersInv, RegistersTypeOK, vars, regVars
    <3> QED
      BY <3>1, EvaluationStands
  <2> QED
    BY <2>1, <2>2, <2>3, <2>4, <2>5, <2>6, <2>7, <2>8 DEF Next, Evaluate
<1> QED
  BY <1>1, <1>2, PTL DEF Spec

(* TypeOK: registers and stack hold words, whatever is computed from them, *)
(* and the stack of evaluate_expr never has more than EXPR_STACK_SIZE.     *)
THEOREM TypesCorrect == Spec => []TypeOK
<1>1. LocInv => TypeOK
  BY DEF LocInv
<1> QED
  BY <1>1, LocInvariant, PTL

(* EntryCoversPc: of the entries that have the pc, the first is evaluated; *)
(* an entry that ends at the pc counts, which is why one is left out.      *)
THEOREM EntryCorrect == Spec => []EntryCoversPc
<1>1. LocInv => EntryCoversPc
  <2> SUFFICES ASSUME LocInv, NEW k \in DOMAIN locs, at = "run", Inside(k),
                      \A j \in 1 .. k - 1 : ~Inside(j) /\ locs[j].hi # pc
               PROVE  expr = locs[k].expr
    BY DEF EntryCoversPc
  <2>1. locs \in Seq([lo: Nat, hi: Nat, expr: Seq(Operation)])
    BY Lists DEF LocInv
  <2>2. pc \in Int
    <3>1. rip \in REGISTER
      BY LookupFinds DEF rip, abbr_to_reg
    <3>2. regs[rip] \in Int
      BY <3>1, Words DEF LocInv, TypeOK, RegistersTypeOK
    <3>3. regs[rip] - Frame.load_address \in Int
      BY <3>2, ScenariosAssumption
    <3> QED
      BY <3>3, Words DEF pc
  <2>3. \A j \in DOMAIN locs : locs[j].lo \in Int /\ locs[j].hi \in Int
    <3> DEFINE R == [lo: Nat, hi: Nat, expr: Seq(Operation)]
    <3>1. \A x \in R : x.lo \in Int /\ x.hi \in Int
      OBVIOUS
    <3>2. locs \in Seq(R)
      BY <2>1
    <3> HIDE DEF R
    <3> QED
      BY <3>1, <3>2
  <2>4. \A j \in DOMAIN locs : HasPc(locs[j], regs) <=> locs[j].lo <= pc /\ locs[j].hi >= pc
    BY DEF HasPc, pc
  <2> HIDE DEF pc
  <2>5. HasPc(locs[k], regs)
    BY <2>2, <2>3, <2>4 DEF Inside
  <2>6. ASSUME NEW j \in 1 .. k - 1 PROVE ~HasPc(locs[j], regs)
    <3>1. j \in DOMAIN locs
      BY <2>1
    <3>2. ~Inside(j) /\ locs[j].hi # pc
      OBVIOUS
    <3> QED
      BY <2>2, <2>3, <2>4, <3>1, <3>2 DEF Inside
  <2> QED
    BY <2>5, <2>6 DEF LocInv, EntryInv, FirstWithPc
<1> QED
  BY <1>1, LocInvariant, PTL

(* ReadsBack: what reg has written is what reg reads next under the same   *)
(* name or the same one-digit number, although the bases differ.           *)
THEOREM ReadsBackCorrect == Spec => ReadsBack
<1>1. LocInv /\ [Next]_vars => [alive = "yes" /\ wrote.mode \in {"s", "d"} /\ Len(wrote.arg.digits) <= 1
          /\ handle_register("read", wrote.mode, wrote.arg, Absent)
            => reply' = [is |-> "value", value |-> wrote.value]]_vars
  <2> SUFFICES ASSUME LocInv, alive = "yes", wrote.mode \in {"s", "d"}, Len(wrote.arg.digits) <= 1,
                      handle_register("read", wrote.mode, wrote.arg, Absent)
               PROVE  reply' = [is |-> "value", value |-> wrote.value]
    OBVIOUS
  <2> DEFINE m == wrote.mode
             t == wrote.arg
  <2>1. ReadRegister(m, t)
    BY DEF handle_register, match_register_option
  <2>2. PICK r \in Named(m, t, BaseWrite) \ {NO_SUCH_REGISTER} : r \in REGISTER /\ regs[r] = wrote.value
    BY DEF LocInv, RegistersInv, HeldBy
  <2>3. t # Absent
    BY DEF LocInv, RegistersInv, HeldBy
  <2>4. Named(m, t, BaseRead) = {r}
    <3>1. CASE m = "s"
      BY <2>2, <3>1 DEF Named
    <3>2. CASE m = "d"
      <4>1. IsNumeral(t, 10) /\ r = DW_to_reg(strtol(t, 10))
        BY <2>2, <3>2 DEF Named, BaseWrite
      <4>2. t \in Args
        BY <2>3 DEF LocInv, TypeOK, RegistersTypeOK
      <4>3. t.sign \in {1, -1} /\ t.digits \in Seq(Nat)
        BY <4>2, TokensAssumption
      <4> HIDE DEF t
      <4>4. Len(t.digits) = 1
        <5>1. t.digits # <<>> /\ Len(t.digits) <= 1
          BY <4>1 DEF IsNumeral, t
        <5>2. \A d \in Seq(Nat) : Len(d) \in Nat /\ (Len(d) = 0 => d = <<>>)
          BY EmptySeq
        <5>3. Len(t.digits) \in Nat /\ Len(t.digits) # 0
          BY <4>3, <5>1, <5>2
        <5>4. \A d \in Nat : d # 0 /\ d <= 1 => d = 1
          OBVIOUS
        <5> QED
          BY <5>1, <5>3, <5>4
      <4>5. strtol(t, 16) = strtol(t, 10)
        <5>1. strtol(t, 16) = t.sign * t.digits[1]
          BY <4>3, <4>4, TokenValues
        <5>2. strtol(t, 10) = t.sign * t.digits[1]
          BY <4>3, <4>4, TokenValues
        <5> QED
          BY <5>1, <5>2
      <4>6. IsNumeral(t, 16)
        <5>1. \A k \in DOMAIN t.digits : t.digits[k] \in Nat /\ t.digits[k] < 10
          BY <4>1, <4>3 DEF IsNumeral
        <5> QED
          BY <4>1, <5>1 DEF IsNumeral
      <4> QED
        BY <3>2, <4>1, <4>5, <4>6 DEF Named, BaseRead
    <3> QED
      BY <3>1, <3>2
  <2>5. m # "a" /\ r # NO_SUCH_REGISTER /\ get_register(r)
    BY <2>2 DEF get_register
  <2> HIDE DEF m, t
  <2>6. reply' = [is |-> "value", value |-> regs[r]]
    BY <2>1, <2>3, <2>4, <2>5 DEF ReadRegister
  <2> QED
    BY <2>2, <2>6
<1> QED
  BY <1>1, LocInvariant, PTL DEF Spec, ReadsBack
-----------------------------------------------------------------------------
(***************************************************************************)
(* Branches.  Operations are one to nine bytes long, so offsets grow along *)
(* the expression, and differ by less than the range of a Dwarf_Unsigned.  *)
(***************************************************************************)
LEMMA OpSizes == \A o : OpSize(o) \in 1 .. 9
BY DEF OpSize

LEMMA Offsets ==
  ASSUME expr \in Seq(Operation)
  PROVE  /\ \A k \in 1 .. Len(expr) : Offset(k) \in Int
         /\ \A k \in 1 .. Len(expr) - 1 : Offset(k + 1) = Offset(k) + OpSize(expr[k])
<1> DEFINE n == Len(expr)
           f == [k \in 1 .. n |-> OpSize(expr[k])]
<1>1. n \in Nat
  OBVIOUS
<1>2. f \in [1 .. n -> Int] /\ \A k \in 1 .. n : f[k] = OpSize(expr[k])
  <2>1. \A k \in 1 .. n : OpSize(expr[k]) \in Int
    BY OpSizes
  <2> QED
    BY <2>1
<1> HIDE DEF n, f
<1>3. PICK c \in Int : c = 1
  OBVIOUS
<1>4. PICK T \in [0 .. n -> Int] : T[0] = 0 /\ \A k \in 1 .. n : T[k] = T[k - 1] * c + f[k]
  BY <1>1, <1>2, Affine
<1>5. ASSUME NEW k \in 1 .. n PROVE k - 1 \in 0 .. n /\ T[k - 1] \in Int /\ T[k] = T[k - 1] + OpSize(expr[k])
  <2>1. k - 1 \in 0 .. n
    BY <1>1
  <2>2. T[k - 1] \in Int
    BY <1>4, <2>1
  <2>3. T[k - 1] * c = T[k - 1]
    BY <1>3, <2>2
  <2> QED
    BY <1>2, <1>4, <2>1, <2>2, <2>3
<1>6. ASSUME NEW k \in 1 .. n PROVE Offset(k) = T[k - 1]
  <2> DEFINE Eq(v) == v = [j \in 1 .. k |-> IF j = 1 THEN 0 ELSE v[j - 1] + OpSize(expr[j - 1])]
             v == CHOOSE v : Eq(v)
             S == [j \in 1 .. k |-> T[j - 1]]
  <2>1. Offset(k) = v[k]
    BY DEF Offset
  <2>2. \A j \in 1 .. k : S[j] = T[j - 1]
    OBVIOUS
  <2>3. S = [j \in 1 .. k |-> S[j]]
    OBVIOUS
  <2> HIDE DEF S
  <2>4. ASSUME NEW j \in 1 .. k PROVE S[j] = IF j = 1 THEN 0 ELSE S[j - 1] + OpSize(expr[j - 1])
    <3>1. CASE j = 1
      BY <1>4, <2>2, <3>1
    <3>2. CASE j # 1
      <4>1. j - 1 \in 1 .. k /\ j - 1 \in 1 .. n
        BY <1>1, <3>2
      <4>2. S[j] = T[j - 1] /\ S[j - 1] = T[(j - 1) - 1]
        BY <2>2, <4>1
      <4>3. T[j - 1] = T[(j - 1) - 1] + OpSize(expr[j - 1])
        BY <1>5, <4>1
      <4> QED
        BY <3>2, <4>2, <4>3
    <3> QED
      BY <3>1, <3>2
  <2>5. Eq(S)
    BY <2>3, <2>4
  <2>6. Eq(v)
    <3> HIDE DEF Eq
    <3> QED
      BY <2>5
  <2> HIDE DEF v
  <2>7. \A j \in 1 .. k : v[j] = IF j = 1 THEN 0 ELSE v[j - 1] + OpSize(expr[j - 1])
    BY <2>6
  <2>8. \A m \in 0 .. k - 1 : v[m + 1] = T[m]
    <3> DEFINE P == {m \in 0 .. k - 1 : v[m + 1] = T[m]}
    <3>1. k \in Nat /\ k - 1 \in Nat /\ k <= n
      BY <1>1
    <3>2. 0 \in P
      <4>1. v[1] = 0
        BY <2>7, <3>1
      <4> QED
        BY <1>4, <3>1, <4>1
    <3>3. ASSUME NEW m \in 1 .. k - 1, m - 1 \in P PROVE m \in P
      <4>1. v[(m - 1) + 1] = T[m - 1]
        BY <3>3
      <4>2. (m - 1) + 1 = m /\ (m + 1) - 1 = m /\ m + 1 \in 1 .. k /\ m + 1 # 1 /\ m \in 1 .. n
        <5>1. m \in Nat /\ m >= 1 /\ m <= k - 1
          BY <3>1
        <5>2. (m - 1) + 1 = m /\ (m + 1) - 1 = m /\ m + 1 # 1
          BY <5>1
        <5>3. m + 1 \in 1 .. k
          BY <3>1, <5>1
        <5>4. m \in 1 .. n
          BY <1>1, <3>1, <5>1
        <5> QED
          BY <5>2, <5>3, <5>4
      <4>3. v[m + 1] = v[(m + 1) - 1] + OpSize(expr[(m + 1) - 1])
        BY <2>7, <4>2
      <4>4. v[m + 1] = v[m] + OpSize(expr[m]) /\ v[m] = T[m - 1]
        BY <4>1, <4>2, <4>3
      <4>5. v[m + 1] = T[m]
        BY <1>5, <4>2, <4>4
      <4> QED
        BY <4>2, <4>5
    <3>4. \A m \in 0 .. k - 1 : m \in P
      <4> HIDE DEF P
      <4> QED
        BY <3>1, <3>2, <3>3, InductionTo
    <3> QED
      BY <3>4
  <2>9. k - 1 \in 0 .. k - 1 /\ (k - 1) + 1 = k
    BY <1>1
  <2> QED
    BY <2>1, <2>8, <2>9
<1>7. \A k \in 1 .. n : Offset(k) \in Int
  BY <1>5, <1>6
<1>8. ASSUME NEW k \in 1 .. n - 1 PROVE Offset(k + 1) = Offset(k) + OpSize(expr[k])
  <2>1. k \in 1 .. n /\ k + 1 \in 1 .. n /\ (k + 1) - 1 = k
    BY <1>1
  <2> QED
    BY <1>5, <1>6, <2>1
<1> QED
  BY <1>7, <1>8 DEF n

(* From operation j to operation k, between k - j and 9 * (k - j) bytes.   *)
LEMMA OffsetsGrow ==
  ASSUME expr \in Seq(Operation), NEW j \in 1 .. Len(expr), NEW k \in j .. Len(expr)
  PROVE  Offset(j) + (k - j) <= Offset(k) /\ Offset(k) <= Offset(j) + 9 * (k - j)
<1> DEFINE n == k - j
           P == {m \in 0 .. n : Offset(j) + m <= Offset(j + m) /\ Offset(j + m) <= Offset(j) + 9 * m}
<1>1. Len(expr) \in Nat /\ j \in Nat /\ k \in Nat /\ n \in Nat /\ j >= 1 /\ k <= Len(expr) /\ j <= k
  OBVIOUS
<1>2. 0 \in P
  <2>1. j + 0 = j /\ Offset(j) \in Int
    BY <1>1, Offsets
  <2> QED
    BY <1>1, <2>1
<1>3. ASSUME NEW m \in 1 .. n, m - 1 \in P PROVE m \in P
  <2> DEFINE q == j + (m - 1)
  <2>1. q \in 1 .. Len(expr) - 1 /\ q \in 1 .. Len(expr) /\ q + 1 = j + m /\ q + 1 \in 1 .. Len(expr)
    <3>1. m \in Nat /\ m >= 1 /\ m <= k - j
      BY <1>1
    <3>2. q \in Nat /\ q >= 1 /\ q <= Len(expr) - 1 /\ q + 1 = j + m
      BY <1>1, <3>1
    <3> HIDE DEF q
    <3> QED
      BY <1>1, <3>2
  <2>2. Offset(j) + (m - 1) <= Offset(q) /\ Offset(q) <= Offset(j) + 9 * (m - 1)
    BY <1>3
  <2> HIDE DEF q
  <2>3. Offset(q + 1) = Offset(q) + OpSize(expr[q])
    BY <2>1, Offsets
  <2>4. Offset(j) \in Int /\ Offset(q) \in Int /\ OpSize(expr[q]) \in 1 .. 9 /\ m \in Int
    BY <1>1, <2>1, Offsets, OpSizes
  <2>5. Offset(j) + m <= Offset(q + 1) /\ Offset(q + 1) <= Offset(j) + 9 * m
    <3>1. \A a, b, z, p \in Int : 1 <= z /\ z <= 9 /\ a + (p - 1) <= b /\ b <= a + 9 * (p - 1)
            => a + p <= b + z /\ b + z <= a + 9 * p
      OBVIOUS
    <3>2. OpSize(expr[q]) \in Int /\ 1 <= OpSize(expr[q]) /\ OpSize(expr[q]) <= 9
      BY <2>4
    <3> QED
      BY <2>2, <2>3, <2>4, <3>1, <3>2
  <2>6. m \in 0 .. n
    OBVIOUS
  <2> QED
    BY <2>1, <2>5, <2>6
<1>4. \A m \in 0 .. n : m \in P
  <2> HIDE DEF P, n
  <2> QED
    BY <1>1, <1>2, <1>3, InductionTo
<1>5. n \in P /\ j + n = k
  BY <1>1, <1>4
<1> QED
  BY <1>5

(* A word less than nothing is counted from the range's end.               *)
LEMMA Wraps ==
  ASSUME NEW n \in Int, n < 0, -UnsignedRange <= n
  PROVE  UnsignedRange \in Nat /\ Dwarf_Unsigned(n) = IF n = -UnsignedRange THEN 0 ELSE UnsignedRange + n
<1>1. UnsignedRange \in Nat
  BY RangeAssumption
<1>2. n % UnsignedRange = (n + UnsignedRange) % UnsignedRange
  BY <1>1
<1> QED
  BY <1>1, <1>2 DEF Dwarf_Unsigned

LEMMA BranchRange ==
  ASSUME LocInv, i <= Len(expr)
  PROVE  /\ expr \in Seq(Operation) /\ Len(expr) \in Nat /\ i \in 1 .. Len(expr)
         /\ 9 * Len(expr) + 2 <= UnsignedRange /\ -UnsignedRange <= expr[i].a /\ expr[i].a \in Int
<1>1. expr \in Seq(Operation) /\ Len(expr) \in Nat
  BY Lists DEF LocInv
<1>2. i \in 1 .. Len(expr)
  BY <1>1 DEF LocInv, TypeOK
<1>3. PICK s \in Scenarios : locs = s.locs
  BY DEF LocInv, ListInv
<1>4. PICK k \in DOMAIN locs : expr = locs[k].expr
  <2>1. expr # <<>>
    BY <1>2
  <2> QED
    BY <2>1 DEF LocInv, ListInv
<1>5. 9 * Len(expr) + 2 <= UnsignedRange /\ \A j \in DOMAIN expr : -UnsignedRange <= expr[j].a
  BY <1>3, <1>4, RangeAssumption
<1>6. i \in DOMAIN expr /\ expr[i] \in Operation
  BY <1>1, <1>2
<1>7. expr[i].a \in Int
  BY <1>6 DEF Operation
<1> QED
  BY <1>1, <1>2, <1>5, <1>6, <1>7

(* Where a branch back comes to rest.                                      *)
LEMMA LandsNear ==
  ASSUME LocInv, i <= Len(expr), NEW a, a = expr[i].a, a < -2, NEW k \in Target(a)
  PROVE  Landing(a) \in {k, k - 1}
<1> DEFINE U == UnsignedRange
           D(j) == Offset(j) - (Offset(i) + BranchSize)
           B == {j \in 1 .. i : Behind(j) <= Dwarf_Unsigned(a) \/ j = 1}
<1>1. /\ expr \in Seq(Operation) /\ Len(expr) \in Nat /\ i \in 1 .. Len(expr)
      /\ 9 * Len(expr) + 2 <= U /\ -U <= a /\ a \in Int
  BY BranchRange
<1>2. U \in Nat
  BY RangeAssumption
<1>3. k \in 1 .. Len(expr) /\ Offset(k) = Offset(i) + 3 + a
  BY DEF Target
<1>4. \A j \in 1 .. Len(expr) : Offset(j) \in Int
  BY <1>1, Offsets
<1>5. k \in 1 .. i
  <2>1. CASE k > i
    <3>1. Offset(i) + (k - i) <= Offset(k)
      BY <1>1, <1>3, <2>1, OffsetsGrow
    <3> QED
      BY <1>1, <1>3, <1>4, <2>1, <3>1
  <2> QED
    BY <1>1, <1>3, <2>1
<1>6. ASSUME NEW j \in 1 .. i
      PROVE  D(j) \in Int /\ Behind(j) = U + D(j)
  <2>1. j \in 1 .. Len(expr) /\ i \in j .. Len(expr)
    BY <1>1
  <2>2. Offset(j) + (i - j) <= Offset(i) /\ Offset(i) <= Offset(j) + 9 * (i - j)
    BY <1>1, <2>1, OffsetsGrow
  <2>3. Offset(j) \in Int /\ Offset(i) \in Int /\ BranchSize = 2
    BY <1>1, <1>4, <2>1 DEF BranchSize
  <2>4. D(j) \in Int /\ D(j) < 0 /\ -U < D(j)
    BY <1>1, <1>2, <2>1, <2>2, <2>3, SMTT(30)
  <2>5. Behind(j) = Dwarf_Unsigned(D(j))
    BY DEF Behind
  <2> HIDE DEF D
  <2>6. -U <= D(j) /\ D(j) # -U
    BY <1>2, <2>4
  <2>7. Dwarf_Unsigned(D(j)) = U + D(j)
    BY <2>4, <2>6, Wraps
  <2> QED
    BY <2>4, <2>5, <2>7
<1>7. Dwarf_Unsigned(a) = U + a
  <2>1. a < 0 /\ a \in Int /\ -U <= a
    BY <1>1
  <2> QED
    BY <1>2, <2>1, Wraps
<1>8. \A j \in 1 .. i : j \in B <=> D(j) <= a \/ j = 1
  <2> HIDE DEF D
  <2> QED
    BY <1>1, <1>2, <1>6, <1>7, SMTT(30)
<1>9. D(k) = a + 1
  BY <1>1, <1>3, <1>4, SMTT(30) DEF BranchSize
<1>10. ASSUME NEW j \in k .. i, j # 1 PROVE j \notin B
  <2>1. j \in 1 .. i /\ j \in k .. Len(expr) /\ j \in 1 .. Len(expr)
    BY <1>1, <1>5
  <2>2. Offset(k) + (j - k) <= Offset(j)
    BY <1>1, <1>3, <2>1, OffsetsGrow
  <2>3. Offset(k) \in Int /\ Offset(j) \in Int /\ Offset(i) \in Int /\ BranchSize = 2
    BY <1>1, <1>3, <1>4, <2>1 DEF BranchSize
  <2>4. D(k) <= D(j)
    BY <1>3, <2>1, <2>2, <2>3
  <2>5. ~(D(j) <= a)
    <3>1. D(j) \in Int /\ a \in Int /\ a + 1 <= D(j)
      BY <1>1, <1>6, <1>9, <2>1, <2>4
    <3> HIDE DEF D
    <3> QED
      BY <3>1
  <2> HIDE DEF D, B
  <2> QED
    BY <1>8, <1>10, <2>1, <2>5
<1>11. ASSUME k # 1 PROVE k - 1 \in B
  <2>1. k - 1 \in 1 .. i /\ k - 1 \in 1 .. Len(expr) /\ k \in (k - 1) .. Len(expr)
    BY <1>1, <1>5, <1>11
  <2>2. Offset(k - 1) + (k - (k - 1)) <= Offset(k)
    BY <1>1, <2>1, OffsetsGrow
  <2>3. Offset(k) \in Int /\ Offset(k - 1) \in Int /\ Offset(i) \in Int /\ BranchSize = 2 /\ k \in Int
    BY <1>1, <1>3, <1>4, <2>1 DEF BranchSize
  <2>4. D(k - 1) + 1 <= D(k)
    BY <2>2, <2>3
  <2>5. D(k - 1) <= a
    <3>1. D(k - 1) \in Int /\ a \in Int /\ D(k - 1) + 1 <= a + 1
      BY <1>1, <1>6, <1>9, <2>1, <2>4
    <3> HIDE DEF D
    <3> QED
      BY <3>1
  <2> HIDE DEF D, B
  <2> QED
    BY <1>8, <2>1, <2>5
<1>12. Landing(a) = Max(B)
  <2>1. ~(a > 0)
    BY <1>1
  <2> QED
    BY <2>1 DEF Landing
<1>13. B \subseteq 1 .. i /\ 1 \in B
  BY <1>1
<1> HIDE DEF B, D
<1>14. Max(B) \in B /\ \A m \in B : m <= Max(B)
  <2>1. i \in Nat /\ B # {}
    BY <1>1, <1>13
  <2> QED
    BY <1>13, <2>1, Greatest
<1>15. Max(B) \in 1 .. i
  BY <1>13, <1>14
<1>16. CASE k = 1
  <2>1. Max(B) = 1
    BY <1>1, <1>10, <1>14, <1>15, <1>16
  <2> QED
    BY <1>12, <1>16, <2>1
<1>17. CASE k # 1
  <2>1. k - 1 <= Max(B)
    BY <1>11, <1>14, <1>17
  <2>2. ~(Max(B) >= k)
    BY <1>1, <1>5, <1>10, <1>14, <1>15, <1>17
  <2>3. Max(B) = k - 1
    BY <1>5, <1>15, <2>1, <2>2
  <2> QED
    BY <1>12, <2>3
<1> QED
  BY <1>16, <1>17

(* BackwardBranchIsNear: a branch back, taken, comes to rest on its target *)
(* or on the operation before it.                                          *)
THEOREM BranchCorrect == Spec => BackwardBranchIsNear
<1>1. LocInv /\ [Next]_vars =>
        [at = "run" /\ i <= Len(expr) /\ RunOp /\ at' = "run" /\ expr[i].op \in {"skip", "bra"} /\ expr[i].a < -2
           /\ (expr[i].op = "bra" => Top(1) # 0)
             => \A k \in Target(expr[i].a) : i' \in {k, k - 1}]_vars
  <2> SUFFICES ASSUME LocInv, i <= Len(expr), RunOp, at' = "run", expr[i].op \in {"skip", "bra"},
                      expr[i].a < -2, expr[i].op = "bra" => Top(1) # 0,
                      NEW k \in Target(expr[i].a)
               PROVE  i' \in {k, k - 1}
    OBVIOUS
  <2>1. PICK a : a = expr[i].a
    OBVIOUS
  <2>2. PICK out \in parse_opcode(expr[i]) :
          out.res = "next" /\ i' = IF out.skip = 0 THEN i + 1 ELSE Landing(out.skip)
    BY DEF RunOp, Return
  <2>3. out.skip = a
    <3>1. CASE expr[i].op = "skip"
      <4>1. out \in Goes(stack, a)
        BY <2>1, <3>1 DEF parse_opcode, UnaryOps, Pushes, BinaryOps, UBinary, SBinary
      <4> QED
        BY <4>1 DEF Goes
    <3>2. CASE expr[i].op = "bra"
      <4>1. out \in Pops(1, Goes(Popped(1), IF Top(1) # 0 THEN a ELSE 0))
        BY <2>1, <3>2 DEF parse_opcode, parse_op_bra, UnaryOps, Pushes, BinaryOps, UBinary, SBinary
      <4>2. out \in Goes(Popped(1), a)
        BY <2>2, <3>2, <4>1 DEF Pops, Fails
      <4> QED
        BY <4>2 DEF Goes
    <3> QED
      BY <3>1, <3>2
  <2>4. a # 0 /\ Landing(a) \in {k, k - 1}
    <3>1. a < -2 /\ k \in Target(a)
      BY <2>1
    <3>2. a \in Int
      BY <2>1, BranchRange
    <3> QED
      BY <2>1, <3>1, <3>2, LandsNear
  <2> QED
    BY <2>2, <2>3, <2>4
<1> QED
  BY <1>1, LocInvariant, PTL DEF Spec, BackwardBranchIsNear
-----------------------------------------------------------------------------
(***************************************************************************)
(* The standard's meaning of an operation is the evaluator's.  First the   *)
(* arithmetic: division, powers, and words as sets of bits.                *)
(***************************************************************************)
(* A quotient and a remainder are what they are.                           *)
LEMMA DivMod ==
  ASSUME NEW a \in Int, NEW m \in Nat \ {0}
  PROVE  /\ a \div m \in Int /\ a % m \in 0 .. m - 1 /\ a = (a \div m) * m + (a % m)
BY Z3

LEMMA SmallMod ==
  ASSUME NEW m \in Nat \ {0}, NEW a \in 0 .. m - 1
  PROVE  a % m = a
OBVIOUS

LEMMA DivModUnique ==
  ASSUME NEW a \in Int, NEW m \in Nat \ {0}, NEW q \in Int, NEW r \in 0 .. m - 1, a = q * m + r
  PROVE  a % m = r /\ a \div m = q
<1>1. a \div m \in Int /\ a % m \in 0 .. m - 1 /\ a = (a \div m) * m + (a % m)
  BY DivMod
<1> DEFINE d == a \div m - q
<1>2. d \in Int /\ d * m = r - (a % m)
  BY <1>1
<1>3. ASSUME NEW x \in Int, NEW y \in 0 .. m - 1, NEW z \in 0 .. m - 1, x * m = y - z PROVE x = 0
  <2>1. ~(x >= 1)
    <3> SUFFICES ASSUME x >= 1 PROVE FALSE
      OBVIOUS
    <3>1. x * m >= m
      OBVIOUS
    <3> QED
      BY <1>3, <3>1
  <2>2. ~(x <= -1)
    <3> SUFFICES ASSUME x <= -1 PROVE FALSE
      OBVIOUS
    <3>1. x * m <= -m
      OBVIOUS
    <3> QED
      BY <1>3, <3>1
  <2> QED
    BY <2>1, <2>2
<1>4. d = 0
  <2> HIDE DEF d
  <2> QED
    BY <1>1, <1>2, <1>3
<1> QED
  BY <1>1, <1>2, <1>4

(* Its step.                                                               *)
LEMMA PowerStep ==
  ASSUME NEW n \in Nat
  PROVE  Power(n + 1) = 2 * Power(n)
<1>1. PICK p : Power(n) = p[n] /\ p[0] = 1 /\ \A k \in 1 .. n : p[k] = 2 * p[k - 1]
  BY PowerUnfolds
<1>2. PICK q : Power(n + 1) = q[n + 1] /\ q[0] = 1 /\ \A k \in 1 .. n + 1 : q[k] = 2 * q[k - 1]
  <2>1. n + 1 \in Nat
    OBVIOUS
  <2> QED
    BY <2>1, PowerUnfolds
<1>3. \A k \in 0 .. n : p[k] = q[k]
  <2> DEFINE P == {k \in 0 .. n : p[k] = q[k]}
  <2>1. 0 \in P
    BY <1>1, <1>2
  <2>2. ASSUME NEW k \in 1 .. n, k - 1 \in P PROVE k \in P
    <3>1. k \in 1 .. n + 1 /\ p[k - 1] = q[k - 1]
      BY <2>2
    <3>2. p[k] = q[k]
      BY <1>1, <1>2, <3>1
    <3> QED
      BY <3>2
  <2>3. \A k \in 0 .. n : k \in P
    <3> HIDE DEF P
    <3> QED
      BY <2>1, <2>2, InductionTo
  <2> QED
    BY <2>3
<1>4. n + 1 \in 1 .. n + 1 /\ (n + 1) - 1 = n /\ n \in 0 .. n
  OBVIOUS
<1> QED
  BY <1>1, <1>2, <1>3, <1>4
-----------------------------------------------------------------------------
LEMMA PowerFacts ==
  /\ Power(0) = 1
  /\ \A n \in Nat : Power(n) \in Nat \ {0} /\ Power(n + 1) = 2 * Power(n)
  /\ Modulus = 2 * Half /\ Half \in Nat \ {0} /\ Modulus \in Nat \ {0} /\ Width \in Nat
<1>1. Power(0) = 1
  <2>1. 0 \in Nat
    OBVIOUS
  <2> QED
    BY <2>1, PowerUnfolds
<1>2. \A n \in Nat : Power(n) \in Nat \ {0} /\ Power(n + 1) = 2 * Power(n)
  BY Powers, PowerStep
<1>3. Width \in Nat /\ Width - 1 \in Nat /\ (Width - 1) + 1 = Width
  BY WidthAssumption
<1>4. Modulus = 2 * Half
  BY <1>2, <1>3 DEF Modulus, Half
<1> QED
  BY <1>1, <1>2, <1>3, <1>4, Words

(* One more bit of a number.                                               *)
HasBit(w, k) == w % Power(k + 1) >= Power(k)

LEMMA BitStep ==
  ASSUME NEW w \in Nat, NEW k \in Nat
  PROVE  /\ w % Power(k) \in 0 .. Power(k) - 1
         /\ w % Power(k + 1) = (w % Power(k)) + (IF HasBit(w, k) THEN Power(k) ELSE 0)
         /\ HasBit(w, k) <=> Bit(w, k)
<1> SUFFICES ASSUME NEW p \in Nat \ {0}, p = Power(k), NEW d \in Nat \ {0}, d = Power(k + 1), d = 2 * p
             PROVE  /\ w % p \in 0 .. p - 1
                    /\ w % d = (w % p) + (IF w % d >= p THEN p ELSE 0)
                    /\ w % d >= p <=> (w \div p) % 2 = 1
  <2>1. k + 1 \in Nat
    OBVIOUS
  <2>2. Power(k) \in Nat \ {0} /\ Power(k + 1) \in Nat \ {0} /\ Power(k + 1) = 2 * Power(k)
    BY <2>1, PowerFacts
  <2> QED
    BY <2>2 DEF HasBit, Bit
<1> DEFINE q == w \div p
           r == w % p
           h == q \div 2
           e == q % 2
<1>1. q \in Int /\ r \in 0 .. p - 1 /\ w = q * p + r
  <2>1. w \in Int
    OBVIOUS
  <2> QED
    BY <2>1, DivMod
<1>a. w % p = r /\ w \div p = q
  OBVIOUS
<1> HIDE DEF q, r
<1>2. h \in Int /\ e \in 0 .. 1 /\ q = h * 2 + e
  BY <1>1, DivMod
<1>b. q % 2 = e
  OBVIOUS
<1> HIDE DEF h, e
<1>3. e * p + r \in 0 .. d - 1
  BY <1>1, <1>2
<1>4. w = h * d + (e * p + r)
  <2>1. (h * 2 + e) * p = h * (2 * p) + e * p
    BY <1>2
  <2> QED
    BY <1>1, <1>2, <2>1
<1>5. w % d = e * p + r
  <2> DEFINE x == e * p + r
  <2>1. x \in 0 .. d - 1 /\ w = h * d + x
    BY <1>3, <1>4
  <2> HIDE DEF x
  <2>2. w % d = x
    BY <1>2, <2>1, DivModUnique, SMTT(30)
  <2> QED
    BY <2>2 DEF x
<1>6. (w \div p) % 2 = e
  BY <1>a, <1>b
<1>7. (e = 0 => w % d = r) /\ (e = 1 => w % d = p + r)
  BY <1>1, <1>5
<1>8. w % d >= p <=> e = 1
  BY <1>1, <1>2, <1>7
<1>9. w % d = r + (IF w % d >= p THEN p ELSE 0)
  BY <1>1, <1>2, <1>7, <1>8
<1> QED
  BY <1>1, <1>6, <1>8, <1>9, <1>a

(* The words are told apart by their bits.                                 *)
LEMMA SameBits ==
  ASSUME NEW a \in UWORD, NEW b \in UWORD, Bitset(a) = Bitset(b)
  PROVE  a = b
<1> DEFINE P == {k \in 0 .. Width : a % Power(k) = b % Power(k)}
<1>1. a \in Nat /\ b \in Nat /\ Width \in Nat
  BY Words, PowerFacts
<1>2. \A k \in 0 .. Width - 1 : HasBit(a, k) <=> HasBit(b, k)
  <2> SUFFICES ASSUME NEW k \in 0 .. Width - 1 PROVE k \in Bitset(a) <=> k \in Bitset(b)
    BY DEF Bitset, HasBit
  <2> QED
    OBVIOUS
<1>3. 0 \in P
  <2>1. a % 1 = b % 1
    BY <1>1
  <2> QED
    BY <1>1, <2>1, PowerFacts
<1>4. ASSUME NEW k \in 1 .. Width, k - 1 \in P PROVE k \in P
  <2>1. k - 1 \in Nat /\ (k - 1) + 1 = k /\ k - 1 \in 0 .. Width - 1
    BY <1>1
  <2>2. a % Power(k) = (a % Power(k - 1)) + (IF HasBit(a, k - 1) THEN Power(k - 1) ELSE 0)
    BY <1>1, <2>1, BitStep
  <2>3. b % Power(k) = (b % Power(k - 1)) + (IF HasBit(b, k - 1) THEN Power(k - 1) ELSE 0)
    BY <1>1, <2>1, BitStep
  <2>4. a % Power(k) = b % Power(k)
    BY <1>2, <1>4, <2>1, <2>2, <2>3
  <2> QED
    BY <2>4
<1>5. Width \in P
  <2>1. \A k \in 0 .. Width : k \in P
    <3> HIDE DEF P
    <3> QED
      BY <1>1, <1>3, <1>4, InductionTo
  <2> HIDE DEF P
  <2> QED
    BY <1>1, <2>1
<1>6. Power(Width) \in Nat \ {0} /\ a \in 0 .. Power(Width) - 1 /\ b \in 0 .. Power(Width) - 1
  BY <1>1, PowerFacts DEF UWORD, Modulus
<1>7. a % Power(Width) = a /\ b % Power(Width) = b
  BY <1>6, SmallMod
<1> QED
  BY <1>5, <1>7

(* The word whose bits are those of a set.                                 *)
LEMMA BitsOfSum ==
  ASSUME NEW on, on \subseteq 0 .. Width - 1
  PROVE  WithBits(on) \in UWORD /\ Bitset(WithBits(on)) = on
<1>1. PICK s : /\ WithBits(on) = s[Width] /\ s[0] = 0
               /\ \A k \in 1 .. Width : s[k] = s[k - 1] + (IF k - 1 \in on THEN Power(k - 1) ELSE 0)
  BY BitSums
<1>2. Width \in Nat /\ \A k \in Nat : Power(k) \in Nat \ {0} /\ Power(k + 1) = 2 * Power(k)
  BY PowerFacts
<1>3. \A k \in 0 .. Width : s[k] \in 0 .. Power(k) - 1
  <2> DEFINE P == {k \in 0 .. Width : s[k] \in 0 .. Power(k) - 1}
  <2>1. 0 \in P
    BY <1>1, <1>2, PowerFacts
  <2>2. ASSUME NEW k \in 1 .. Width, k - 1 \in P PROVE k \in P
    <3>1. k - 1 \in Nat /\ (k - 1) + 1 = k
      BY <1>2
    <3>2. Power(k - 1) \in Nat \ {0} /\ Power(k) = 2 * Power(k - 1) /\ s[k - 1] \in 0 .. Power(k - 1) - 1
      BY <1>2, <2>2, <3>1
    <3>3. s[k] = s[k - 1] \/ s[k] = s[k - 1] + Power(k - 1)
      BY <1>1, <3>2
    <3>4. s[k] \in 0 .. Power(k) - 1
      BY <3>2, <3>3
    <3> QED
      BY <3>4
  <2>3. \A k \in 0 .. Width : k \in P
    <3> HIDE DEF P
    <3> QED
      BY <1>2, <2>1, <2>2, InductionTo
  <2> QED
    BY <2>3
<1> DEFINE w == WithBits(on)
<1>4. w \in UWORD /\ w \in Nat /\ w % Power(Width) = s[Width]
  <2>1. w \in 0 .. Power(Width) - 1 /\ Power(Width) \in Nat \ {0}
    BY <1>1, <1>2, <1>3
  <2> HIDE DEF w
  <2>2. w % Power(Width) = w
    BY <2>1, SmallMod
  <2> QED
    BY <1>1, <2>1, <2>2 DEF UWORD, Modulus, w
<1> HIDE DEF w
<1>5. ASSUME NEW k \in 1 .. Width, w % Power(k) = s[k]
      PROVE  w % Power(k - 1) = s[k - 1] /\ (HasBit(w, k - 1) <=> k - 1 \in on)
  <2>1. k - 1 \in Nat /\ (k - 1) + 1 = k /\ k - 1 \in 0 .. Width
    BY <1>2
  <2> SUFFICES ASSUME NEW p, p = Power(k - 1), NEW x, x = w % p, NEW y, y = s[k - 1]
               PROVE  x = y /\ (HasBit(w, k - 1) <=> k - 1 \in on)
    OBVIOUS
  <2>2. p \in Nat \ {0} /\ x \in 0 .. p - 1 /\ y \in 0 .. p - 1
    BY <1>2, <1>3, <1>4, <2>1, BitStep
  <2>3. w % Power(k) = x + (IF HasBit(w, k - 1) THEN p ELSE 0)
    BY <1>4, <2>1, BitStep
  <2>4. s[k] = y + (IF k - 1 \in on THEN p ELSE 0)
    BY <1>1
  <2>5. x + (IF HasBit(w, k - 1) THEN p ELSE 0) = y + (IF k - 1 \in on THEN p ELSE 0)
    BY <1>5, <2>3, <2>4
  <2> QED
    BY <2>2, <2>5
<1>6. \A k \in 1 .. Width : HasBit(w, k - 1) <=> k - 1 \in on
  <2> DEFINE P == {m \in 0 .. Width : w % Power(Width - m) = s[Width - m]}
  <2>1. 0 \in P
    <3>1. Width - 0 = Width
      BY <1>2
    <3> QED
      BY <1>2, <1>4, <3>1
  <2>2. ASSUME NEW m \in 1 .. Width, m - 1 \in P PROVE m \in P
    <3>1. Width - (m - 1) \in 1 .. Width /\ (Width - (m - 1)) - 1 = Width - m
      BY <1>2
    <3>2. w % Power(Width - m) = s[Width - m]
      BY <1>5, <2>2, <3>1
    <3> QED
      BY <3>2
  <2>3. \A m \in 0 .. Width : m \in P
    <3> HIDE DEF P
    <3> QED
      BY <1>2, <2>1, <2>2, InductionTo
  <2>4. ASSUME NEW k \in 1 .. Width PROVE w % Power(k) = s[k]
    <3>1. Width - k \in 0 .. Width /\ Width - (Width - k) = k
      BY <1>2
    <3> QED
      BY <2>3, <3>1
  <2> QED
    BY <1>5, <2>4
<1>7. Bitset(w) = on
  <2>1. \A k \in 0 .. Width - 1 : k + 1 \in 1 .. Width /\ (k + 1) - 1 = k
    BY <1>2
  <2>2. \A k \in 0 .. Width - 1 : HasBit(w, k) <=> k \in on
    BY <1>6, <2>1
  <2> QED
    BY <2>2 DEF Bitset, HasBit
<1> QED
  BY <1>4, <1>7 DEF w

LEMMA WordOfBits ==
  ASSUME NEW w \in UWORD
  PROVE  OfBits(Bitset(w)) = w
<1>1. \A v \in UWORD : Bitset(v) = Bitset(w) => v = w
  BY SameBits
<1> QED
  BY <1>1 DEF OfBits

(* The complement.                                                         *)
LEMMA ComplementBits ==
  ASSUME NEW b \in UWORD
  PROVE  Modulus - 1 - b \in UWORD /\ Bitset(Modulus - 1 - b) = (0 .. Width - 1) \ Bitset(b)
<1> DEFINE w == Modulus - 1 - b
<1>1. w \in UWORD /\ w \in Nat /\ b \in Nat /\ w = Power(Width) - 1 - b
  BY PowerFacts DEF UWORD, Modulus
<1>2. Width \in Nat /\ \A k \in Nat : Power(k) \in Nat \ {0} /\ Power(k + 1) = 2 * Power(k)
  BY PowerFacts
<1>3. w % Power(Width) = Power(Width) - 1 - (b % Power(Width))
  <2>1. Power(Width) \in Nat \ {0} /\ w \in 0 .. Power(Width) - 1 /\ b \in 0 .. Power(Width) - 1
    BY <1>1, <1>2 DEF UWORD, Modulus
  <2> HIDE DEF w
  <2>2. w % Power(Width) = w /\ b % Power(Width) = b
    BY <2>1, SmallMod
  <2> QED
    BY <1>1, <2>2
<1> HIDE DEF w
<1>5. ASSUME NEW k \in 1 .. Width, w % Power(k) = Power(k) - 1 - (b % Power(k))
      PROVE  w % Power(k - 1) = Power(k - 1) - 1 - (b % Power(k - 1)) /\ (HasBit(w, k - 1) <=> ~HasBit(b, k - 1))
  <2>1. k - 1 \in Nat /\ (k - 1) + 1 = k /\ k - 1 \in 0 .. Width
    BY <1>2
  <2> SUFFICES ASSUME NEW p, p = Power(k - 1), NEW x, x = w % p, NEW y, y = b % p
               PROVE  x = p - 1 - y /\ (HasBit(w, k - 1) <=> ~HasBit(b, k - 1))
    OBVIOUS
  <2>2. p \in Nat \ {0} /\ x \in 0 .. p - 1 /\ y \in 0 .. p - 1 /\ Power(k) = 2 * p
    <3>1. p \in Nat \ {0} /\ Power(k) = 2 * p
      BY <1>2, <2>1
    <3> QED
      BY <1>1, <2>1, <3>1, BitStep
  <2>3. w % Power(k) = x + (IF HasBit(w, k - 1) THEN p ELSE 0)
    BY <1>1, <2>1, BitStep
  <2>4. b % Power(k) = y + (IF HasBit(b, k - 1) THEN p ELSE 0)
    BY <1>1, <2>1, BitStep
  <2>5. x + (IF HasBit(w, k - 1) THEN p ELSE 0) = 2 * p - 1 - (y + (IF HasBit(b, k - 1) THEN p ELSE 0))
    BY <1>5, <2>2, <2>3, <2>4
  <2> QED
    BY <2>2, <2>5
<1>6. \A k \in 1 .. Width : HasBit(w, k - 1) <=> ~HasBit(b, k - 1)
  <2> DEFINE P == {m \in 0 .. Width : w % Power(Width - m) = Power(Width - m) - 1 - (b % Power(Width - m))}
  <2>1. 0 \in P
    <3>1. Width - 0 = Width
      BY <1>2
    <3> QED
      BY <1>2, <1>3, <3>1
  <2>2. ASSUME NEW m \in 1 .. Width, m - 1 \in P PROVE m \in P
    <3>1. Width - (m - 1) \in 1 .. Width /\ (Width - (m - 1)) - 1 = Width - m
      BY <1>2
    <3>2. w % Power(Width - m) = Power(Width - m) - 1 - (b % Power(Width - m))
      BY <1>5, <2>2, <3>1
    <3> QED
      BY <3>2
  <2>3. \A m \in 0 .. Width : m \in P
    <3> HIDE DEF P
    <3> QED
      BY <1>2, <2>1, <2>2, InductionTo
  <2>4. ASSUME NEW k \in 1 .. Width PROVE w % Power(k) = Power(k) - 1 - (b % Power(k))
    <3>1. Width - k \in 0 .. Width /\ Width - (Width - k) = k
      BY <1>2
    <3>2. Width - k \in P
      BY <2>3, <3>1
    <3> QED
      BY <3>1, <3>2
  <2> QED
    BY <1>5, <2>4
<1>7. Bitset(w) = (0 .. Width - 1) \ Bitset(b)
  <2>1. \A k \in 0 .. Width - 1 : k + 1 \in 1 .. Width /\ (k + 1) - 1 = k
    BY <1>2
  <2>2. \A k \in 0 .. Width - 1 : HasBit(w, k) <=> ~HasBit(b, k)
    BY <1>6, <2>1
  <2> QED
    BY <2>2 DEF Bitset, HasBit
<1> QED
  BY <1>1, <1>7 DEF w
-----------------------------------------------------------------------------
(* Words are numbers up to multiples of the modulus.                       *)
LEMMA Congruent ==
  ASSUME NEW n \in Int, NEW k \in Int, NEW m, m = n + k * Modulus
  PROVE  Word(m) = Word(n)
<1> SUFFICES ASSUME NEW M \in Nat \ {0}, M = Modulus PROVE m % M = n % M
  BY PowerFacts DEF Word
<1>1. n \div M \in Int /\ n % M \in 0 .. M - 1 /\ n = (n \div M) * M + (n % M)
  BY DivMod
<1> DEFINE q == n \div M
           r == n % M
<1>2. q \in Int /\ r \in 0 .. M - 1 /\ n = q * M + r
  BY <1>1
<1> HIDE DEF q, r
<1>3. m \in Int /\ q + k \in Int /\ m = (q + k) * M + r
  BY <1>2
<1>4. m % M = r
  BY <1>2, <1>3, DivModUnique
<1> QED
  BY <1>4 DEF r

LEMMA WordOfWord ==
  ASSUME NEW w \in UWORD
  PROVE  Word(w) = w
BY PowerFacts, SmallMod DEF Word, UWORD

LEMMA Signed ==
  ASSUME NEW w \in UWORD
  PROVE  /\ w \in Nat /\ w < Modulus
         /\ WORD(w) \in Int /\ -Half <= WORD(w) /\ WORD(w) < Half
         /\ WORD(w) = w \/ WORD(w) = w - Modulus
         /\ WORD(w) >= 0 <=> w < Half
         /\ WORD(w) = IF w < Half THEN w ELSE w - Modulus
BY PowerFacts DEF WORD, UWORD

(* The word that b is added to for c.                                      *)
LEMMA Difference ==
  ASSUME NEW c \in UWORD, NEW b \in UWORD
  PROVE  (CHOOSE d \in UWORD : Word(d + b) = c) = Word(c - b)
<1>1. c \in Nat /\ b \in Nat /\ Modulus \in Nat \ {0} /\ c - b \in Int
  BY Signed, PowerFacts
<1>2. Word(c - b) \in UWORD
  BY <1>1, Words
<1>3. Word(Word(c - b) + b) = c
  <2> DEFINE x == c - b
  <2>1. x \in Int /\ x % Modulus \in Int /\ x \div Modulus \in Int /\ x = (x \div Modulus) * Modulus + (x % Modulus)
    BY <1>1, DivMod
  <2>2. c = x + b
    BY <1>1
  <2> HIDE DEF x
  <2>3. c = ((x % Modulus) + b) + (x \div Modulus) * Modulus /\ (x % Modulus) + b \in Int
    BY <1>1, <2>1, <2>2
  <2>4. Word(c) = Word((x % Modulus) + b)
    BY <2>1, <2>3, Congruent
  <2> QED
    BY <2>4, WordOfWord DEF Word, x
<1>4. ASSUME NEW d \in UWORD, Word(d + b) = c PROVE d = Word(c - b)
  <2> DEFINE x == d + b
  <2>1. d \in Nat
    BY Signed
  <2>2. x \in Int /\ x % Modulus = c /\ x \div Modulus \in Int /\ x = (x \div Modulus) * Modulus + (x % Modulus)
    <3>1. x \in Int /\ x % Modulus = c
      BY <1>1, <1>4, <2>1 DEF Word
    <3> HIDE DEF x
    <3> QED
      BY <1>1, <3>1, DivMod
  <2>3. d = x - b
    BY <1>1, <2>1
  <2> HIDE DEF x
  <2>4. d = (c - b) + (x \div Modulus) * Modulus
    BY <1>1, <2>1, <2>2, <2>3
  <2>5. Word(d) = Word(c - b)
    BY <1>1, <2>2, <2>4, Congruent
  <2> QED
    BY <2>5, WordOfWord
<1> QED
  BY <1>2, <1>3, <1>4

LEMMA UnaryMeans ==
  ASSUME NEW o \in UnaryOps, NEW a \in Int, NEW b \in UWORD
  PROVE  Word(Unary(o, a, b)) = DwarfUnary(o, a, b)
<1>1. /\ b \in Nat /\ b < Modulus /\ WORD(b) \in Int
      /\ WORD(b) = b \/ WORD(b) = b - Modulus
      /\ WORD(b) = IF b < Half THEN b ELSE b - Modulus
      /\ Modulus = 2 * Half /\ Half \in Nat \ {0} /\ Modulus \in Nat \ {0}
  BY Signed, PowerFacts
<1>2. CASE o = "neg"
  <2>1. Unary(o, a, b) = -WORD(b) /\ DwarfUnary(o, a, b) = CHOOSE n \in UWORD : Word(n + b) = 0
    BY <1>2 DEF Unary, DwarfUnary
  <2>2. 0 \in UWORD
    BY Words
  <2>3. DwarfUnary(o, a, b) = Word(0 - b)
    BY <2>1, <2>2, Difference
  <2>4. Word(-WORD(b)) = Word(0 - b)
    <3>1. CASE WORD(b) = b
      BY <1>1, <3>1
    <3>2. CASE WORD(b) = b - Modulus
      <4>1. -WORD(b) = (0 - b) + 1 * Modulus /\ 0 - b \in Int
        BY <1>1, <3>2
      <4> QED
        BY <4>1, Congruent
    <3> QED
      BY <1>1, <3>1, <3>2
  <2> QED
    BY <2>1, <2>3, <2>4
<1>3. CASE o = "not"
  <2>1. Unary(o, a, b) = -b - 1 /\ DwarfUnary(o, a, b) = OfBits((0 .. Width - 1) \ Bitset(b))
    BY <1>3 DEF Unary, DwarfUnary
  <2> DEFINE w == Modulus - 1 - b
  <2>2. w \in UWORD /\ Bitset(w) = (0 .. Width - 1) \ Bitset(b)
    BY ComplementBits
  <2>3. w = (-b - 1) + 1 * Modulus /\ -b - 1 \in Int
    BY <1>1
  <2> HIDE DEF w
  <2>4. Word(w) = Word(-b - 1)
    BY <2>3, Congruent
  <2> QED
    BY <2>1, <2>2, <2>4, WordOfWord, WordOfBits
<1>4. CASE o = "abs"
  <2>1. Unary(o, a, b) = Abs(WORD(b)) /\ DwarfUnary(o, a, b) = IF b < Half THEN b ELSE Modulus - b
    BY <1>4 DEF Unary, DwarfUnary
  <2>2. Abs(WORD(b)) = IF b < Half THEN b ELSE Modulus - b
    BY <1>1 DEF Abs
  <2>3. (IF b < Half THEN b ELSE Modulus - b) \in UWORD
    BY <1>1 DEF UWORD
  <2> QED
    BY <2>1, <2>2, <2>3, WordOfWord
<1>5. CASE o = "plus_uconst"
  BY <1>5 DEF Unary, DwarfUnary
<1> QED
  BY <1>2, <1>3, <1>4, <1>5 DEF UnaryOps

(* Division truncates: the quotient is what a quotient is.                 *)
IsQuotient(n, m, q) == LET r == n - q * m IN Abs(r) < Abs(m) /\ (r = 0 \/ (r < 0) = (n < 0))

LEMMA QuotIsQuotient ==
  ASSUME NEW n \in Int, NEW m \in Int, m # 0
  PROVE  /\ Quot(n, m) \in Int /\ Abs(Quot(n, m)) <= Abs(n)
         /\ IsQuotient(n, m, Quot(n, m))
<1> SUFFICES ASSUME NEW q, q = Quot(n, m) PROVE q \in Int /\ Abs(q) <= Abs(n) /\ IsQuotient(n, m, q)
  OBVIOUS
<1>1. Abs(n) \in Nat /\ Abs(m) \in Nat \ {0}
  BY DEF Abs
<1> DEFINE k == Abs(n) \div Abs(m)
           r == Abs(n) % Abs(m)
<1>2. k \in Int /\ r \in 0 .. Abs(m) - 1 /\ Abs(n) = k * Abs(m) + r
  <2>1. Abs(n) \in Int
    BY <1>1
  <2> QED
    BY <1>1, <2>1, DivMod
<1>3. q = IF (n < 0) = (m < 0) THEN k ELSE -k
  BY DEF Quot
<1> HIDE DEF k, r
<1>4. k >= 0 /\ k <= Abs(n)
  <2> SUFFICES ASSUME NEW A \in Nat, NEW B \in Nat \ {0}, NEW x \in 0 .. B - 1, NEW z \in Int, A = z * B + x
               PROVE  z >= 0 /\ z <= A
    BY <1>1, <1>2
  <2>1. z >= 0
    <3> SUFFICES ASSUME z <= -1 PROVE FALSE
      OBVIOUS
    <3>1. z * B <= -B
      OBVIOUS
    <3> QED
      BY <3>1
  <2>2. z * B >= z
    BY <2>1
  <2> QED
    BY <2>1, <2>2
<1>5. q \in Int /\ Abs(q) <= Abs(n)
  BY <1>1, <1>2, <1>3, <1>4 DEF Abs
<1>6. n - q * m = IF n < 0 THEN -r ELSE r
  <2>1. CASE n < 0 /\ m < 0
    <3>1. Abs(n) = -n /\ Abs(m) = -m /\ q = k
      BY <1>3, <2>1 DEF Abs
    <3>2. -n = k * (-m) + r
      BY <1>2, <3>1
    <3>3. k * (-m) = -(k * m)
      BY <1>2
    <3> QED
      BY <1>1, <1>2, <2>1, <3>1, <3>2, <3>3
  <2>2. CASE n < 0 /\ ~(m < 0)
    <3>1. Abs(n) = -n /\ Abs(m) = m /\ q = -k
      BY <1>3, <2>2 DEF Abs
    <3>2. -n = k * m + r
      BY <1>2, <3>1
    <3>3. (-k) * m = -(k * m)
      BY <1>2
    <3> QED
      BY <1>1, <1>2, <2>2, <3>1, <3>2, <3>3
  <2>3. CASE ~(n < 0) /\ m < 0
    <3>1. Abs(n) = n /\ Abs(m) = -m /\ q = -k
      BY <1>3, <2>3 DEF Abs
    <3>2. n = k * (-m) + r
      BY <1>2, <3>1
    <3>3. k * (-m) = -(k * m) /\ (-k) * m = -(k * m)
      BY <1>2
    <3> QED
      BY <1>1, <1>2, <2>3, <3>1, <3>2, <3>3
  <2>4. CASE ~(n < 0) /\ ~(m < 0)
    <3>1. Abs(n) = n /\ Abs(m) = m /\ q = k
      BY <1>3, <2>4 DEF Abs
    <3> QED
      BY <1>1, <1>2, <2>4, <3>1
  <2> QED
    BY <2>1, <2>2, <2>3, <2>4
<1>7. IsQuotient(n, m, q)
  <2> SUFFICES ASSUME NEW z \in Int, z = n - q * m
               PROVE  Abs(z) < Abs(m) /\ (z = 0 \/ (z < 0) = (n < 0))
    BY <1>5 DEF IsQuotient
  <2>1. z = IF n < 0 THEN -r ELSE r
    BY <1>6
  <2>2. r \in Nat /\ r < Abs(m)
    BY <1>1, <1>2
  <2>3. Abs(z) = r
    BY <2>1, <2>2 DEF Abs
  <2> QED
    BY <2>1, <2>2, <2>3
<1> QED
  BY <1>5, <1>7

LEMMA OneQuotient ==
  ASSUME NEW n \in Int, NEW m \in Int, m # 0, NEW p \in Int, NEW q \in Int,
         IsQuotient(n, m, p), IsQuotient(n, m, q)
  PROVE  p = q
<1> DEFINE r == n - p * m
           t == n - q * m
<1>1. r \in Int /\ t \in Int /\ (q - p) * m = r - t /\ q - p \in Int
  OBVIOUS
<1>2. Abs(r) < Abs(m) /\ (r = 0 \/ (r < 0) = (n < 0)) /\ Abs(t) < Abs(m) /\ (t = 0 \/ (t < 0) = (n < 0))
  BY DEF IsQuotient
<1> HIDE DEF r, t
<1>3. Abs(m) \in Nat \ {0} /\ r - t < Abs(m) /\ t - r < Abs(m)
  BY <1>1, <1>2 DEF Abs
<1> DEFINE d == q - p
<1>4. d * m = r - t /\ d \in Int
  BY <1>1
<1> HIDE DEF d
<1>5. d = 0
  <2>1. ASSUME NEW x \in Int, NEW B \in Nat \ {0}, x * B < B, -(x * B) < B PROVE x = 0
    <3>1. ~(x >= 1)
      <4> SUFFICES ASSUME x >= 1 PROVE x * B >= B
        BY <2>1
      <4> QED
        OBVIOUS
    <3>2. ~(x <= -1)
      <4> SUFFICES ASSUME x <= -1 PROVE x * B <= -B
        BY <2>1
      <4> QED
        OBVIOUS
    <3> QED
      BY <3>1, <3>2
  <2>2. CASE m > 0
    <3>1. Abs(m) = m
      BY <2>2 DEF Abs
    <3>2. m \in Nat \ {0} /\ d * m < m /\ -(d * m) < m
      BY <1>1, <1>3, <1>4, <2>2, <3>1
    <3> QED
      BY <1>4, <2>1, <3>2
  <2>3. CASE m < 0
    <3>1. Abs(m) = -m
      BY <2>3 DEF Abs
    <3>2. -m \in Nat \ {0} /\ d * (-m) = -(d * m)
      BY <1>4, <2>3
    <3>3. d * (-m) < -m /\ -(d * (-m)) < -m
      BY <1>1, <1>3, <1>4, <3>1, <3>2
    <3> QED
      BY <1>4, <2>1, <3>2, <3>3
  <2> QED
    BY <2>2, <2>3
<1> QED
  BY <1>5 DEF d

LEMMA QuotMeans ==
  ASSUME NEW n \in Int, NEW m \in Int, m # 0, -Half <= n, n <= Half
  PROVE  Quotient(n, m) = Quot(n, m)
<1>1. Half \in Nat
  BY PowerFacts
<1>2. Quot(n, m) \in -Half .. Half /\ IsQuotient(n, m, Quot(n, m))
  <2>1. Quot(n, m) \in Int /\ Abs(Quot(n, m)) <= Abs(n) /\ IsQuotient(n, m, Quot(n, m))
    BY QuotIsQuotient
  <2> SUFFICES ASSUME NEW q \in Int, q = Quot(n, m), Abs(q) <= Abs(n) PROVE q \in -Half .. Half
    BY <2>1
  <2> QED
    BY <1>1 DEF Abs
<1>3. \A q \in -Half .. Half : IsQuotient(n, m, q) => q = Quot(n, m)
  <2>1. \A q \in -Half .. Half : q \in Int
    BY <1>1
  <2> QED
    BY <1>1, <1>2, <2>1, OneQuotient
<1>4. Quotient(n, m) = CHOOSE q \in -Half .. Half : IsQuotient(n, m, q)
  BY DEF Quotient, IsQuotient
<1> QED
  BY <1>2, <1>3, <1>4, Zenon

(* A word that is computed from two.                                       *)
LEMMA UBinaryMeans ==
  ASSUME NEW o \in UBinary, NEW c \in UWORD, NEW b \in UWORD, o = "mod" => b # 0
  PROVE  Word(UBINOP(o, c, b)) = DwarfBinary(o, c, b)
<1>1. /\ b \in Nat /\ c \in Nat /\ b < Modulus /\ c < Modulus /\ WORD(b) \in Int /\ WORD(c) \in Int
      /\ WORD(b) = b \/ WORD(b) = b - Modulus
      /\ WORD(c) = c \/ WORD(c) = c - Modulus
      /\ Modulus \in Nat \ {0}
  BY Signed, PowerFacts
<1>2. \A w \in UWORD : \A k \in 0 .. Width - 1 : k \in Bitset(w) <=> Bit(w, k)
  <2> SUFFICES ASSUME NEW w \in UWORD, NEW k \in 0 .. Width - 1 PROVE k \in Bitset(w) <=> Bit(w, k)
    OBVIOUS
  <2>1. w \in Nat /\ k \in Nat
    BY Signed, PowerFacts
  <2>2. HasBit(w, k) <=> Bit(w, k)
    BY <2>1, BitStep
  <2> QED
    BY <2>2 DEF Bitset, HasBit
<1>3. ASSUME NEW on, on \subseteq 0 .. Width - 1 PROVE Word(WithBits(on)) = OfBits(on)
  <2>1. WithBits(on) \in UWORD /\ Bitset(WithBits(on)) = on
    BY <1>3, BitsOfSum
  <2> QED
    BY <2>1, WordOfBits, WordOfWord
<1>4. CASE o = "and"
  <2> DEFINE on == {k \in 0 .. Width - 1 : Bit(c, k) /\ Bit(b, k)}
  <2>1. UBINOP(o, c, b) = WithBits(on) /\ DwarfBinary(o, c, b) = OfBits(Bitset(c) \cap Bitset(b))
    BY <1>4 DEF UBINOP, DwarfBinary
  <2>2. on = Bitset(c) \cap Bitset(b)
    BY <1>2 DEF Bitset
  <2>3. on \subseteq 0 .. Width - 1
    OBVIOUS
  <2> HIDE DEF on
  <2> QED
    BY <1>3, <2>1, <2>2, <2>3
<1>5. CASE o = "or"
  <2> DEFINE on == {k \in 0 .. Width - 1 : Bit(c, k) \/ Bit(b, k)}
  <2>1. UBINOP(o, c, b) = WithBits(on) /\ DwarfBinary(o, c, b) = OfBits(Bitset(c) \cup Bitset(b))
    BY <1>5 DEF UBINOP, DwarfBinary
  <2>2. on = Bitset(c) \cup Bitset(b)
    BY <1>2 DEF Bitset
  <2>3. on \subseteq 0 .. Width - 1
    OBVIOUS
  <2> HIDE DEF on
  <2> QED
    BY <1>3, <2>1, <2>2, <2>3
<1>6. CASE o = "xor"
  <2> DEFINE on == {k \in 0 .. Width - 1 : Bit(c, k) # Bit(b, k)}
  <2>1. UBINOP(o, c, b) = WithBits(on)
        /\ DwarfBinary(o, c, b) = OfBits((Bitset(c) \cup Bitset(b)) \ (Bitset(c) \cap Bitset(b)))
    BY <1>6 DEF UBINOP, DwarfBinary
  <2>2. on = (Bitset(c) \cup Bitset(b)) \ (Bitset(c) \cap Bitset(b))
    <3>1. on = {k \in 0 .. Width - 1 : ~(Bit(c, k) <=> Bit(b, k))}
      BY DEF Bit
    <3> HIDE DEF on
    <3> QED
      BY <1>2, <3>1 DEF Bitset
  <2>3. on \subseteq 0 .. Width - 1
    OBVIOUS
  <2> HIDE DEF on
  <2> QED
    BY <1>3, <2>1, <2>2, <2>3
<1>7. CASE o = "plus"
  <2>1. UBINOP(o, c, b) = c + b /\ DwarfBinary(o, c, b) = Word(WORD(c) + WORD(b))
    BY <1>7 DEF UBINOP, DwarfBinary
  <2>2. PICK k \in Int : c + b = (WORD(c) + WORD(b)) + k * Modulus
    <3>1. c + b = (c + b) + 0 * Modulus /\ c + b = (c + b - Modulus) + 1 * Modulus
          /\ c + b = (c + b - Modulus - Modulus) + 2 * Modulus
      BY <1>1
    <3>2. WORD(c) + WORD(b) \in {c + b, c + b - Modulus, c + b - Modulus - Modulus}
      BY <1>1
    <3> QED
      BY <3>1, <3>2
  <2>3. WORD(c) + WORD(b) \in Int
    BY <1>1
  <2> QED
    BY <2>1, <2>2, <2>3, Congruent
<1>8. CASE o = "minus"
  <2>1. UBINOP(o, c, b) = c - b /\ DwarfBinary(o, c, b) = CHOOSE d \in UWORD : Word(d + b) = c
    BY <1>8 DEF UBINOP, DwarfBinary
  <2> QED
    BY <2>1, Difference
<1>9. CASE o = "mul"
  <2>1. UBINOP(o, c, b) = c * b /\ DwarfBinary(o, c, b) = Word(WORD(c) * WORD(b))
    BY <1>9 DEF UBINOP, DwarfBinary
  <2>2. \E k \in Int : c * b = WORD(c) * WORD(b) + k * Modulus
    <3> SUFFICES ASSUME NEW M, M = Modulus, NEW u, u = WORD(c), NEW v, v = WORD(b)
                 PROVE  \E k \in Int : c * b = u * v + k * M
      OBVIOUS
    <3>0. /\ M \in Nat /\ b \in Nat /\ c \in Nat /\ u \in Int /\ v \in Int
          /\ u = c \/ u = c - M
          /\ v = b \/ v = b - M
      BY <1>1
    <3>1. CASE u = c /\ v = b
      <4>1. 0 \in Int /\ c * b = u * v + 0 * M
        BY <3>0, <3>1
      <4> QED
        BY <4>1, Zenon
    <3>2. CASE u = c - M /\ v = b
      <4>1. b \in Int /\ c * b = u * v + b * M
        BY <3>0, <3>2
      <4> QED
        BY <4>1, Zenon
    <3>3. CASE u = c /\ v = b - M
      <4>1. c \in Int /\ c * b = u * v + c * M
        BY <3>0, <3>3
      <4> QED
        BY <4>1, Zenon
    <3>4. CASE u = c - M /\ v = b - M
      <4>1. c + b - M \in Int /\ c * b = u * v + (c + b - M) * M
        BY <3>0, <3>4
      <4> QED
        BY <4>1, Zenon
    <3> QED
      BY <3>0, <3>1, <3>2, <3>3, <3>4
  <2>3. WORD(c) * WORD(b) \in Int
    BY <1>1
  <2> QED
    BY <2>1, <2>2, <2>3, Congruent
<1>10. CASE o = "mod"
  <2>1. UBINOP(o, c, b) = c % b /\ DwarfBinary(o, c, b) = CHOOSE r \in 0 .. b - 1 : \E q \in UWORD : q * b + r = c
    BY <1>10 DEF UBINOP, DwarfBinary
  <2>2. b \in Nat \ {0} /\ c \in Int
    BY <1>1, <1>10
  <2> DEFINE d == c \div b
             r == c % b
  <2>3. d \in Int /\ r \in 0 .. b - 1 /\ c = d * b + r
    BY <2>2, DivMod
  <2> HIDE DEF d, r
  <2>4. d \in UWORD
    <3>1. d >= 0
      <4> SUFFICES ASSUME d <= -1 PROVE FALSE
        BY <2>3
      <4>1. d * b <= -b
        BY <2>2, <2>3
      <4> QED
        BY <1>1, <2>2, <2>3, <4>1
    <3>2. d * b >= d
      BY <2>2, <2>3, <3>1
    <3> QED
      BY <1>1, <2>2, <2>3, <3>1, <3>2 DEF UWORD
  <2>5. d * b + r = c
    BY <2>3
  <2>6. ASSUME NEW x \in 0 .. b - 1, NEW q \in UWORD, q * b + x = c PROVE x = r
    <3>1. q \in Int
      BY Signed
    <3>2. c = q * b + x
      BY <2>6
    <3>3. c % b = x
      BY <2>2, <3>1, <3>2, DivModUnique
    <3> QED
      BY <3>3 DEF r
  <2>7. DwarfBinary(o, c, b) = r
    BY <2>1, <2>3, <2>4, <2>5, <2>6
  <2>8. r \in UWORD
    BY <1>1, <2>2, <2>3 DEF UWORD
  <2> QED
    BY <2>1, <2>7, <2>8, WordOfWord DEF r
<1> QED
  BY <1>4, <1>5, <1>6, <1>7, <1>8, <1>9, <1>10 DEF UBinary

LEMMA SBinaryMeans ==
  ASSUME NEW o \in SBinary, NEW c \in UWORD, NEW b \in UWORD
  PROVE  Word(SBINOP(o, WORD(c), WORD(b))) = DwarfBinary(o, c, b)
<1>1. /\ b \in Nat /\ c \in Nat /\ b < Modulus /\ c < Modulus /\ WORD(b) \in Int /\ WORD(c) \in Int
      /\ WORD(b) = IF b < Half THEN b ELSE b - Modulus
      /\ WORD(c) = IF c < Half THEN c ELSE c - Modulus
      /\ Modulus \in Nat \ {0} /\ Half \in Nat /\ Modulus = 2 * Half
  BY Signed, PowerFacts
<1>2. \A p \in BOOLEAN : Word(Truth(p)) = Truth(p)
  <2>1. {0, 1} \subseteq UWORD
    BY Words
  <2> QED
    BY <2>1, WordOfWord DEF Truth
<1>3. WORD(c) = WORD(b) <=> c = b
  BY <1>1
<1>4. /\ WORD(c) < WORD(b) <=> WORD(b) - WORD(c) > 0
      /\ WORD(c) <= WORD(b) <=> WORD(b) - WORD(c) >= 0
      /\ WORD(c) > WORD(b) <=> WORD(c) - WORD(b) > 0
      /\ WORD(c) >= WORD(b) <=> WORD(c) - WORD(b) >= 0
  BY <1>1
<1> SUFFICES SBINOP(o, WORD(c), WORD(b)) = DwarfBinary(o, c, b)
             /\ \E p \in BOOLEAN : SBINOP(o, WORD(c), WORD(b)) = Truth(p)
  BY <1>2
<1>5. SBINOP(o, WORD(c), WORD(b)) = DwarfBinary(o, c, b)
  BY <1>3, <1>4 DEF SBINOP, SBinary, DwarfBinary, Truth
<1>6. SBINOP(o, WORD(c), WORD(b)) \in {Truth(TRUE), Truth(FALSE)}
  BY DEF SBINOP, SBinary, Truth
<1> QED
  BY <1>5, <1>6

LEMMA BinaryMeans ==
  ASSUME NEW o \in BinaryOps \ {"shl", "shr", "shra"}, NEW c \in UWORD, NEW b \in UWORD, ~Traps(o, c, b)
  PROVE  Word(Binary(o, c, b)) = DwarfBinary(o, c, b)
<1>1. CASE o \in UBinary
  <2>1. o \notin SBinary /\ o \notin {"div", "shl", "shr", "shra"}
    BY <1>1 DEF UBinary, SBinary
  <2>2. Binary(o, c, b) = UBINOP(o, c, b)
    BY <1>1, <2>1, Zenon DEF Binary
  <2>3. o = "mod" => b # 0
    BY DEF Traps
  <2> QED
    BY <1>1, <2>2, <2>3, UBinaryMeans
<1>2. CASE o \in SBinary
  <2>1. o \notin UBinary /\ o \notin {"div", "shl", "shr", "shra"}
    BY <1>2 DEF UBinary, SBinary
  <2>2. Binary(o, c, b) = SBINOP(o, WORD(c), WORD(b))
    BY <1>2, <2>1, Zenon DEF Binary
  <2> QED
    BY <1>2, <2>2, SBinaryMeans
<1>3. CASE o = "div"
  <2>1. Binary(o, c, b) = Quot(WORD(c), WORD(b)) /\ DwarfBinary(o, c, b) = Word(Quotient(WORD(c), WORD(b)))
    BY <1>3 DEF Binary, UBinary, SBinary, parse_op_div, DwarfBinary
  <2>2. b # 0
    BY <1>3 DEF Traps
  <2>3. WORD(b) \in Int /\ WORD(b) # 0 /\ WORD(c) \in Int /\ -Half <= WORD(c) /\ WORD(c) <= Half
    BY <2>2, Signed, Words, PowerFacts
  <2> QED
    BY <2>1, <2>3, QuotMeans
<1> QED
  BY <1>1, <1>2, <1>3 DEF BinaryOps
-----------------------------------------------------------------------------
(* The standard's stack has the topmost value first.                       *)
Mirrors(s, st) ==
  /\ s \in Seq(UWORD) /\ Len(s) = Len(st)
  /\ \A j \in 1 .. Len(st) : s[j] = st[Len(st) + 1 - j]

LEMMA MirrorPush ==
  ASSUME NEW st \in Seq(UWORD), NEW s, Mirrors(s, st), NEW v \in UWORD
  PROVE  Mirrors(<<v>> \o s, Append(st, v))
<1> DEFINE n == Len(st)
           t == <<v>> \o s
           a == Append(st, v)
<1>1. n \in Nat /\ s \in Seq(UWORD) /\ Len(s) = n /\ \A j \in 1 .. n : s[j] = st[n + 1 - j]
  BY DEF Mirrors
<1>2. a \in Seq(UWORD) /\ Len(a) = n + 1 /\ a[n + 1] = v /\ \A j \in 1 .. n : a[j] = st[j]
  BY AppendProperties
<1>3. t \in Seq(UWORD) /\ Len(t) = n + 1 /\ t[1] = v /\ \A j \in 2 .. n + 1 : t[j] = s[j - 1]
  BY <1>1
<1> HIDE DEF n, t, a
<1>4. ASSUME NEW j \in 1 .. n + 1 PROVE t[j] = a[(n + 1) + 1 - j]
  <2>1. CASE j = 1
    <3>1. (n + 1) + 1 - j = n + 1
      BY <1>1, <2>1
    <3> QED
      BY <1>2, <1>3, <2>1, <3>1
  <2>2. CASE j # 1
    <3>1. j \in 2 .. n + 1 /\ j - 1 \in 1 .. n
      BY <1>1, <2>2
    <3>2. (n + 1) + 1 - j \in 1 .. n /\ n + 1 - (j - 1) = (n + 1) + 1 - j
      BY <1>1, <3>1
    <3> QED
      BY <1>1, <1>2, <1>3, <3>1, <3>2
  <2> QED
    BY <2>1, <2>2
<1>5. Mirrors(t, a)
  BY <1>2, <1>3, <1>4 DEF Mirrors
<1> QED
  BY <1>5 DEF t, a

LEMMA MirrorPop ==
  ASSUME NEW st \in Seq(UWORD), NEW s, Mirrors(s, st), Len(st) >= 1
  PROVE  Mirrors(Tail(s), SubSeq(st, 1, Len(st) - 1))
<1> DEFINE n == Len(st)
           t == Tail(s)
           a == SubSeq(st, 1, n - 1)
<1>1. n \in Nat /\ n >= 1 /\ s \in Seq(UWORD) /\ Len(s) = n /\ \A j \in 1 .. n : s[j] = st[n + 1 - j]
  BY DEF Mirrors
<1>2. a \in Seq(UWORD) /\ Len(a) = n - 1 /\ \A j \in 1 .. n - 1 : a[j] = st[j]
  BY <1>1
<1>3. t \in Seq(UWORD) /\ Len(t) = n - 1 /\ \A j \in 1 .. n - 1 : t[j] = s[j + 1]
  <2>1. s # <<>>
    BY <1>1
  <2> QED
    BY <1>1, <2>1, HeadTailProperties
<1> HIDE DEF n, t, a
<1>4. ASSUME NEW j \in 1 .. n - 1 PROVE t[j] = a[(n - 1) + 1 - j]
  <2>1. j + 1 \in 1 .. n /\ n + 1 - (j + 1) = (n - 1) + 1 - j /\ (n - 1) + 1 - j \in 1 .. n - 1
    BY <1>1
  <2> QED
    BY <1>1, <1>2, <1>3, <2>1
<1>5. Mirrors(t, a)
  BY <1>2, <1>3, <1>4 DEF Mirrors
<1> QED
  BY <1>5 DEF t, a, n

(* Operations on the evaluator's stack.                                    *)
LEMMA TopIsFirst ==
  ASSUME StackOK(stack), NEW s, Mirrors(s, stack), NEW k \in 1 .. Len(stack)
  PROVE  s[k] = Top(k) /\ s[k] \in UWORD
<1>1. s \in Seq(UWORD) /\ Len(s) = Len(stack) /\ Len(stack) \in Nat
  BY DEF Mirrors, StackOK
<1> QED
  BY <1>1 DEF Mirrors, Top

LEMMA PopMirrors ==
  ASSUME StackOK(stack), NEW s, Mirrors(s, stack), Len(stack) >= 1
  PROVE  Mirrors(Tail(s), Popped(1)) /\ Popped(1) \in Seq(UWORD)
BY MirrorPop, PoppedStack DEF Popped, StackOK

LEMMA PopTwoMirrors ==
  ASSUME StackOK(stack), NEW s, Mirrors(s, stack), Len(stack) >= 2
  PROVE  Mirrors(Tail(Tail(s)), Popped(2)) /\ Popped(2) \in Seq(UWORD)
<1>1. stack \in Seq(UWORD) /\ Len(stack) \in Nat
  BY DEF StackOK
<1> DEFINE a == Popped(1)
<1>2. Mirrors(Tail(s), a) /\ a \in Seq(UWORD) /\ Len(a) = Len(stack) - 1
  <2>1. 1 \in Nat /\ 1 <= Len(stack)
    BY <1>1
  <2> QED
    BY <1>1, <2>1, PopMirrors, PoppedStack
<1>3. SubSeq(a, 1, Len(a) - 1) = Popped(2)
  <2>1. a = SubSeq(stack, 1, Len(stack) - 1) /\ Popped(2) = SubSeq(stack, 1, Len(stack) - 2)
    BY DEF Popped
  <2> HIDE DEF a
  <2> QED
    BY <1>1, <1>2, <2>1
<1> HIDE DEF a
<1>4. Mirrors(Tail(Tail(s)), SubSeq(a, 1, Len(a) - 1)) /\ SubSeq(a, 1, Len(a) - 1) \in Seq(UWORD)
  <2>1. Len(a) >= 1
    BY <1>1, <1>2
  <2>2. SubSeq(a, 1, Len(a) - 1) \in Seq(UWORD)
    BY <1>2, <2>1
  <2> QED
    BY <1>2, <2>1, <2>2, MirrorPop
<1> QED
  BY <1>3, <1>4

LEMMA SwapMirrors ==
  ASSUME StackOK(stack), NEW s, Mirrors(s, stack), Len(stack) >= 2
  PROVE  Mirrors([s EXCEPT ![1] = s[2], ![2] = s[1]], Popped(2) \o <<Top(1), Top(2)>>)
<1> DEFINE n == Len(stack)
           t == [s EXCEPT ![1] = s[2], ![2] = s[1]]
           a == Popped(2) \o <<Top(1), Top(2)>>
<1>1. n \in Nat /\ n >= 2 /\ stack \in Seq(UWORD) /\ s \in Seq(UWORD) /\ Len(s) = n
      /\ \A j \in 1 .. n : s[j] = stack[n + 1 - j]
  BY DEF Mirrors, StackOK
<1>2. t \in Seq(UWORD) /\ Len(t) = n /\ t[1] = s[2] /\ t[2] = s[1] /\ \A j \in 3 .. n : t[j] = s[j]
  BY <1>1
<1>3. Popped(2) \in Seq(UWORD) /\ Len(Popped(2)) = n - 2 /\ \A j \in 1 .. n - 2 : Popped(2)[j] = stack[j]
  BY <1>1 DEF Popped
<1>4. Top(1) = s[1] /\ Top(2) = s[2] /\ s[1] \in UWORD /\ s[2] \in UWORD
  BY <1>1, TopIsFirst
<1>5. Len(a) = n /\ a[n - 1] = s[1] /\ a[n] = s[2] /\ \A j \in 1 .. n - 2 : a[j] = stack[j]
  <2> SUFFICES ASSUME NEW p \in Seq(UWORD), Len(p) = n - 2, NEW x \in UWORD, NEW y \in UWORD
               PROVE  /\ Len(p \o <<x, y>>) = n
                      /\ (p \o <<x, y>>)[n - 1] = x /\ (p \o <<x, y>>)[n] = y
                      /\ \A j \in 1 .. n - 2 : (p \o <<x, y>>)[j] = p[j]
    BY <1>3, <1>4
  <2> HIDE DEF n
  <2> DEFINE q == <<x, y>>
  <2>1. q \in Seq(UWORD) /\ Len(q) = 2 /\ q[1] = x /\ q[2] = y
    OBVIOUS
  <2> HIDE DEF q
  <2>2. Len(p \o q) = n /\ \A j \in 1 .. n : (p \o q)[j] = IF j <= n - 2 THEN p[j] ELSE q[j - (n - 2)]
    <3>1. Len(p) + Len(q) = n /\ Len(p) = n - 2
      BY <1>1, <2>1
    <3>2. /\ Len(p \o q) = Len(p) + Len(q)
          /\ \A j \in 1 .. Len(p) + Len(q) : (p \o q)[j] = IF j <= Len(p) THEN p[j] ELSE q[j - Len(p)]
      BY <2>1, ConcatProperties
    <3> QED
      BY <3>1, <3>2
  <2>3. /\ n - 1 \in 1 .. n /\ (n - 1) - (n - 2) = 1 /\ ~(n - 1 <= n - 2)
        /\ n \in 1 .. n /\ n - (n - 2) = 2 /\ ~(n <= n - 2)
        /\ \A j \in 1 .. n - 2 : j \in 1 .. n /\ j <= n - 2
    BY <1>1
  <2>4. (p \o q)[n - 1] = x /\ (p \o q)[n] = y /\ \A j \in 1 .. n - 2 : (p \o q)[j] = p[j]
    BY <2>1, <2>2, <2>3
  <2> QED
    BY <2>2, <2>4 DEF q
<1> HIDE DEF n, t, a
<1>6. ASSUME NEW j \in 1 .. n PROVE t[j] = a[n + 1 - j]
  <2>1. CASE j = 1
    BY <1>1, <1>2, <1>5, <2>1
  <2>2. CASE j = 2
    <3>1. n + 1 - j = n - 1
      BY <1>1, <2>2
    <3> QED
      BY <1>2, <1>5, <2>2, <3>1
  <2>3. CASE j \in 3 .. n
    <3>1. n + 1 - j \in 1 .. n - 2
      BY <1>1, <2>3
    <3> QED
      BY <1>1, <1>2, <1>5, <2>3, <3>1
  <2> QED
    BY <1>1, <2>1, <2>2, <2>3
<1>7. Mirrors(t, a)
  BY <1>2, <1>5, <1>6 DEF Mirrors
<1> QED
  BY <1>7 DEF t, a

LEMMA RotMirrors ==
  ASSUME StackOK(stack), NEW s, Mirrors(s, stack), Len(stack) >= 3
  PROVE  Mirrors([s EXCEPT ![1] = s[2], ![2] = s[3], ![3] = s[1]], Popped(3) \o <<Top(1), Top(3), Top(2)>>)
<1> DEFINE n == Len(stack)
           t == [s EXCEPT ![1] = s[2], ![2] = s[3], ![3] = s[1]]
           a == Popped(3) \o <<Top(1), Top(3), Top(2)>>
<1>1. n \in Nat /\ n >= 3 /\ stack \in Seq(UWORD) /\ s \in Seq(UWORD) /\ Len(s) = n
      /\ \A j \in 1 .. n : s[j] = stack[n + 1 - j]
  BY DEF Mirrors, StackOK
<1>2. t \in Seq(UWORD) /\ Len(t) = n /\ t[1] = s[2] /\ t[2] = s[3] /\ t[3] = s[1] /\ \A j \in 4 .. n : t[j] = s[j]
  BY <1>1
<1>3. Popped(3) \in Seq(UWORD) /\ Len(Popped(3)) = n - 3 /\ \A j \in 1 .. n - 3 : Popped(3)[j] = stack[j]
  BY <1>1 DEF Popped
<1>4. /\ Top(1) = s[1] /\ Top(2) = s[2] /\ Top(3) = s[3]
      /\ s[1] \in UWORD /\ s[2] \in UWORD /\ s[3] \in UWORD
  BY <1>1, TopIsFirst
<1>5. Len(a) = n /\ a[n - 2] = s[1] /\ a[n - 1] = s[3] /\ a[n] = s[2] /\ \A j \in 1 .. n - 3 : a[j] = stack[j]
  <2> SUFFICES ASSUME NEW p \in Seq(UWORD), Len(p) = n - 3, NEW x \in UWORD, NEW y \in UWORD, NEW z \in UWORD
               PROVE  /\ Len(p \o <<x, y, z>>) = n
                      /\ (p \o <<x, y, z>>)[n - 2] = x /\ (p \o <<x, y, z>>)[n - 1] = y
                      /\ (p \o <<x, y, z>>)[n] = z
                      /\ \A j \in 1 .. n - 3 : (p \o <<x, y, z>>)[j] = p[j]
    BY <1>3, <1>4
  <2> HIDE DEF n
  <2> DEFINE q == <<x, y, z>>
  <2>1. q \in Seq(UWORD) /\ Len(q) = 3 /\ q[1] = x /\ q[2] = y /\ q[3] = z
    OBVIOUS
  <2> HIDE DEF q
  <2>2. Len(p \o q) = n /\ \A j \in 1 .. n : (p \o q)[j] = IF j <= n - 3 THEN p[j] ELSE q[j - (n - 3)]
    <3>1. Len(p) + Len(q) = n /\ Len(p) = n - 3
      BY <1>1, <2>1
    <3>2. /\ Len(p \o q) = Len(p) + Len(q)
          /\ \A j \in 1 .. Len(p) + Len(q) : (p \o q)[j] = IF j <= Len(p) THEN p[j] ELSE q[j - Len(p)]
      BY <2>1, ConcatProperties
    <3> QED
      BY <3>1, <3>2
  <2>3. /\ n - 2 \in 1 .. n /\ (n - 2) - (n - 3) = 1 /\ ~(n - 2 <= n - 3)
        /\ n - 1 \in 1 .. n /\ (n - 1) - (n - 3) = 2 /\ ~(n - 1 <= n - 3)
        /\ n \in 1 .. n /\ n - (n - 3) = 3 /\ ~(n <= n - 3)
        /\ \A j \in 1 .. n - 3 : j \in 1 .. n /\ j <= n - 3
    BY <1>1
  <2>4. (p \o q)[n - 2] = x /\ (p \o q)[n - 1] = y /\ (p \o q)[n] = z /\ \A j \in 1 .. n - 3 : (p \o q)[j] = p[j]
    BY <2>1, <2>2, <2>3
  <2> QED
    BY <2>2, <2>4 DEF q
<1> HIDE DEF n, t, a
<1>6. ASSUME NEW j \in 1 .. n PROVE t[j] = a[n + 1 - j]
  <2>1. CASE j = 1
    BY <1>1, <1>2, <1>5, <2>1
  <2>2. CASE j = 2
    <3>1. n + 1 - j = n - 1
      BY <1>1, <2>2
    <3> QED
      BY <1>2, <1>5, <2>2, <3>1
  <2>3. CASE j = 3
    <3>1. n + 1 - j = n - 2
      BY <1>1, <2>3
    <3> QED
      BY <1>2, <1>5, <2>3, <3>1
  <2>4. CASE j \in 4 .. n
    <3>1. n + 1 - j \in 1 .. n - 3
      BY <1>1, <2>4
    <3> QED
      BY <1>1, <1>2, <1>5, <2>4, <3>1
  <2> QED
    BY <1>1, <2>1, <2>2, <2>3, <2>4
<1>7. Mirrors(t, a)
  BY <1>2, <1>5, <1>6 DEF Mirrors
<1> QED
  BY <1>7 DEF t, a

(* What an operation that goes on leaves.                                  *)
LEMMA GoesOn ==
  ASSUME NEW st, NEW out, out.res = "next"
  PROVE  /\ out \in Goes(st, 0) => out.skip = 0 /\ out.stack = st
         /\ out \notin Fails /\ out \notin Crashes
BY DEF Goes, Fails, Crashes

LEMMA PushGoesOn ==
  ASSUME StackOK(stack), NEW s, Mirrors(s, stack), NEW v \in UWORD,
         NEW out \in push_expr_tkn(stack, v), out.res = "next"
  PROVE  out.skip = 0 /\ Mirrors(<<v>> \o s, out.stack)
<1>1. out \in Goes(Append(stack, v), 0)
  BY GoesOn DEF push_expr_tkn
<1> QED
  BY <1>1, GoesOn, MirrorPush DEF StackOK

LEMMA PopsGoesOn ==
  ASSUME StackOK(stack), NEW n \in Nat, NEW R, NEW out \in Pops(n, R), out.res = "next"
  PROVE  Len(stack) >= n /\ out \in R
<1>1. Len(stack) \in Nat
  BY DEF StackOK
<1> QED
  BY <1>1, GoesOn DEF Pops

(* An operation of the code is the standard's.                             *)
LEMMA StepMirrors ==
  ASSUME StackOK(stack), NEW o \in Operation, o.op \in Straight, NEW s, Mirrors(s, stack),
         NEW out \in parse_opcode(o), out.res = "next"
  PROVE  out.skip = 0 /\ Mirrors(DwarfStep(o, s), out.stack)
<1>1. o.a \in Int /\ (o.op = "pick" => o.a >= 0) /\ stack \in Seq(UWORD) /\ Len(stack) \in Nat
  BY DEF Operation, StackOK
<1>2. CASE o.op \in {"const", "lit", "addr", "fbreg", "call_frame_cfa"}
  <2> DEFINE v == CASE o.op \in {"const", "lit"} -> o.a
                    [] o.op = "addr" -> o.a + Frame.load_address
                    [] o.op = "fbreg" -> o.a + Frame.frame_base
                    [] o.op = "call_frame_cfa" -> Frame.caller_sp
  <2>1. Pushed(o) = {v}
    BY <1>2 DEF Pushed
  <2>2. v \in Int
    BY <1>1, <1>2, ScenariosAssumption
  <2>3. DwarfStep(o, s) = <<Word(v)>> \o s
    <3>1. /\ Frame.load_address \in Int /\ Frame.frame_base \in Int
      BY ScenariosAssumption
    <3>2. o.a + Frame.load_address = Frame.load_address + o.a /\ o.a + Frame.frame_base = Frame.frame_base + o.a
      BY <1>1, <3>1
    <3> QED
      BY <1>2, <3>2 DEF DwarfStep, UnaryOps, BinaryOps, UBinary, SBinary
  <2> HIDE DEF v
  <2>4. o.op \in Pushes
    BY <1>2 DEF Pushes
  <2>5. /\ o.op \notin UnaryOps /\ o.op \notin BinaryOps
        /\ o.op \notin {"deref", "dup", "drop", "over", "pick", "swap", "rot", "skip", "bra",
                        "nop", "stack_value", "implicit_value", "implicit_pointer"}
    BY <1>2 DEF UnaryOps, BinaryOps, UBinary, SBinary
  <2>6. out \in IF Pushed(o) = {} THEN Fails ELSE UNION {push_expr_tkn(stack, Word(x)) : x \in Pushed(o)}
    BY <2>4, <2>5, Zenon DEF parse_opcode
  <2>7. out \in push_expr_tkn(stack, Word(v))
    BY <2>1, <2>6
  <2> QED
    BY <2>2, <2>3, <2>7, Words, PushGoesOn
<1>3. CASE o.op \in UnaryOps
  <2>1. out \in Pops(1, Goes(Append(Popped(1), Word(Unary(o.op, o.a, Top(1)))), 0))
    BY <1>3 DEF parse_opcode, UnaryOps, Pushes, BinaryOps, UBinary, SBinary
  <2>2. Len(stack) >= 1 /\ out \in Goes(Append(Popped(1), Word(Unary(o.op, o.a, Top(1)))), 0)
    BY <2>1, PopsGoesOn
  <2>3. s[1] = Top(1) /\ s[1] \in UWORD
    BY <1>1, <2>2, TopIsFirst
  <2> DEFINE v == DwarfUnary(o.op, o.a, s[1])
  <2>4. Word(Unary(o.op, o.a, Top(1))) = v /\ v \in UWORD
    <3>1. Unary(o.op, o.a, Top(1)) \in Int
      BY <1>1, <1>3, <2>3, UnaryValues
    <3> QED
      BY <1>1, <1>3, <2>3, <3>1, UnaryMeans, Words
  <2>5. DwarfStep(o, s) = <<v>> \o Tail(s)
    BY <1>3 DEF DwarfStep, UnaryOps, BinaryOps, UBinary, SBinary
  <2> HIDE DEF v
  <2>6. Mirrors(<<v>> \o Tail(s), Append(Popped(1), v))
    BY <2>2, <2>4, PopMirrors, MirrorPush
  <2> QED
    BY <2>2, <2>4, <2>5, <2>6, GoesOn
<1>4. CASE o.op \in BinaryOps
  <2>0. o.op \in BinaryOps \ {"shl", "shr", "shra"}
    BY <1>4 DEF Straight, UnaryOps
  <2>1. out \in Pops(2, IF Traps(o.op, Top(2), Top(1)) THEN Crashes
                        ELSE Goes(Append(Popped(2), Word(Binary(o.op, Top(2), Top(1)))), 0))
    BY <1>4 DEF parse_opcode, UnaryOps, Pushes, BinaryOps, UBinary, SBinary
  <2>2. Len(stack) >= 2 /\ ~Traps(o.op, Top(2), Top(1))
        /\ out \in Goes(Append(Popped(2), Word(Binary(o.op, Top(2), Top(1)))), 0)
    <3>1. Len(stack) >= 2 /\ out \in IF Traps(o.op, Top(2), Top(1)) THEN Crashes
                        ELSE Goes(Append(Popped(2), Word(Binary(o.op, Top(2), Top(1)))), 0)
      BY <2>1, PopsGoesOn
    <3> QED
      BY <3>1, GoesOn
  <2>3. s[1] = Top(1) /\ s[1] \in UWORD /\ s[2] = Top(2) /\ s[2] \in UWORD
    BY <1>1, <2>2, TopIsFirst
  <2> DEFINE v == DwarfBinary(o.op, s[2], s[1])
  <2>4. Word(Binary(o.op, Top(2), Top(1))) = v /\ v \in UWORD
    <3>1. Binary(o.op, Top(2), Top(1)) \in Int
      BY <1>4, <2>2, <2>3, BinaryValues
    <3> QED
      BY <2>0, <2>2, <2>3, <3>1, BinaryMeans, Words
  <2>5. DwarfStep(o, s) = <<v>> \o Tail(Tail(s))
    BY <1>4 DEF DwarfStep, UnaryOps, BinaryOps, UBinary, SBinary
  <2> HIDE DEF v
  <2>6. Mirrors(<<v>> \o Tail(Tail(s)), Append(Popped(2), v))
    BY <2>2, <2>4, PopTwoMirrors, MirrorPush
  <2> QED
    BY <2>2, <2>4, <2>5, <2>6, GoesOn
<1>5. CASE o.op = "deref"
  <2>1. out \in parse_op_deref
    BY <1>5 DEF parse_opcode, UnaryOps, Pushes, BinaryOps, UBinary, SBinary
  <2>2. Len(stack) >= 1 /\ Top(1) \in DOMAIN Memory /\ out \in Goes(Append(Popped(1), Memory[Top(1)]), 0)
    <3>1. Len(stack) >= 1 /\ out \in IF alive = "yes" /\ Top(1) \in DOMAIN Memory
                                     THEN Goes(Append(Popped(1), Memory[Top(1)]), 0) ELSE Fails
      BY <2>1, PopsGoesOn DEF parse_op_deref
    <3> QED
      BY <3>1, GoesOn
  <2>3. s[1] = Top(1)
    BY <1>1, <2>2, TopIsFirst
  <2> DEFINE v == Memory[s[1]]
  <2>4. Memory[Top(1)] = v /\ v \in UWORD
    BY <2>2, <2>3, ScenariosAssumption
  <2>5. DwarfStep(o, s) = <<v>> \o Tail(s)
    BY <1>5 DEF DwarfStep, UnaryOps, BinaryOps, UBinary, SBinary
  <2> HIDE DEF v
  <2>6. Mirrors(<<v>> \o Tail(s), Append(Popped(1), v))
    BY <2>2, <2>4, PopMirrors, MirrorPush
  <2> QED
    BY <2>2, <2>4, <2>5, <2>6, GoesOn
<1>6. CASE o.op = "dup"
  <2>1. out \in Pops(1, push_expr_tkn(stack, Top(1)))
    BY <1>6 DEF parse_opcode, parse_op_dup, UnaryOps, Pushes, BinaryOps, UBinary, SBinary
  <2>2. Len(stack) >= 1 /\ out \in push_expr_tkn(stack, Top(1))
    BY <2>1, PopsGoesOn
  <2>3. s[1] = Top(1) /\ s[1] \in UWORD /\ DwarfStep(o, s) = <<s[1]>> \o s
    BY <1>1, <1>6, <2>2, TopIsFirst DEF DwarfStep, UnaryOps, BinaryOps, UBinary, SBinary
  <2> QED
    BY <2>2, <2>3, PushGoesOn
<1>7. CASE o.op = "over"
  <2>1. out \in parse_op_pick(1)
    BY <1>7 DEF parse_opcode, UnaryOps, Pushes, BinaryOps, UBinary, SBinary
  <2>2. Len(stack) >= 2 /\ out \in push_expr_tkn(stack, Top(1 + 1))
    <3>1. ~(1 >= Len(stack)) /\ out \in push_expr_tkn(stack, Top(1 + 1))
      BY <2>1, GoesOn DEF parse_op_pick
    <3> QED
      BY <1>1, <3>1
  <2>3. s[2] = Top(1 + 1) /\ s[2] \in UWORD /\ DwarfStep(o, s) = <<s[2]>> \o s
    BY <1>1, <1>7, <2>2, TopIsFirst DEF DwarfStep, UnaryOps, BinaryOps, UBinary, SBinary
  <2> QED
    BY <2>2, <2>3, PushGoesOn
<1>8. CASE o.op = "pick"
  <2>1. out \in parse_op_pick(o.a)
    BY <1>8 DEF parse_opcode, UnaryOps, Pushes, BinaryOps, UBinary, SBinary
  <2>2. o.a + 1 \in 1 .. Len(stack) /\ out \in push_expr_tkn(stack, Top(o.a + 1))
    <3>1. ~(o.a >= Len(stack)) /\ out \in push_expr_tkn(stack, Top(o.a + 1))
      BY <2>1, GoesOn DEF parse_op_pick
    <3> QED
      BY <1>1, <1>8, <3>1
  <2>3. s[o.a + 1] = Top(o.a + 1) /\ s[o.a + 1] \in UWORD
    BY <1>1, <2>2, TopIsFirst
  <2>4. DwarfStep(o, s) = <<s[o.a + 1]>> \o s
    BY <1>8 DEF DwarfStep, UnaryOps, BinaryOps, UBinary, SBinary
  <2> QED
    BY <2>2, <2>3, <2>4, PushGoesOn
<1>9. CASE o.op = "drop"
  <2>1. out \in Pops(1, Goes(Popped(1), 0))
    BY <1>9 DEF parse_opcode, UnaryOps, Pushes, BinaryOps, UBinary, SBinary
  <2>2. Len(stack) >= 1 /\ out \in Goes(Popped(1), 0)
    BY <2>1, PopsGoesOn
  <2>3. DwarfStep(o, s) = Tail(s)
    BY <1>9 DEF DwarfStep, UnaryOps, BinaryOps, UBinary, SBinary
  <2> QED
    BY <2>2, <2>3, GoesOn, PopMirrors
<1>10. CASE o.op = "swap"
  <2>1. out \in Pops(2, Goes(Popped(2) \o <<Top(1), Top(2)>>, 0))
    BY <1>10 DEF parse_opcode, parse_op_swap, UnaryOps, Pushes, BinaryOps, UBinary, SBinary
  <2>2. Len(stack) >= 2 /\ out \in Goes(Popped(2) \o <<Top(1), Top(2)>>, 0)
    BY <2>1, PopsGoesOn
  <2>3. DwarfStep(o, s) = [s EXCEPT ![1] = s[2], ![2] = s[1]]
    BY <1>10 DEF DwarfStep, UnaryOps, BinaryOps, UBinary, SBinary
  <2> QED
    <3>1. out.skip = 0 /\ out.stack = Popped(2) \o <<Top(1), Top(2)>>
      BY <2>2, GoesOn
    <3>2. Mirrors([s EXCEPT ![1] = s[2], ![2] = s[1]], Popped(2) \o <<Top(1), Top(2)>>)
      BY <2>2, SwapMirrors
    <3> QED
      BY <2>3, <3>1, <3>2, Zenon
<1>11. CASE o.op = "rot"
  <2>1. out \in Pops(3, Goes(Popped(3) \o <<Top(1), Top(3), Top(2)>>, 0))
    BY <1>11 DEF parse_opcode, parse_op_rot, UnaryOps, Pushes, BinaryOps, UBinary, SBinary
  <2>2. Len(stack) >= 3 /\ out \in Goes(Popped(3) \o <<Top(1), Top(3), Top(2)>>, 0)
    BY <2>1, PopsGoesOn
  <2>3. DwarfStep(o, s) = [s EXCEPT ![1] = s[2], ![2] = s[3], ![3] = s[1]]
    BY <1>11 DEF DwarfStep, UnaryOps, BinaryOps, UBinary, SBinary
  <2> QED
    <3>1. out.skip = 0 /\ out.stack = Popped(3) \o <<Top(1), Top(3), Top(2)>>
      BY <2>2, GoesOn
    <3>2. Mirrors([s EXCEPT ![1] = s[2], ![2] = s[3], ![3] = s[1]], Popped(3) \o <<Top(1), Top(3), Top(2)>>)
      BY <2>2, RotMirrors
    <3> QED
      BY <2>3, <3>1, <3>2, Zenon
<1>12. CASE o.op \in {"nop", "stack_value"}
  <2>1. out \in Goes(stack, 0) /\ DwarfStep(o, s) = s
    BY <1>12 DEF parse_opcode, DwarfStep, UnaryOps, Pushes, BinaryOps, UBinary, SBinary
  <2> QED
    BY <2>1, GoesOn
<1> QED
  BY <1>2, <1>3, <1>4, <1>5, <1>6, <1>7, <1>8, <1>9, <1>10, <1>11, <1>12 DEF Straight
-----------------------------------------------------------------------------
(***************************************************************************)
(* A run of the evaluator beside the standard's.  r is the standard's      *)
(* stack after each operation that has been carried out so far, and the    *)
(* evaluator's stack mirrors the last one.                                 *)
(***************************************************************************)
Follows(r, e, n)  == r[0] = <<>> /\ \A k \in 1 .. n : r[k] = DwarfStep(e[k], r[k - 1])
IsStraight(e)     == \A k \in DOMAIN e : e[k].op \in Straight
Alongside(r, e, n, st) == Follows(r, e, n) /\ Mirrors(r[n], st)

DwarfInv ==
  /\ at # "done" => result.is = "done"
  /\ initial = 0 /\ at \in {"prompt", "entry"} => stack = <<>>
  /\ initial = 0 /\ at = "run" /\ IsStraight(expr) =>
       i <= Len(expr) + 1 /\ \E r : Alongside(r, expr, i - 1, stack)
  /\ MatchesDwarf

(* DwarfStack, of any expression.                                          *)
StackOf(e) ==
  LET after[k \in 0 .. Len(e)] == IF k = 0 THEN <<>> ELSE DwarfStep(e[k], after[k - 1])
  IN  after[Len(e)]

LEMMA StackOfRun ==
  ASSUME NEW e, Len(e) \in Nat, NEW r, Follows(r, e, Len(e))
  PROVE  StackOf(e) = r[Len(e)]
<1> DEFINE n == Len(e)
           Eq(v) == v = [k \in 0 .. n |-> IF k = 0 THEN <<>> ELSE DwarfStep(e[k], v[k - 1])]
           v == CHOOSE v : Eq(v)
           t == [k \in 0 .. n |-> r[k]]
<1>1. StackOf(e) = v[n]
  BY DEF StackOf
<1>2. n \in Nat /\ r[0] = <<>> /\ \A k \in 1 .. n : r[k] = DwarfStep(e[k], r[k - 1])
  BY DEF Follows
<1>3. t = [k \in 0 .. n |-> t[k]] /\ \A k \in 0 .. n : t[k] = r[k]
  OBVIOUS
<1> HIDE DEF n, t
<1>4. ASSUME NEW k \in 0 .. n PROVE t[k] = IF k = 0 THEN <<>> ELSE DwarfStep(e[k], t[k - 1])
  <2>1. CASE k = 0
    BY <1>2, <1>3, <2>1
  <2>2. CASE k # 0
    <3>1. k \in 1 .. n /\ k - 1 \in 0 .. n
      BY <1>2, <2>2
    <3> QED
      BY <1>2, <1>3, <2>2, <3>1
  <2> QED
    BY <2>1, <2>2
<1>5. Eq(t)
  BY <1>3, <1>4
<1>6. Eq(v)
  <2> HIDE DEF Eq
  <2> QED
    BY <1>5
<1> HIDE DEF v
<1>7. v[0] = <<>> /\ \A k \in 1 .. n : v[k] = DwarfStep(e[k], v[k - 1])
  <2>1. \A k \in 0 .. n : v[k] = IF k = 0 THEN <<>> ELSE DwarfStep(e[k], v[k - 1])
    BY <1>6
  <2>2. 0 \in 0 .. n /\ \A k \in 1 .. n : k \in 0 .. n /\ k # 0
    BY <1>2
  <2> QED
    BY <2>1, <2>2, Zenon
<1>8. \A k \in 0 .. n : v[k] = r[k]
  <2> DEFINE P == {k \in 0 .. n : v[k] = r[k]}
  <2>1. 0 \in P
    BY <1>2, <1>7
  <2>2. ASSUME NEW k \in 1 .. n, k - 1 \in P PROVE k \in P
    <3>1. v[k - 1] = r[k - 1]
      BY <2>2
    <3>2. v[k] = DwarfStep(e[k], v[k - 1]) /\ r[k] = DwarfStep(e[k], r[k - 1])
      BY <1>2, <1>7
    <3>3. v[k] = r[k]
      BY <3>1, <3>2, Zenon
    <3>4. k \in 0 .. n
      BY <1>2
    <3> QED
      BY <3>3, <3>4
  <2>3. \A k \in 0 .. n : k \in P
    <3> HIDE DEF P
    <3> QED
      BY <1>2, <2>1, <2>2, InductionTo
  <2> QED
    BY <2>3
<1> QED
  BY <1>1, <1>2, <1>8 DEF n

(* One operation more.                                                     *)
LEMMA OneMore ==
  ASSUME LocInv, at = "run", i <= Len(expr), IsStraight(expr),
         NEW r, Alongside(r, expr, i - 1, stack),
         NEW out \in parse_opcode(expr[i]), out.res = "next"
  PROVE  out.skip = 0 /\ \E t : Alongside(t, expr, i, out.stack)
<1>1. expr \in Seq(Operation) /\ Len(expr) \in Nat /\ i \in 1 .. Len(expr)
  BY Lists DEF LocInv, TypeOK
<1>2. StackOK(stack)
  BY DEF LocInv, TypeOK, StackOK
<1>3. expr[i] \in Operation /\ expr[i].op \in Straight
  BY <1>1 DEF IsStraight
<1> DEFINE d == DwarfStep(expr[i], r[i - 1])
           t == [k \in 0 .. i |-> IF k = i THEN d ELSE r[k]]
<1>4. out.skip = 0 /\ Mirrors(d, out.stack)
  BY <1>2, <1>3, StepMirrors DEF Alongside
<1>5. r[0] = <<>> /\ \A k \in 1 .. i - 1 : r[k] = DwarfStep(expr[k], r[k - 1])
  BY DEF Alongside, Follows
<1>a. d = DwarfStep(expr[i], r[i - 1])
  OBVIOUS
<1> HIDE DEF d
<1>6. t[i] = d /\ \A k \in 0 .. i - 1 : t[k] = r[k]
  BY <1>1
<1> HIDE DEF t
<1>7. ASSUME NEW k \in 1 .. i PROVE t[k] = DwarfStep(expr[k], t[k - 1])
  <2>1. k - 1 \in 0 .. i - 1 /\ t[k - 1] = r[k - 1]
    BY <1>1, <1>6
  <2>2. CASE k = i
    BY <1>6, <1>a, <2>1, <2>2, Zenon
  <2>3. CASE k # i
    <3>1. k \in 1 .. i - 1 /\ k \in 0 .. i - 1
      BY <1>1, <2>3
    <3>2. t[k] = r[k] /\ r[k] = DwarfStep(expr[k], r[k - 1])
      BY <1>5, <1>6, <3>1
    <3> QED
      BY <2>1, <3>2, Zenon
  <2> QED
    BY <2>2, <2>3
<1>8. t[0] = <<>>
  BY <1>1, <1>5, <1>6
<1>9. Alongside(t, expr, i, out.stack)
  BY <1>4, <1>6, <1>7, <1>8, Zenon DEF Alongside, Follows
<1> QED
  BY <1>4, <1>9

LEMMA EmptyRun ==
  ASSUME NEW e
  PROVE  \E r : Alongside(r, e, 0, <<>>)
<1> DEFINE r == [k \in 0 .. 0 |-> <<>>]
<1>1. r[0] = <<>> /\ \A k \in 1 .. 0 : FALSE
  OBVIOUS
<1> HIDE DEF r
<1>2. Mirrors(r[0], <<>>)
  BY <1>1 DEF Mirrors
<1>3. Follows(r, e, 0)
  BY <1>1 DEF Follows
<1> QED
  BY <1>2, <1>3 DEF Alongside

(* No value, or the same one.                                              *)
LEMMA StillMatches ==
  ASSUME MatchesDwarf, result' = result, initial' = initial, expr' = expr
  PROVE  MatchesDwarf'
<1>1. DwarfStack = StackOf(expr) /\ DwarfStack' = StackOf(expr')
  BY DEF DwarfStack, StackOf
<1>2. DwarfStack' = DwarfStack
  BY <1>1
<1> QED
  BY <1>2 DEF MatchesDwarf

LEMMA NoValue ==
  ASSUME result'.is # "value"
  PROVE  MatchesDwarf'
BY DEF MatchesDwarf

THEOREM DwarfInvariant == Spec => []DwarfInv
<1>1. LocInit => DwarfInv
  <2>1. LocInit => result.is = "done" /\ stack = <<>> /\ at = "prompt"
    BY DEF LocInit, Done
  <2> QED
    BY <2>1 DEF DwarfInv, MatchesDwarf
<1>2. LocInv /\ DwarfInv /\ [Next]_vars => DwarfInv'
  <2> SUFFICES ASSUME LocInv, DwarfInv, [Next]_vars PROVE DwarfInv'
    OBVIOUS
  <2>0. at # "done" => result.is = "done"
    BY DEF DwarfInv
  <2>1. CASE Command
    <3>1. at = "prompt" /\ UNCHANGED <<initial, at, stack, result>>
      BY <2>1 DEF Command
    <3>2. MatchesDwarf'
      BY <2>0, <3>1, NoValue
    <3> QED
      BY <3>1, <3>2 DEF DwarfInv
  <2>2. CASE Locate
    <3>1. at = "prompt" /\ initial' = initial
      BY <2>2 DEF Locate
    <3>2. \/ at' = "done" /\ result'.is = "error"
          \/ at' = "entry" /\ result' = result /\ stack' = IF initial # 0 THEN <<initial>> ELSE <<>>
      BY <2>2 DEF Locate, Return, ErrorResult
    <3>3. MatchesDwarf'
      BY <2>0, <3>1, <3>2, NoValue
    <3> QED
      BY <2>0, <3>1, <3>2, <3>3 DEF DwarfInv
  <2>3. CASE ChooseEntry
    <3>1. at = "entry" /\ initial' = initial /\ stack' = stack /\ result' = result /\ (at' = "entry" \/ (at' = "run" /\ i' = 1))
      <4>1. at = "entry" /\ initial' = initial /\ stack' = stack
        BY <2>3 DEF ChooseEntry
      <4>2. result' = result
        BY <2>3 DEF ChooseEntry
      <4>3. at' = at \/ (at' = "run" /\ i' = 1)
        BY <2>3 DEF ChooseEntry
      <4> QED
        BY <4>1, <4>2, <4>3
    <3>2. MatchesDwarf'
      BY <2>0, <3>1, NoValue
    <3>3. ASSUME initial' = 0, at' = "run"
          PROVE  i' <= Len(expr') + 1 /\ \E r : Alongside(r, expr', i' - 1, stack')
      <4>1. i' = 1 /\ stack' = <<>> /\ i' - 1 = 0
        BY <3>1, <3>3 DEF DwarfInv
      <4>2. LocInv'
        BY <2>3, ChooseEntryKeeps
      <4>3. Len(expr') \in Nat
        <5>1. ListInv'
          BY <4>2 DEF LocInv
        <5>2. (locs \in Seq([lo: Nat, hi: Nat, expr: Seq(Operation)]) /\ expr \in Seq(Operation))'
          BY <5>1, Lists, PTL
        <5> QED
          BY <5>2
      <4>4. \E r : Alongside(r, expr', 0, <<>>)
        BY EmptyRun
      <4> QED
        BY <4>1, <4>3, <4>4
    <3> QED
      BY <2>0, <3>1, <3>2, <3>3 DEF DwarfInv
  <2>4. CASE RunOp
    <3>1. at = "run" /\ i <= Len(expr) /\ UNCHANGED <<initial, expr>>
      BY <2>4 DEF RunOp
    <3>2. PICK out \in parse_opcode(expr[i]) :
            \/ /\ out.res = "next"
               /\ stack' = out.stack
               /\ i' = IF out.skip = 0 THEN i + 1 ELSE Landing(out.skip)
               /\ UNCHANGED <<at, result>>
            \/ at' = "done" /\ result'.is \in {"error", "crash"}
      BY <2>4 DEF RunOp, Return, ErrorResult, Crash
    <3>3. MatchesDwarf'
      BY <2>0, <3>1, <3>2, NoValue
    <3>4. ASSUME initial' = 0, at' = "run", IsStraight(expr')
          PROVE  i' <= Len(expr') + 1 /\ \E r : Alongside(r, expr', i' - 1, stack')
      <4>1. initial = 0 /\ IsStraight(expr) /\ out.res = "next" /\ stack' = out.stack
            /\ i' = IF out.skip = 0 THEN i + 1 ELSE Landing(out.skip)
        BY <3>1, <3>2, <3>4
      <4>2. PICK r : Alongside(r, expr, i - 1, stack)
        BY <3>1, <4>1 DEF DwarfInv
      <4>3. out.skip = 0 /\ \E t : Alongside(t, expr, i, out.stack)
        BY <3>1, <4>1, <4>2, OneMore
      <4>4. i \in Nat /\ Len(expr) \in Nat
        BY Lists DEF LocInv, TypeOK
      <4>5. i' = i + 1 /\ i' - 1 = i /\ i' <= Len(expr) + 1
        BY <3>1, <4>1, <4>3, <4>4
      <4> QED
        BY <3>1, <4>1, <4>3, <4>5
    <3> QED
      BY <2>0, <3>1, <3>2, <3>3, <3>4 DEF DwarfInv
  <2>5. CASE EndOfExpr
    <3>1. at = "run" /\ i > Len(expr) /\ at' = "done" /\ UNCHANGED <<initial, expr>>
          /\ result' = IF stack = <<>> THEN ErrorResult ELSE [is |-> "value", value |-> Top(1)]
      BY <2>5 DEF EndOfExpr, Return
    <3>2. ASSUME result'.is = "value", initial' = 0, IsStraight(expr')
          PROVE  result'.value = Head(DwarfStack')
      <4>1. stack # <<>> /\ result'.value = Top(1) /\ initial = 0 /\ IsStraight(expr)
        BY <3>1, <3>2 DEF ErrorResult
      <4>2. PICK r : Alongside(r, expr, i - 1, stack)
        BY <3>1, <4>1 DEF DwarfInv
      <4>3. i \in Nat /\ Len(expr) \in Nat /\ i <= Len(expr) + 1
        BY <3>1, <4>1, Lists DEF LocInv, TypeOK, DwarfInv
      <4>4. i - 1 = Len(expr)
        BY <3>1, <4>3
      <4>5. Follows(r, expr, Len(expr)) /\ Mirrors(r[Len(expr)], stack)
        BY <4>2, <4>4 DEF Alongside
      <4>6. StackOf(expr) = r[Len(expr)]
        BY <4>3, <4>5, StackOfRun
      <4>7. DwarfStack' = StackOf(expr')
        BY DEF DwarfStack, StackOf
      <4>8. StackOK(stack) /\ 1 \in 1 .. Len(stack)
        BY <4>1 DEF LocInv, TypeOK, StackOK
      <4> DEFINE s == r[Len(expr)]
      <4>9. Mirrors(s, stack) /\ DwarfStack' = s
        BY <3>1, <4>5, <4>6, <4>7
      <4> HIDE DEF s
      <4>10. s[1] = Top(1)
        BY <4>8, <4>9, TopIsFirst
      <4>11. Head(s) = s[1]
        BY <4>8, <4>9 DEF Mirrors
      <4> QED
        BY <4>1, <4>9, <4>10, <4>11
    <3>3. MatchesDwarf'
      BY <3>2 DEF MatchesDwarf, IsStraight
    <3> QED
      BY <3>1, <3>3 DEF DwarfInv
  <2>6. CASE LibdwarfFails
    <3>1. at' = "done" /\ result'.is = "error"
      BY <2>6 DEF LibdwarfFails, Return, ErrorResult
    <3>2. MatchesDwarf'
      BY <3>1, NoValue
    <3> QED
      BY <3>1, <3>2 DEF DwarfInv
  <2>7. CASE (Killed /\ UNCHANGED evalVars) \/ UNCHANGED vars
    <3>1. UNCHANGED <<initial, at, i, expr, stack, result>>
      BY <2>7 DEF evalVars, vars
    <3>2. MatchesDwarf'
      BY <3>1, StillMatches DEF DwarfInv
    <3> QED
      BY <3>1, <3>2 DEF DwarfInv
  <2> QED
    BY <2>1, <2>2, <2>3, <2>4, <2>5, <2>6, <2>7 DEF Next, Evaluate
<1> QED
  BY <1>1, <1>2, LocInvariant, PTL DEF Spec

THEOREM DwarfCorrect == Spec => []MatchesDwarf
<1>1. DwarfInv => MatchesDwarf
  BY DEF DwarfInv
<1> QED
  BY <1>1, DwarfInvariant, PTL
=============================================================================
