-------------------------- MODULE ArithmeticProofs --------------------------
(***************************************************************************)
(* Lemmas about numbers that the proofs of the components rest on, for     *)
(* every width of the program's integers.                                  *)
(*                                                                         *)
(* First its arithmetic: counters that wrap, products and quotients that   *)
(* round down.  Then induction without operator parameters, and what it    *)
(* gives for the sums and folds of the community modules over finite sets: *)
(* an induction hypothesis is a SET of naturals, or of subsets, for which  *)
(* the property holds, which is a first-order parameter.                   *)
(***************************************************************************)
EXTENDS PoolMath, FiniteSetsExt, FiniteSetTheorems, TLAPS

(***************************************************************************)
(* Counters that wrap.                                                     *)
(***************************************************************************)

\* A wrapped u64 sum or difference is a u64.
LEMMA WrapType ==
  ASSUME NEW a \in Int, NEW b \in Int
  PROVE  Add64(a, b) \in U64 /\ Sub64(a, b) \in U64
  BY U64MaxAssumption DEF Add64, Sub64, U64

\* Quotient and remainder.
LEMMA DivMod ==
  ASSUME NEW a \in Int, NEW M \in Nat \ {0}
  PROVE  a = M * (a \div M) + (a % M) /\ a % M \in 0 .. M - 1 /\ a \div M \in Int
  OBVIOUS

\* A remainder is determined: two ways of dividing one number by M agree.
LEMMA RemainderUnique ==
  ASSUME NEW M \in Nat \ {0}, NEW q \in Int, NEW r \in 0 .. M - 1,
         NEW p \in Int, NEW s \in 0 .. M - 1, M * q + r = M * p + s
  PROVE  r = s
  <1>1. M * (q - p) = s - r
    OBVIOUS
  <1>2. CASE q - p >= 1
    <2>1. M * (q - p) >= M
      BY <1>2
    <2>2. QED BY <2>1, <1>1
  <1>3. CASE q - p <= -1
    <2>1. M * (q - p) <= -M
      BY <1>3
    <2>2. QED BY <2>1, <1>1
  <1>4. CASE q = p
    BY <1>4
  <1>5. QED BY <1>2, <1>3, <1>4

\* Wrapping before an addition makes no difference to the wrapped sum.
LEMMA ModAdd ==
  ASSUME NEW M \in Nat \ {0}, NEW a \in Int, NEW b \in Int
  PROVE  ((a % M) + b) % M = (a + b) % M
  <1> DEFINE r == a % M
             q == a \div M
  <1>1. a = M * q + r /\ r \in 0 .. M - 1 /\ q \in Int
    OBVIOUS
  <1> HIDE DEF r, q
  <1> DEFINE s == (r + b) % M
             p == (r + b) \div M
             t == (a + b) % M
             o == (a + b) \div M
  <1>2. r + b = M * p + s /\ s \in 0 .. M - 1 /\ p \in Int
    BY <1>1
  <1>3. a + b = M * o + t /\ t \in 0 .. M - 1 /\ o \in Int
    OBVIOUS
  <1> HIDE DEF s, p, t, o
  <1>4. M * o + t = M * (p + q) + s /\ p + q \in Int
    BY <1>1, <1>2, <1>3
  <1>5. t = s
    BY <1>2, <1>3, <1>4, RemainderUnique
  <1>6. QED BY <1>5 DEF s, t, r

\* A counter that has wrapped gives the same sums and differences, as u64.
LEMMA WrapTwice ==
  ASSUME NEW a \in Int, NEW b \in Int, NEW n \in Int
  PROVE  /\ Add64(Add64(a, b), n) = Add64(a + b, n)
         /\ Sub64(Add64(a, b), n) = Sub64(a + b, n)
  <1>1. U64Max + 1 \in Nat \ {0} /\ a + b \in Int /\ -n \in Int
    BY U64MaxAssumption
  <1>2. (((a + b) % (U64Max + 1)) + n) % (U64Max + 1)
          = (a + b + n) % (U64Max + 1)
    BY <1>1, ModAdd
  <1>3. (((a + b) % (U64Max + 1)) + (-n)) % (U64Max + 1)
          = (a + b + (-n)) % (U64Max + 1)
    BY <1>1, ModAdd
  <1>4. QED
    BY <1>1, <1>2, <1>3, U64MaxAssumption DEF Add64, Sub64

\* Adding a u64 to a u64 counter either is exact or leaves it smaller;
\* subtracting either is exact or leaves it larger.
LEMMA WrapCases ==
  ASSUME NEW c \in U64, NEW n \in U64
  PROVE  /\ Add64(c, n) = c + n \/ Add64(c, n) = c + n - (U64Max + 1)
         /\ Add64(c, n) >= c => Add64(c, n) = c + n
         /\ Sub64(c, n) = c - n \/ Sub64(c, n) = c - n + (U64Max + 1)
         /\ Sub64(c, n) <= c => Sub64(c, n) = c - n
  <1> DEFINE M == U64Max + 1
  <1>1. M \in Nat \ {0} /\ c \in 0 .. M - 1 /\ n \in 0 .. M - 1
    BY U64MaxAssumption DEF U64
  <1>2. (c + n) % M = c + n \/ (c + n) % M = c + n - M
    <2> DEFINE r == (c + n) % M
               q == (c + n) \div M
    <2>1. c + n = M * q + r /\ r \in 0 .. M - 1 /\ q \in Int
      BY <1>1
    <2> HIDE DEF M, r, q
    <2>2. CASE c + n < M
      <3>1. M * q + r = M * 0 + (c + n) /\ c + n \in 0 .. M - 1
        BY <1>1, <2>1, <2>2
      <3>2. r = c + n
        BY <1>1, <2>1, <3>1, RemainderUnique
      <3>3. QED BY <3>2 DEF r
    <2>3. CASE c + n >= M
      <3>1. M * q + r = M * 1 + (c + n - M) /\ c + n - M \in 0 .. M - 1
        BY <1>1, <2>1, <2>3
      <3>2. r = c + n - M
        BY <1>1, <2>1, <3>1, RemainderUnique
      <3>3. QED BY <3>2 DEF r
    <2>4. QED BY <1>1, <2>2, <2>3
  <1>3. (c - n) % M = c - n \/ (c - n) % M = c - n + M
    <2> DEFINE r == (c - n) % M
               q == (c - n) \div M
    <2>1. c - n = M * q + r /\ r \in 0 .. M - 1 /\ q \in Int
      BY <1>1, c - n \in Int, DivMod
    <2> HIDE DEF M, r, q
    <2>2. CASE c >= n
      <3>1. M * q + r = M * 0 + (c - n) /\ c - n \in 0 .. M - 1
        BY <1>1, <2>1, <2>2
      <3>2. r = c - n
        BY <1>1, <2>1, <3>1, RemainderUnique
      <3>3. QED BY <3>2 DEF r
    <2>3. CASE c < n
      <3>1. M * q + r = M * (-1) + (c - n + M) /\ c - n + M \in 0 .. M - 1
        BY <1>1, <2>1, <2>3
      <3>2. r = c - n + M
        BY <1>1, <2>1, <3>1, RemainderUnique
      <3>3. QED BY <3>2 DEF r
    <2>4. QED BY <1>1, <2>2, <2>3
  <1> HIDE DEF M
  <1>4. Add64(c, n) = (c + n) % M /\ Sub64(c, n) = (c - n) % M
    BY DEF Add64, Sub64, M
  <1>5. QED BY <1>1, <1>2, <1>3, <1>4 DEF M

-----------------------------------------------------------------------------
(***************************************************************************)
(* Quotients.                                                              *)
(***************************************************************************)

\* Integer division rounds down, by less than the divisor.
LEMMA DivFacts ==
  ASSUME NEW a \in Nat, NEW d \in Nat \ {0}
  PROVE  /\ a \div d \in Nat
         /\ (a \div d) * d <= a /\ a < ((a \div d) + 1) * d
  <1> DEFINE q == a \div d
             r == a % d
  <1>1. a = d * q + r /\ r \in 0 .. d - 1 /\ q \in Int
    OBVIOUS
  <1> HIDE DEF q, r
  <1>2. q >= 0
    <2>1. SUFFICES ASSUME q <= -1 PROVE FALSE
      BY <1>1
    <2>2. d * q <= -d
      BY <1>1, <2>1
    <2>3. QED BY <1>1, <2>2
  <1>3. q * d <= a /\ a < (q + 1) * d
    BY <1>1
  <1>4. QED BY <1>1, <1>2, <1>3 DEF q

\* A checked product and quotient that does not fail is the exact quotient,
\* rounded down, of a divisor that is not zero.
LEMMA MulDivFacts ==
  ASSUME NEW a \in Nat, NEW n \in Nat, NEW d \in Nat,
         CheckedMulDiv(a, n, d) \in U64
  PROVE  /\ d # 0
         /\ CheckedMulDiv(a, n, d) * d <= a * n
         /\ a * n < (CheckedMulDiv(a, n, d) + 1) * d
  <1>1. d # 0 /\ d \in Nat \ {0}
    BY U64MaxAssumption DEF CheckedMulDiv, None, U64
  <1>2. a * n \in Nat
    OBVIOUS
  <1> DEFINE x == a * n
             q == x \div d
  <1>3. q \in Nat /\ q * d <= x /\ x < (q + 1) * d
    BY <1>1, <1>2, DivFacts
  <1>4. CheckedMulDiv(a, n, d) = q
    <2>1. CheckedMulDiv(a, n, d) = IF q <= U64Max THEN q ELSE None
      BY <1>1 DEF CheckedMulDiv
    <2> HIDE DEF q
    <2>2. QED BY <2>1, U64MaxAssumption DEF None, U64
  <1>5. QED BY <1>1, <1>3, <1>4

\* A quantity priced by proportional, when that does not fail: the exact
\* quotient rounded down, or the quantity itself when the divisor is zero.
LEMMA ProportionalFacts ==
  ASSUME NEW a \in Nat, NEW n \in Nat, NEW d \in Nat,
         proportional(a, n, d) \in U64
  PROVE  IF d = 0 THEN proportional(a, n, d) = a
         ELSE /\ proportional(a, n, d) * d <= a * n
              /\ a * n < (proportional(a, n, d) + 1) * d
  BY MulDivFacts DEF proportional

-----------------------------------------------------------------------------
(***************************************************************************)
(* Induction and sums.                                                     *)
(***************************************************************************)

\* Induction on the naturals.
LEMMA NatSetInduction ==
  ASSUME NEW G, 0 \in G, \A n \in Nat : n \in G => n + 1 \in G
  PROVE  Nat \subseteq G
  <1> DEFINE T == Nat \ G
             R == {ss \in Nat \X Nat : ss[1] < ss[2]}
  <1>1. SUFFICES ASSUME T # {} PROVE FALSE
    OBVIOUS
  <1>2. IsWellFoundedOn(R, Nat)
    BY NatLessThanWellFounded DEF OpToRel
  <1>3. PICK x \in T : \A y \in T : ~(<<y, x>> \in R)
    <2>1. T \subseteq Nat
      OBVIOUS
    <2> HIDE DEF T, R
    <2>2. QED BY <1>1, <1>2, <2>1, WFMin
  <1>4. x \in Nat /\ x # 0
    BY <1>3
  <1>5. x - 1 \in Nat /\ (x - 1) + 1 = x
    BY <1>4
  <1>6. x - 1 \in T
    BY <1>3, <1>5
  <1>7. <<x - 1, x>> \in R
    BY <1>4, <1>5
  <1>8. QED BY <1>3, <1>6, <1>7

\* A set of places has a last one.
LEMMA LargestPlace ==
  ASSUME NEW n \in Nat, NEW d \in SUBSET (1 .. n), d # {}
  PROVE  \E x \in d : \A y \in d : x >= y
  <1> DEFINE G == {m \in Nat : \A e \in SUBSET (1 .. m) :
                                 e # {} => \E x \in e : \A y \in e : x >= y}
  <1>1. 0 \in G
    <2>1. 1 .. 0 = {}
      OBVIOUS
    <2>2. \A e \in SUBSET (1 .. 0) : e = {}
      BY <2>1
    <2>3. QED BY <2>2
  <1>2. ASSUME NEW m \in Nat, m \in G PROVE m + 1 \in G
    <2>1. SUFFICES ASSUME NEW e \in SUBSET (1 .. m + 1), e # {}
                   PROVE  \E x \in e : \A y \in e : x >= y
      OBVIOUS
    <2>2. CASE m + 1 \in e
      BY <2>2
    <2>3. CASE m + 1 \notin e
      <3>1. e \in SUBSET (1 .. m)
        BY <2>3
      <3>2. QED BY <1>2, <2>1, <3>1
    <2>4. QED BY <2>2, <2>3
  <1>3. n \in G
    <2> HIDE DEF G
    <2>1. QED BY <1>1, <1>2, NatSetInduction
  <1>4. QED BY <1>3

\* Induction on the subsets of a finite set, one element at a time.
LEMMA SubsetInduction ==
  ASSUME NEW S, IsFiniteSet(S), NEW G, {} \in G,
         \A s \in SUBSET S : s # {} /\ (\A x \in s : s \ {x} \in G) => s \in G
  PROVE  \A s \in SUBSET S : s \in G
  <1> DEFINE N == {n \in Nat : \A s \in SUBSET S : Cardinality(s) = n => s \in G}
  <1>1. \A s \in SUBSET S : IsFiniteSet(s) /\ Cardinality(s) \in Nat
    BY FS_Subset, FS_CardinalityType
  <1>2. 0 \in N
    BY <1>1, FS_EmptySet
  <1>3. ASSUME NEW n \in Nat, n \in N PROVE n + 1 \in N
    <2>1. SUFFICES ASSUME NEW s \in SUBSET S, Cardinality(s) = n + 1 PROVE s \in G
      OBVIOUS
    <2>2. s # {}
      BY <2>1, FS_EmptySet
    <2>3. ASSUME NEW x \in s PROVE s \ {x} \in G
      <3>1. Cardinality(s \ {x}) = n /\ s \ {x} \in SUBSET S
        BY <1>1, <2>1, FS_RemoveElement
      <3>2. QED BY <1>3, <3>1
    <2>4. QED BY <2>2, <2>3
  <1>4. Nat \subseteq N
    <2> HIDE DEF N
    <2>1. QED BY <1>2, <1>3, NatSetInduction
  <1>5. QED BY <1>1, <1>4

\* h is computed by a recursion over the subsets of S that takes out one
\* element, chosen by ch, at every step.
FoldRule(S, base, ch, g, h) ==
  \A s \in SUBSET S :
    h[s] = IF s = {} THEN base ELSE g[<<ch[s], h[s \ {ch[s]}]>>]

\* Such a recursion has a solution.
LEMMA FoldExists ==
  ASSUME NEW S, IsFiniteSet(S), NEW V, NEW base \in V,
         NEW ch, \A s \in SUBSET S : s # {} => ch[s] \in s,
         NEW g, \A x \in S, v \in V : g[<<x, v>>] \in V
  PROVE  \E h \in [SUBSET S -> V] : FoldRule(S, base, ch, g, h)
  <1> DEFINE D(n) == {s \in SUBSET S : Cardinality(s) <= n}
             Rule(h, s) == IF s = {} THEN base ELSE g[<<ch[s], h[s \ {ch[s]}]>>]
             N == {n \in Nat : \E h \in [D(n) -> V] :
                                 \A s \in D(n) : h[s] = Rule(h, s)}
  <1>1. \A s \in SUBSET S : IsFiniteSet(s) /\ Cardinality(s) \in Nat
    BY FS_Subset, FS_CardinalityType
  <1>2. ASSUME NEW s \in SUBSET S, s # {}
        PROVE  /\ s \ {ch[s]} \in SUBSET S /\ ch[s] \in S
               /\ Cardinality(s \ {ch[s]}) = Cardinality(s) - 1
    BY <1>1, <1>2, FS_RemoveElement
  <1>3. 0 \in N
    <2> DEFINE h == [s \in D(0) |-> base]
    <2>1. \A s \in D(0) : s = {}
      BY <1>1, FS_EmptySet
    <2>2. h \in [D(0) -> V] /\ \A s \in D(0) : h[s] = Rule(h, s)
      BY <2>1
    <2>3. QED BY <2>2
  <1>4. ASSUME NEW n \in Nat, n \in N PROVE n + 1 \in N
    <2>1. PICK h \in [D(n) -> V] : \A s \in D(n) : h[s] = Rule(h, s)
      BY <1>4
    <2> DEFINE k == [s \in D(n + 1) |-> IF s \in D(n) THEN h[s] ELSE Rule(h, s)]
    <2>2. ASSUME NEW s \in D(n + 1), s # {}
          PROVE  s \ {ch[s]} \in D(n) /\ s \ {ch[s]} \in D(n + 1) /\ ch[s] \in S
      BY <1>1, <1>2, <2>2
    <2>3. ASSUME NEW s \in D(n + 1) PROVE k[s] \in V
      BY <2>1, <2>2, <2>3
    <2>4. ASSUME NEW s \in D(n + 1) PROVE k[s] = Rule(k, s)
      <3>1. CASE s = {}
        BY <2>1, <3>1
      <3>2. CASE s # {}
        <4>1. k[s \ {ch[s]}] = h[s \ {ch[s]}]
          BY <2>2, <3>2
        <4>2. Rule(k, s) = Rule(h, s)
          BY <4>1, <3>2
        <4>3. k[s] = Rule(h, s)
          BY <2>1
        <4>4. QED BY <4>2, <4>3
      <3>3. QED BY <3>1, <3>2
    <2>5. k \in [D(n + 1) -> V]
      BY <2>3
    <2>6. n + 1 \in Nat /\ \E f \in [D(n + 1) -> V] : \A s \in D(n + 1) : f[s] = Rule(f, s)
      <3> HIDE DEF k, D
      <3>1. QED BY <2>4, <2>5
    <2>7. QED BY <2>6
  <1>5. Nat \subseteq N
    <2> HIDE DEF N
    <2>1. QED BY <1>3, <1>4, NatSetInduction
  <1> DEFINE c == Cardinality(S)
  <1>6. c \in Nat /\ D(c) = SUBSET S
    BY FS_CardinalityType, FS_Subset
  <1>7. PICK h \in [D(c) -> V] : \A s \in D(c) : h[s] = Rule(h, s)
    BY <1>5, <1>6
  <1>8. QED BY <1>6, <1>7 DEF FoldRule

-----------------------------------------------------------------------------
(***************************************************************************)
(* Sums of integers.                                                       *)
(***************************************************************************)

\* What the recursion of MapThenFoldSet requires of its function, for a sum.
SumRule(f, S, h) ==
  h = [s \in SUBSET S |->
         IF s = {} THEN 0
         ELSE LET x == CHOOSE x \in s : TRUE IN f[x] + h[s \ {x}]]

SumTable(f, S) == CHOOSE h : SumRule(f, S, h)

\* SumFunctionOnSet is the value of its recursion at the whole set.
LEMMA SumUnfold ==
  ASSUME NEW f, NEW S
  PROVE  SumFunctionOnSet(f, S) = SumTable(f, S)[S]
  BY DEF SumFunctionOnSet, FoldFunctionOnSet, MapThenFoldSet, SumRule, SumTable

\* The recursion has a solution, and its values are integers.
LEMMA SumTableFacts ==
  ASSUME NEW S, IsFiniteSet(S), NEW f, \A x \in S : f[x] \in Int
  PROVE  SumRule(f, S, SumTable(f, S)) /\ SumTable(f, S) \in [SUBSET S -> Int]
  <1> DEFINE ch == [s \in SUBSET S |-> CHOOSE x \in s : TRUE]
             g == [p \in S \X Int |-> f[p[1]] + p[2]]
             H == SumTable(f, S)
  <1>1. \A s \in SUBSET S : s # {} => (CHOOSE x \in s : TRUE) \in s
    OBVIOUS
  <1>2. \A s \in SUBSET S : s # {} => ch[s] \in s
    BY <1>1
  <1>3. \A x \in S, v \in Int : g[<<x, v>>] = f[x] + v /\ g[<<x, v>>] \in Int
    OBVIOUS
  <1>4. PICK h \in [SUBSET S -> Int] : FoldRule(S, 0, ch, g, h)
    <2>1. 0 \in Int /\ \A x \in S, v \in Int : g[<<x, v>>] \in Int
      BY <1>3
    <2> HIDE DEF ch, g
    <2>2. QED BY <1>2, <2>1, FoldExists
  <1>5. SumRule(f, S, h)
    <2>1. ASSUME NEW s \in SUBSET S, s # {}
          PROVE  h[s] = f[CHOOSE x \in s : TRUE] + h[s \ {CHOOSE x \in s : TRUE}]
      <3>1. ch[s] = (CHOOSE x \in s : TRUE) /\ ch[s] \in S
        BY <1>2, <2>1
      <3> HIDE DEF ch
      <3>2. s \ {ch[s]} \in SUBSET S /\ h[s \ {ch[s]}] \in Int
        BY <1>4
      <3>3. h[s] = f[ch[s]] + h[s \ {ch[s]}]
        BY <1>3, <1>4, <2>1, <3>1, <3>2 DEF FoldRule
      <3>4. QED BY <3>1, <3>3
    <2>2. h[{}] = 0 /\ DOMAIN h = SUBSET S
      BY <1>4 DEF FoldRule
    <2>3. QED BY <1>4, <2>1, <2>2 DEF SumRule
  <1>6. SumRule(f, S, H)
    BY <1>5 DEF SumTable
  <1> HIDE DEF H
  <1>7. \A s \in SUBSET S : s # {} =>
          \E x \in s : H[s] = f[x] + H[s \ {x}]
    BY <1>1, <1>6 DEF SumRule
  <1>8. H[{}] = 0
    BY <1>6 DEF SumRule
  <1> DEFINE G == {s \in SUBSET S : H[s] \in Int}
  <1>9. ASSUME NEW s \in SUBSET S, s # {}, \A x \in s : s \ {x} \in G
        PROVE  s \in G
    <2>1. PICK x \in s : H[s] = f[x] + H[s \ {x}]
      BY <1>7, <1>9
    <2>2. H[s \ {x}] \in Int /\ f[x] \in Int
      BY <1>9
    <2>3. QED BY <2>1, <2>2
  <1>10. {} \in G
    BY <1>8
  <1>11. \A s \in SUBSET S : s \in G
    <2> HIDE DEF G
    <2>1. QED BY <1>9, <1>10, SubsetInduction
  <1>12. H \in [SUBSET S -> Int]
    BY <1>6, <1>11 DEF SumRule
  <1>13. QED BY <1>6, <1>12 DEF H

\* One step of the recursion.
LEMMA SumTableStep ==
  ASSUME NEW S, IsFiniteSet(S), NEW f, \A x \in S : f[x] \in Int
  PROVE  /\ SumTable(f, S)[{}] = 0
         /\ \A s \in SUBSET S : s # {} =>
              LET c == CHOOSE x \in s : TRUE
              IN c \in s /\ SumTable(f, S)[s] = f[c] + SumTable(f, S)[s \ {c}]
  <1> DEFINE H == SumTable(f, S)
  <1>1. SumRule(f, S, H)
    BY SumTableFacts
  <1> HIDE DEF H
  <1>2. H[{}] = 0
    BY <1>1 DEF SumRule
  <1>3. ASSUME NEW s \in SUBSET S, s # {}
        PROVE  H[s] = f[CHOOSE x \in s : TRUE] + H[s \ {CHOOSE x \in s : TRUE}]
    BY <1>1, <1>3 DEF SumRule
  <1>4. \A s \in SUBSET S : s # {} => (CHOOSE x \in s : TRUE) \in s
    OBVIOUS
  <1>5. QED BY <1>2, <1>3, <1>4 DEF H

\* The table of a part of the set, of a function with the same values there,
\* is the table of the whole.
LEMMA SumTableSame ==
  ASSUME NEW S, IsFiniteSet(S), NEW f, \A x \in S : f[x] \in Int,
         NEW T \in SUBSET S, NEW g, \A x \in T : g[x] = f[x]
  PROVE  \A s \in SUBSET T : SumTable(g, T)[s] = SumTable(f, S)[s]
  <1> DEFINE H == SumTable(f, S)
             K == SumTable(g, T)
             G == {s \in SUBSET T : K[s] = H[s]}
  <1>1. IsFiniteSet(T) /\ \A x \in T : g[x] \in Int
    BY FS_Subset
  <1>2. H[{}] = 0 /\ K[{}] = 0
    BY <1>1, SumTableStep
  <1>3. ASSUME NEW s \in SUBSET T, s # {}
        PROVE  \E c \in s : H[s] = f[c] + H[s \ {c}] /\ K[s] = g[c] + K[s \ {c}]
    <2> DEFINE c == CHOOSE x \in s : TRUE
    <2>1. c \in s /\ K[s] = g[c] + K[s \ {c}]
      BY <1>1, <1>3, SumTableStep
    <2>2. s \in SUBSET S /\ H[s] = f[c] + H[s \ {c}]
      BY <1>3, SumTableStep
    <2>3. QED BY <2>1, <2>2
  <1> HIDE DEF H, K
  <1>4. {} \in G
    BY <1>2
  <1>5. ASSUME NEW s \in SUBSET T, s # {}, \A x \in s : s \ {x} \in G
        PROVE  s \in G
    BY <1>3, <1>5
  <1>6. \A s \in SUBSET T : s \in G
    <2> HIDE DEF G
    <2>1. QED BY <1>1, <1>4, <1>5, SubsetInduction
  <1>7. QED BY <1>6 DEF H, K

\* The order in which elements are taken out does not matter.
LEMMA SumTableRemove ==
  ASSUME NEW S, IsFiniteSet(S), NEW f, \A x \in S : f[x] \in Int
  PROVE  \A s \in SUBSET S : \A x \in s :
           SumTable(f, S)[s] = f[x] + SumTable(f, S)[s \ {x}]
  <1> DEFINE H == SumTable(f, S)
             G == {s \in SUBSET S : \A x \in s : H[s] = f[x] + H[s \ {x}]}
  <1>1. H \in [SUBSET S -> Int]
    BY SumTableFacts
  <1>2. ASSUME NEW s \in SUBSET S, s # {}
        PROVE  \E c \in s : H[s] = f[c] + H[s \ {c}]
    <2> DEFINE c == CHOOSE x \in s : TRUE
    <2>1. c \in s /\ H[s] = f[c] + H[s \ {c}]
      BY <1>2, SumTableStep
    <2>2. QED BY <2>1
  <1> HIDE DEF H
  <1>3. ASSUME NEW s \in SUBSET S, s # {}, \A x \in s : s \ {x} \in G
        PROVE  s \in G
    <2>1. PICK c \in s : H[s] = f[c] + H[s \ {c}]
      BY <1>2, <1>3
    <2>2. ASSUME NEW x \in s, x # c
          PROVE  H[s] = f[x] + H[s \ {x}]
      <3>1. x \in s \ {c} /\ c \in s \ {x} /\ s \ {c} \in G /\ s \ {x} \in G
        BY <1>3, <2>2
      <3>2. H[s \ {c}] = f[x] + H[(s \ {c}) \ {x}]
        BY <3>1
      <3>3. H[s \ {x}] = f[c] + H[(s \ {x}) \ {c}]
        BY <3>1
      <3>4. (s \ {c}) \ {x} = (s \ {x}) \ {c} /\ (s \ {c}) \ {x} \in SUBSET S
        OBVIOUS
      <3>5. f[x] \in Int /\ f[c] \in Int /\ H[(s \ {c}) \ {x}] \in Int
        BY <1>1, <3>4
      <3> DEFINE rest == H[(s \ {c}) \ {x}]
      <3>6. /\ H[s] = f[c] + (f[x] + rest) /\ H[s \ {x}] = f[c] + rest
            /\ rest \in Int
        BY <2>1, <3>2, <3>3, <3>4, <3>5
      <3> HIDE DEF rest
      <3>7. QED BY <3>5, <3>6
    <2>3. QED BY <2>1, <2>2
  <1>4. {} \in G
    OBVIOUS
  <1>5. \A s \in SUBSET S : s \in G
    <2> HIDE DEF G
    <2>1. QED BY <1>3, <1>4, SubsetInduction
  <1>6. QED BY <1>5 DEF H

-----------------------------------------------------------------------------
(***************************************************************************)
(* What the models use.                                                    *)
(***************************************************************************)

\* A sum of integers is one; the empty sum is zero.
LEMMA SumType ==
  ASSUME NEW S, IsFiniteSet(S), NEW f, \A x \in S : f[x] \in Int
  PROVE  SumFunctionOnSet(f, S) \in Int
  <1>1. SumTable(f, S) \in [SUBSET S -> Int] /\ S \in SUBSET S
    BY SumTableFacts
  <1>2. QED BY <1>1, SumUnfold

\* The sum over nothing is zero.
LEMMA SumEmpty ==
  ASSUME NEW f
  PROVE  SumFunctionOnSet(f, {}) = 0
  BY SumUnfold, SumTableStep, FS_EmptySet

\* Functions with the same values have the same sum.
LEMMA SumSame ==
  ASSUME NEW S, IsFiniteSet(S), NEW f, \A x \in S : f[x] \in Int,
         NEW g, \A x \in S : g[x] = f[x]
  PROVE  SumFunctionOnSet(g, S) = SumFunctionOnSet(f, S)
  BY SumUnfold, SumTableSame, S \in SUBSET S

\* Any element can be taken out of a sum.
LEMMA SumRemove ==
  ASSUME NEW S, IsFiniteSet(S), NEW f, \A x \in S : f[x] \in Int, NEW c \in S
  PROVE  SumFunctionOnSet(f, S) = f[c] + SumFunctionOnSet(f, S \ {c})
  <1>1. SumTable(f, S)[S] = f[c] + SumTable(f, S)[S \ {c}]
    BY SumTableRemove, S \in SUBSET S
  <1>2. SumTable(f, S \ {c})[S \ {c}] = SumTable(f, S)[S \ {c}]
    BY SumTableSame, S \ {c} \in SUBSET S, S \ {c} \in SUBSET (S \ {c})
  <1>3. QED BY <1>1, <1>2, SumUnfold

\* Changing one value changes the sum by the difference.
LEMMA SumUpdate ==
  ASSUME NEW S, IsFiniteSet(S), NEW f, \A x \in S : f[x] \in Int, NEW c \in S,
         NEW g, \A x \in S : g[x] \in Int, \A x \in S \ {c} : g[x] = f[x]
  PROVE  SumFunctionOnSet(g, S) = SumFunctionOnSet(f, S) - f[c] + g[c]
  <1>1. IsFiniteSet(S \ {c})
    BY FS_RemoveElement
  <1>2. SumFunctionOnSet(g, S \ {c}) = SumFunctionOnSet(f, S \ {c})
    BY <1>1, SumSame
  <1>3. SumFunctionOnSet(f, S \ {c}) \in Int
    BY <1>1, SumType
  <1>4. /\ SumFunctionOnSet(f, S) = f[c] + SumFunctionOnSet(f, S \ {c})
        /\ SumFunctionOnSet(g, S) = g[c] + SumFunctionOnSet(g, S \ {c})
    BY SumRemove
  <1>5. QED BY <1>2, <1>3, <1>4

\* A sum grows with its terms.
LEMMA SumMonotone ==
  ASSUME NEW S, IsFiniteSet(S), NEW f, NEW g,
         \A x \in S : f[x] \in Int /\ g[x] \in Int /\ f[x] <= g[x]
  PROVE  SumFunctionOnSet(f, S) <= SumFunctionOnSet(g, S)
  <1> DEFINE G == {s \in SUBSET S : SumFunctionOnSet(f, s) <= SumFunctionOnSet(g, s)}
  <1>1. {} \in G
    BY SumEmpty
  <1>2. ASSUME NEW s \in SUBSET S, s # {}, \A x \in s : s \ {x} \in G
        PROVE  s \in G
    <2>1. PICK c \in s : TRUE
      BY <1>2
    <2>2. IsFiniteSet(s) /\ IsFiniteSet(s \ {c})
      BY FS_Subset, FS_RemoveElement
    <2>3. /\ SumFunctionOnSet(f, s) = f[c] + SumFunctionOnSet(f, s \ {c})
          /\ SumFunctionOnSet(g, s) = g[c] + SumFunctionOnSet(g, s \ {c})
      BY <2>2, SumRemove
    <2>4. /\ SumFunctionOnSet(f, s \ {c}) \in Int
          /\ SumFunctionOnSet(g, s \ {c}) \in Int
      BY <2>2, SumType
    <2>5. /\ SumFunctionOnSet(f, s \ {c}) <= SumFunctionOnSet(g, s \ {c})
          /\ f[c] \in Int /\ g[c] \in Int /\ f[c] <= g[c]
      BY <1>2
    <2>6. QED BY <2>3, <2>4, <2>5
  <1>3. \A s \in SUBSET S : s \in G
    <2> HIDE DEF G
    <2>1. QED BY <1>1, <1>2, SubsetInduction
  <1>4. QED BY <1>3

\* A sum of zeros is zero.
LEMMA SumZero ==
  ASSUME NEW S, IsFiniteSet(S), NEW f, \A x \in S : f[x] = 0
  PROVE  SumFunctionOnSet(f, S) = 0
  <1> DEFINE G == {s \in SUBSET S : SumFunctionOnSet(f, s) = 0}
  <1>1. {} \in G
    BY SumEmpty
  <1>2. ASSUME NEW s \in SUBSET S, s # {}, \A x \in s : s \ {x} \in G
        PROVE  s \in G
    <2>1. PICK c \in s : TRUE
      BY <1>2
    <2>2. SumFunctionOnSet(f, s) = f[c] + SumFunctionOnSet(f, s \ {c})
      BY SumRemove, FS_Subset
    <2>3. SumFunctionOnSet(f, s \ {c}) = 0 /\ f[c] = 0
      BY <1>2
    <2>4. QED BY <2>2, <2>3
  <1>3. \A s \in SUBSET S : s \in G
    <2> HIDE DEF G
    <2>1. QED BY <1>1, <1>2, SubsetInduction
  <1>4. QED BY <1>3

=============================================================================
