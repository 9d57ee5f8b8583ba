----------------------------- MODULE WireProofs -----------------------------
(***************************************************************************)
(* What is written is read back: instructions of both programs, their      *)
(* accounts and the validator stake list, for every byte, word and key     *)
(* width and every number of keys and records.                             *)
(***************************************************************************)
EXTENDS Wire, ArithmeticProofs, SequenceTheorems

Byte == 0 .. Base - 1

(***************************************************************************)
(* Numbers.                                                                *)
(***************************************************************************)

\* g holds the first weights, up to that of n digits.
WeightTable(n, g) ==
  /\ g \in [0 .. n -> Int] /\ g[0] = 1
  /\ \A k \in 1 .. n : g[k] = Base * g[k - 1]

\* The recursion that defines the weights has a solution.
LEMMA WeightExists ==
  \E f : f = [k \in Nat |-> IF k = 0 THEN 1 ELSE Base * f[k - 1]]
  <1> DEFINE N == {n \in Nat : \E g : WeightTable(n, g)}
             D == {n \in Nat : \A m \in Nat : \A g, h :
                     n <= m /\ WeightTable(n, g) /\ WeightTable(m, h) => g[n] = h[n]}
  <1>1. Nat \subseteq N
    <2>1. 0 \in N
      <3>1. WeightTable(0, [k \in 0 .. 0 |-> 1])
        BY DEF WeightTable
      <3>2. QED BY <3>1
    <2>2. ASSUME NEW n \in Nat, n \in N PROVE n + 1 \in N
      <3>1. PICK g : WeightTable(n, g)
        BY <2>2
      <3> DEFINE h == [k \in 0 .. n + 1 |-> IF k = n + 1 THEN Base * g[n] ELSE g[k]]
      <3>2. WeightTable(n + 1, h)
        <4>1. g[n] \in Int /\ Base \in Int
          BY <3>1, CodecAssumption DEF WeightTable
        <4>2. h \in [0 .. n + 1 -> Int] /\ h[0] = 1
          BY <3>1, <4>1 DEF WeightTable
        <4>3. ASSUME NEW k \in 1 .. n + 1 PROVE h[k] = Base * h[k - 1]
          <5>1. CASE k = n + 1
            BY <5>1
          <5>2. CASE k # n + 1
            BY <3>1, <5>2 DEF WeightTable
          <5>3. QED BY <5>1, <5>2
        <4>4. QED BY <4>2, <4>3 DEF WeightTable
      <3>3. n + 1 \in Nat /\ \E f : WeightTable(n + 1, f)
        <4> HIDE DEF h
        <4>1. QED BY <3>2
      <3>4. QED BY <3>3
    <2> HIDE DEF N
    <2>3. QED BY <2>1, <2>2, NatSetInduction
  <1>2. Nat \subseteq D
    <2>1. 0 \in D
      BY DEF WeightTable
    <2>2. ASSUME NEW n \in Nat, n \in D PROVE n + 1 \in D
      <3>1. SUFFICES ASSUME NEW m \in Nat, NEW g, NEW h, n + 1 <= m,
                            WeightTable(n + 1, g), WeightTable(m, h)
                     PROVE  g[n + 1] = h[n + 1]
        OBVIOUS
      <3> DEFINE r == [k \in 0 .. n |-> g[k]]
      <3>2. WeightTable(n, r) /\ r[n] = g[n]
        BY <3>1 DEF WeightTable
      <3>3. r[n] = h[n]
        <4> HIDE DEF r
        <4>1. n <= m
          BY <3>1
        <4>2. QED BY <2>2, <3>1, <3>2, <4>1
      <3>4. g[n + 1] = Base * g[n] /\ h[n + 1] = Base * h[n]
        <4>1. n + 1 \in 1 .. n + 1 /\ n + 1 \in 1 .. m /\ (n + 1) - 1 = n
          BY <3>1
        <4>2. QED BY <3>1, <4>1 DEF WeightTable
      <3>5. QED BY <3>2, <3>3, <3>4
    <2> HIDE DEF D
    <2>3. QED BY <2>1, <2>2, NatSetInduction
  <1> DEFINE t == [n \in Nat |-> CHOOSE g : WeightTable(n, g)]
             f == [n \in Nat |-> t[n][n]]
  <1>3. \A n \in Nat : WeightTable(n, t[n])
    <2>1. \A n \in Nat : \E g : WeightTable(n, g)
      BY <1>1
    <2>2. QED BY <2>1
  <1> HIDE DEF t
  <1>4. f[0] = 1
    BY <1>3 DEF WeightTable
  <1>5. ASSUME NEW n \in Nat, n # 0 PROVE f[n] = Base * f[n - 1]
    <2>1. n - 1 \in Nat /\ n - 1 <= n /\ n \in 1 .. n
      BY <1>5
    <2>2. t[n][n] = Base * t[n][n - 1]
      BY <1>3, <2>1 DEF WeightTable
    <2>3. t[n - 1][n - 1] = t[n][n - 1]
      BY <1>2, <1>3, <2>1
    <2>4. QED BY <2>1, <2>2, <2>3
  <1> HIDE DEF f
  <1>6. f = [k \in Nat |-> IF k = 0 THEN 1 ELSE Base * f[k - 1]]
    <2>1. f = [k \in Nat |-> f[k]]
      BY DEF f
    <2>2. QED BY <1>4, <1>5, <2>1
  <1>7. QED BY <1>6

\* Weights are powers of the base.
LEMMA WeightFacts ==
  /\ Weight[0] = 1
  /\ \A k \in Nat : Weight[k + 1] = Base * Weight[k]
  /\ \A k \in Nat : Weight[k] \in Nat \ {0}
  <1>1. Weight = [k \in Nat |-> IF k = 0 THEN 1 ELSE Base * Weight[k - 1]]
    BY WeightExists DEF Weight
  <1>2. Weight[0] = 1
    BY <1>1
  <1>3. ASSUME NEW k \in Nat PROVE Weight[k + 1] = Base * Weight[k]
    <2>1. k + 1 \in Nat /\ k + 1 # 0 /\ (k + 1) - 1 = k
      OBVIOUS
    <2>2. QED BY <1>1, <2>1
  <1> DEFINE N == {k \in Nat : Weight[k] \in Nat \ {0}}
  <1>4. Nat \subseteq N
    <2>1. 0 \in N
      BY <1>2
    <2>2. ASSUME NEW k \in Nat, k \in N PROVE k + 1 \in N
      <3>1. Base \in Nat \ {0} /\ Weight[k] \in Nat \ {0}
        BY <2>2, CodecAssumption
      <3>2. Base * Weight[k] \in Nat \ {0}
        BY <3>1
      <3>3. QED BY <1>3, <3>2
    <2> HIDE DEF N
    <2>3. QED BY <2>1, <2>2, NatSetInduction
  <1>5. QED BY <1>2, <1>3, <1>4

\* The digits of a number are bytes.
LEMMA BytesType ==
  ASSUME NEW n \in Nat, NEW w \in Nat
  PROVE  to_le_bytes(n, w) \in [1 .. w -> Byte]
  <1>1. ASSUME NEW i \in 1 .. w PROVE (n \div Weight[i - 1]) % Base \in Byte
    <2>1. i - 1 \in Nat /\ Weight[i - 1] \in Nat \ {0} /\ Base \in Nat \ {0}
      BY WeightFacts, CodecAssumption
    <2> DEFINE q == n \div Weight[i - 1]
    <2>2. q \in Nat
      BY <2>1, DivFacts
    <2> HIDE DEF q
    <2>3. q % Base \in Byte
      BY <2>1, <2>2 DEF Byte
    <2>4. QED BY <2>3 DEF q
  <1>2. QED BY <1>1 DEF to_le_bytes

\* One more digit gives the remainder by the next power.
LEMMA NextDigit ==
  ASSUME NEW n \in Nat, NEW p \in Nat \ {0}, NEW b \in Nat \ {0}
  PROVE  (n % p) + ((n \div p) % b) * p = n % (b * p)
  <1> DEFINE q == n \div p
             r == n % p
             c == q \div b
             d == q % b
             P == b * p
             s == n % P
             e == n \div P
  <1>1. n = p * q + r /\ r \in 0 .. p - 1 /\ q \in Nat
    BY DivFacts, DivMod, n \in Int
  <1>2. q = b * c + d /\ d \in 0 .. b - 1 /\ c \in Nat
    <2> HIDE DEF q
    <2>1. QED BY <1>1, DivFacts, DivMod, q \in Int
  <1>3. P \in Nat \ {0}
    OBVIOUS
  <1>4. n = P * e + s /\ s \in 0 .. P - 1 /\ e \in Int
    <2> HIDE DEF P
    <2>1. QED BY <1>3, DivMod
  <1>5. P = b * p
    OBVIOUS
  <1> HIDE DEF q, r, c, d, P, s, e
  <1>6. n = P * c + (r + d * p)
    <2>1. p * q = p * (b * c) + p * d
      BY <1>1, <1>2
    <2>2. p * (b * c) = P * c
      BY <1>2, <1>5
    <2>3. QED BY <1>1, <1>2, <2>1, <2>2
  <1>7. r + d * p \in 0 .. P - 1
    <2>1. d * p >= 0 /\ d * p <= (b - 1) * p
      BY <1>2
    <2>2. (b - 1) * p = P - p
      BY <1>5
    <2>3. QED BY <1>1, <1>2, <1>3, <2>1, <2>2
  <1>8. s = r + d * p
    <2> DEFINE x == r + d * p
    <2>1. P * e + s = P * c + x /\ x \in 0 .. P - 1 /\ c \in Int
      BY <1>2, <1>4, <1>6, <1>7
    <2> HIDE DEF x
    <2>2. s = x
      BY <1>3, <1>4, <2>1, RemainderUnique
    <2>3. QED BY <2>2 DEF x
  <1>9. QED BY <1>8 DEF s, r, d, q, P

\* A number below the divisor is its own remainder.
LEMMA SmallRemainder ==
  ASSUME NEW n \in Nat, NEW p \in Nat \ {0}, n < p
  PROVE  n % p = n
  <1> DEFINE r == n % p
             q == n \div p
  <1>1. n = p * q + r /\ r \in 0 .. p - 1 /\ q \in Int
    BY DivMod, n \in Int
  <1> HIDE DEF r, q
  <1>2. p * q + r = p * 0 + n /\ n \in 0 .. p - 1
    BY <1>1
  <1>3. QED BY <1>1, <1>2, RemainderUnique DEF r

\* from_le_bytes(to_le_bytes(n)) is n when n fits.
LEMMA BytesReadBack ==
  ASSUME NEW n \in Nat, NEW w \in Nat, n < Weight[w]
  PROVE  from_le_bytes(to_le_bytes(n, w)) = n
  <1> DEFINE s == to_le_bytes(n, w)
             f == [i \in DOMAIN s |-> s[i] * Weight[i - 1]]
             N == {k \in Nat : k <= w =>
                     SumFunctionOnSet(f, 1 .. k) = n % Weight[k]}
  <1>1. s \in [1 .. w -> Byte] /\ DOMAIN s = 1 .. w
    BY BytesType
  <1>2. ASSUME NEW i \in 1 .. w
        PROVE  f[i] = ((n \div Weight[i - 1]) % Base) * Weight[i - 1] /\ f[i] \in Int
    <2>1. s[i] = (n \div Weight[i - 1]) % Base
      BY DEF to_le_bytes
    <2>2. i - 1 \in Nat /\ Weight[i - 1] \in Int
      BY WeightFacts
    <2> HIDE DEF s
    <2>3. s[i] \in Int
      BY <1>1, CodecAssumption DEF Byte
    <2>4. f[i] = s[i] * Weight[i - 1]
      BY <1>1
    <2> HIDE DEF f
    <2>5. QED BY <2>1, <2>2, <2>3, <2>4
  <1> HIDE DEF f
  <1>3. 0 \in N
    <2>1. 1 .. 0 = {}
      OBVIOUS
    <2>2. SumFunctionOnSet(f, {}) = 0
      BY SumEmpty
    <2>3. n % 1 = 0
      OBVIOUS
    <2>4. QED BY <2>1, <2>2, <2>3, WeightFacts
  <1>4. ASSUME NEW k \in Nat, k \in N PROVE k + 1 \in N
    <2>1. SUFFICES ASSUME k + 1 <= w
                   PROVE  SumFunctionOnSet(f, 1 .. k + 1) = n % Weight[k + 1]
      OBVIOUS
    <2>2. SumFunctionOnSet(f, 1 .. k) = n % Weight[k]
      BY <1>4, <2>1
    <2>3. /\ (1 .. k + 1) \ {k + 1} = 1 .. k /\ k + 1 \in 1 .. k + 1
          /\ k + 1 \in 1 .. w /\ (k + 1) - 1 = k /\ 1 .. k + 1 \subseteq 1 .. w
      BY <2>1
    <2>4. IsFiniteSet(1 .. k + 1) /\ \A i \in 1 .. k + 1 : f[i] \in Int
      BY <1>2, <2>3, FS_Interval
    <2>5. SumFunctionOnSet(f, 1 .. k + 1)
            = f[k + 1] + SumFunctionOnSet(f, (1 .. k + 1) \ {k + 1})
      BY <2>3, <2>4, SumRemove
    <2>6. f[k + 1] = ((n \div Weight[k]) % Base) * Weight[k] /\ f[k + 1] \in Int
      BY <1>2, <2>3
    <2> DEFINE p == Weight[k]
    <2>7. /\ p \in Nat \ {0} /\ Base \in Nat \ {0}
          /\ Weight[k + 1] = Base * p
      BY WeightFacts, CodecAssumption
    <2> HIDE DEF p
    <2>8. (n % p) + ((n \div p) % Base) * p = n % (Base * p)
      BY <2>7, NextDigit
    <2>9. n % p \in Int
      BY <2>7, DivMod
    <2>10. f[k + 1] = ((n \div p) % Base) * p
      BY <2>6 DEF p
    <2>11. SumFunctionOnSet(f, 1 .. k + 1) = f[k + 1] + (n % p)
      BY <2>2, <2>3, <2>5 DEF p
    <2>12. f[k + 1] + (n % p) = (n % p) + f[k + 1]
      BY <2>6, <2>9
    <2>13. QED BY <2>7, <2>8, <2>10, <2>11, <2>12
  <1>5. Nat \subseteq N
    <2> HIDE DEF N
    <2>1. QED BY <1>3, <1>4, NatSetInduction
  <1>6. SumFunctionOnSet(f, 1 .. w) = n % Weight[w]
    BY <1>5
  <1>7. n % Weight[w] = n
    BY WeightFacts, SmallRemainder
  <1>8. from_le_bytes(s) = SumFunctionOnSet(f, 1 .. w)
    BY <1>1 DEF from_le_bytes, f
  <1>9. QED BY <1>6, <1>7, <1>8

-----------------------------------------------------------------------------
(***************************************************************************)
(* Slices.                                                                 *)
(***************************************************************************)

\* The smaller of two numbers.
LEMMA MinFacts ==
  ASSUME NEW a \in Int, NEW b \in Int
  PROVE  Min({a, b}) = IF a <= b THEN a ELSE b
  <1> DEFINE m == IF a <= b THEN a ELSE b
  <1>1. m \in {a, b} /\ \A y \in {a, b} : m <= y
    OBVIOUS
  <1>2. \A x \in {a, b} : (\A y \in {a, b} : x <= y) => x = m
    OBVIOUS
  <1>3. QED BY <1>1, <1>2 DEF Min

\* What is behind the first a bytes.
LEMMA AfterFacts ==
  ASSUME NEW s \in Seq(Byte), NEW a \in Nat, a <= Len(s)
  PROVE  /\ After(s, a) \in Seq(Byte) /\ Len(After(s, a)) = Len(s) - a
         /\ \A i \in 1 .. Len(s) - a : After(s, a)[i] = s[a + i]
  <1>1. Len(s) \in Nat
    BY LenProperties
  <1>2. \A i \in a + 1 .. Len(s) : s[i] \in Byte
    BY <1>1, ElementOfSeq
  <1>3. /\ After(s, a) \in Seq(Byte)
        /\ Len(After(s, a)) = IF a + 1 <= Len(s) THEN Len(s) - (a + 1) + 1 ELSE 0
        /\ \A i \in 1 .. Len(s) - (a + 1) + 1 : After(s, a)[i] = s[a + 1 + i - 1]
    BY <1>1, <1>2, SubSeqProperties DEF After
  <1>4. QED BY <1>1, <1>3

\* The first n bytes.
LEMMA FirstFacts ==
  ASSUME NEW s \in Seq(Byte), NEW n \in Nat
  PROVE  /\ First(s, n) \in Seq(Byte)
         /\ Len(First(s, n)) = IF n <= Len(s) THEN n ELSE Len(s)
         /\ \A i \in 1 .. Len(First(s, n)) : First(s, n)[i] = s[i]
  <1> DEFINE m == IF n <= Len(s) THEN n ELSE Len(s)
  <1>1. Len(s) \in Nat /\ m \in Nat
    BY LenProperties
  <1>2. First(s, n) = SubSeq(s, 1, m)
    BY <1>1, MinFacts DEF First
  <1> HIDE DEF m
  <1>3. m <= Len(s)
    BY <1>1 DEF m
  <1>4. \A i \in 1 .. m : s[i] \in Byte
    BY <1>1, <1>3, ElementOfSeq
  <1>5. /\ First(s, n) \in Seq(Byte)
        /\ Len(First(s, n)) = IF 1 <= m THEN m - 1 + 1 ELSE 0
        /\ \A i \in 1 .. m - 1 + 1 : First(s, n)[i] = s[1 + i - 1]
    BY <1>1, <1>2, <1>4, SubSeqProperties
  <1>6. Len(First(s, n)) = m
    BY <1>1, <1>5
  <1>7. \A i \in 1 .. m : First(s, n)[i] = s[i]
    BY <1>1, <1>5
  <1>8. QED BY <1>5, <1>6, <1>7 DEF m

\* n bytes behind the first a, when there are as many.
LEMMA SliceFacts ==
  ASSUME NEW s \in Seq(Byte), NEW a \in Nat, NEW n \in Nat, a + n <= Len(s)
  PROVE  First(After(s, a), n) = [i \in 1 .. n |-> s[a + i]]
  <1> DEFINE t == After(s, a)
             f == First(t, n)
  <1>1. Len(s) \in Nat /\ a <= Len(s)
    BY LenProperties
  <1>2. /\ t \in Seq(Byte) /\ Len(t) = Len(s) - a
        /\ \A i \in 1 .. Len(s) - a : t[i] = s[a + i]
    BY <1>1, AfterFacts
  <1> HIDE DEF t
  <1>3. /\ f \in Seq(Byte) /\ Len(f) = n
        /\ \A i \in 1 .. n : f[i] = t[i]
    BY <1>1, <1>2, FirstFacts
  <1> HIDE DEF f
  <1>4. ASSUME NEW i \in 1 .. n PROVE f[i] = s[a + i]
    <2>1. i \in 1 .. Len(s) - a
      BY <1>1
    <2>2. QED BY <1>2, <1>3, <2>1
  <1>5. f = [i \in 1 .. n |-> f[i]]
    BY <1>3, LenProperties
  <1>6. QED BY <1>4, <1>5 DEF f, t

\* A number, or a key, that stands at a place of a sequence.
Stands(s, a, part, n) == \A i \in 1 .. n : s[a + i] = part[i]

\* A part is read back from its place.
LEMMA PartReadBack ==
  ASSUME NEW s \in Seq(Byte), NEW a \in Nat, NEW n \in Nat, a + n <= Len(s),
         NEW part \in [1 .. n -> Byte], Stands(s, a, part, n)
  PROVE  First(After(s, a), n) = part
  <1>1. First(After(s, a), n) = [i \in 1 .. n |-> s[a + i]]
    BY SliceFacts
  <1>2. QED BY <1>1 DEF Stands

\* So is a number.
LEMMA NumberReadBack ==
  ASSUME NEW s \in Seq(Byte), NEW a \in Nat, NEW w \in Nat, a + w <= Len(s),
         NEW n \in Nat, n < Weight[w], Stands(s, a, to_le_bytes(n, w), w)
  PROVE  from_le_bytes(First(After(s, a), w)) = n
  <1>1. First(After(s, a), w) = to_le_bytes(n, w)
    BY BytesType, PartReadBack
  <1>2. QED BY <1>1, BytesReadBack

\* Every constant that occurs in a message fits its place.
LEMMA ValuesFit ==
  /\ \A n \in Amounts \cup Balances : n \in Nat /\ n < Weight[W]
  /\ Keys \subseteq [1 .. KeyLen -> Byte]
  /\ Base \in Nat /\ Base > 17 /\ W \in Nat \ {0} /\ KeyLen \in Nat \ {0}
  <1>1. Weight[W] \in Nat
    BY WeightFacts, CodecAssumption
  <1>2. QED BY <1>1, WireAssumption, CodecAssumption DEF Byte

-----------------------------------------------------------------------------
(***************************************************************************)
(* Instructions of the stake pool program.                                 *)
(***************************************************************************)

\* Bytes of which as many as there are agree with an encoding.
Agrees(input, e) ==
  \A i \in 1 .. Len(input) : i <= Len(e) => input[i] = e[i]

\* The match of deserialize undoes the tags of serialize.
LEMMA PoolTags ==
  \A op \in DOMAIN PoolTag :
    PoolTag[op] \in 0 .. 11 /\ PoolArm[PoolTag[op] + 1] = op
  BY DEF PoolTag, PoolArm

\* Instructions of the pool with and without arguments.
LEMMA PoolOps ==
  /\ Len(PoolArm) = 12
  /\ WithAmount \subseteq DOMAIN PoolTag /\ "Initialize" \in DOMAIN PoolTag
  /\ "Initialize" \notin WithAmount
  BY DEF PoolTag, PoolArm, WithAmount

\* The two words behind the tag.
LEMMA ArgsParts ==
  ASSUME NEW s \in Seq(Byte), NEW w \in Nat, 1 + 2 * w <= Len(s)
  PROVE  LET args == First(After(s, 1), 2 * w)
         IN /\ First(args, w) = First(After(s, 1), w)
            /\ After(args, w) = First(After(s, 1 + w), w)
  <1> DEFINE args == First(After(s, 1), 2 * w)
  <1>1. args = [i \in 1 .. 2 * w |-> s[1 + i]] /\ Len(s) \in Nat
    <2>1. 2 * w \in Nat /\ Len(s) \in Nat
      BY LenProperties
    <2> DEFINE m == 2 * w
    <2> HIDE DEF m
    <2>2. m \in Nat /\ 1 + m <= Len(s)
      BY <2>1 DEF m
    <2>3. First(After(s, 1), m) = [i \in 1 .. m |-> s[1 + i]]
      BY <2>2, SliceFacts
    <2>4. QED BY <2>1, <2>3 DEF m
  <1>2. args \in Seq(Byte) /\ Len(args) = 2 * w
    <2>1. \A i \in 1 .. 2 * w : s[1 + i] \in Byte
      <3> SUFFICES ASSUME NEW i \in 1 .. 2 * w PROVE s[1 + i] \in Byte
        OBVIOUS
      <3>1. 1 + i \in 1 .. Len(s)
        BY <1>1
      <3>2. QED BY <3>1, ElementOfSeq
    <2>2. args \in [1 .. 2 * w -> Byte] /\ 2 * w \in Nat
      BY <1>1, <2>1
    <2> HIDE DEF args
    <2>3. QED BY <2>2, SeqDef
  <1>3. /\ First(After(s, 1), w) = [i \in 1 .. w |-> s[1 + i]]
        /\ First(After(s, 1 + w), w) = [i \in 1 .. w |-> s[1 + w + i]]
    <2>1. 1 + w \in Nat /\ 1 + w <= Len(s) /\ (1 + w) + w <= Len(s)
      BY <1>1
    <2>2. First(After(s, 1 + w), w) = [i \in 1 .. w |-> s[(1 + w) + i]]
      BY <2>1, SliceFacts
    <2>3. QED BY <2>1, <2>2, SliceFacts
  <1> HIDE DEF args
  <1> DEFINE f == First(args, w)
             a == After(args, w)
  <1>4. /\ f \in Seq(Byte) /\ Len(f) = w /\ \A i \in 1 .. w : f[i] = args[i]
        /\ a \in Seq(Byte) /\ Len(a) = w /\ \A i \in 1 .. w : a[i] = args[w + i]
    <2>1. w <= Len(args) /\ Len(args) - w = w
      BY <1>2
    <2>2. f \in Seq(Byte) /\ Len(f) = w /\ \A i \in 1 .. w : f[i] = args[i]
      <3>1. Len(f) = w
        BY <1>2, <2>1, FirstFacts
      <3>2. QED BY <1>2, <3>1, FirstFacts
    <2>3. a \in Seq(Byte) /\ Len(a) = w /\ \A i \in 1 .. w : a[i] = args[w + i]
      BY <1>2, <2>1, AfterFacts
    <2>4. QED BY <2>2, <2>3
  <1> HIDE DEF f, a
  <1>5. f = [i \in 1 .. w |-> f[i]] /\ a = [i \in 1 .. w |-> a[i]]
    BY <1>4, LenProperties
  <1>6. ASSUME NEW i \in 1 .. w PROVE f[i] = s[1 + i] /\ a[i] = s[1 + w + i]
    <2>1. i \in 1 .. 2 * w /\ w + i \in 1 .. 2 * w /\ 1 + (w + i) = 1 + w + i
      OBVIOUS
    <2>2. QED BY <1>1, <1>4, <2>1
  <1>7. QED BY <1>3, <1>5, <1>6 DEF f, a, args

\* What serialize writes: the tag, and the arguments behind it.
LEMMA SerializeFacts ==
  ASSUME NEW ix \in PoolInstructions
  PROVE  LET e == serialize(ix)
         IN /\ e \in Seq(Byte) /\ Len(e) = 3 * W /\ 3 * W >= 1 + 2 * W
            /\ ix.op \in DOMAIN PoolTag /\ e[1] = PoolTag[ix.op]
            /\ ix.op \in WithAmount => Stands(e, 1, to_le_bytes(ix.amount, W), W)
            /\ ix.op = "Initialize" =>
                 /\ Stands(e, 1, to_le_bytes(ix.fee.denominator, W), W)
                 /\ Stands(e, 1 + W, to_le_bytes(ix.fee.numerator, W), W)
  <1> DEFINE d == to_le_bytes(ix.fee.denominator, W)
             n == to_le_bytes(ix.fee.numerator, W)
             m == to_le_bytes(ix.amount, W)
             args == IF ix.op = "Initialize" THEN d \o n
                     ELSE IF ix.op \in WithAmount THEN m ELSE <<>>
             tag == PoolTag[ix.op]
             used == <<tag>> \o args
             e == serialize(ix)
  <1>1. /\ W \in Nat /\ W >= 1 /\ 3 * W \in Nat /\ 3 * W >= 1 + 2 * W
        /\ Base \in Nat /\ Base > 17
    BY ValuesFit
  <1>2. /\ ix.op \in DOMAIN PoolTag
        /\ ix.op \in WithAmount => ix.amount \in Amounts
        /\ ix.op = "Initialize" => /\ ix.fee.denominator \in Amounts
                                   /\ ix.fee.numerator \in Amounts
    BY PoolOps DEF PoolInstructions
  <1>3. tag \in Byte
    BY <1>1, <1>2, PoolTags DEF Byte
  <1>4. /\ ix.op \in WithAmount => m \in [1 .. W -> Byte]
        /\ ix.op = "Initialize" => d \in [1 .. W -> Byte] /\ n \in [1 .. W -> Byte]
    BY <1>1, <1>2, ValuesFit, BytesType
  <1>5. e = [i \in 1 .. 3 * W |-> IF i <= Len(used) THEN used[i] ELSE 0]
    BY DEF serialize, PoolInstructionLen
  <1> HIDE DEF e, d, n, m, tag
  <1>6. \A f \in [1 .. W -> Byte] : f \in Seq(Byte) /\ Len(f) = W
    BY <1>1, SeqDef
  <1>7. /\ args \in Seq(Byte) /\ Len(args) \in 0 .. 2 * W
        /\ ix.op \in WithAmount => args = m
        /\ ix.op = "Initialize" =>
             /\ Len(args) = 2 * W
             /\ \A i \in 1 .. W : args[i] = d[i] /\ args[W + i] = n[i]
    <2>1. CASE ix.op = "Initialize"
      <3>1. d \in Seq(Byte) /\ n \in Seq(Byte) /\ Len(d) = W /\ Len(n) = W
        BY <1>4, <1>6, <2>1
      <3>2. /\ d \o n \in Seq(Byte) /\ Len(d \o n) = W + W
            /\ \A i \in 1 .. W + W : (d \o n)[i] = IF i <= W THEN d[i] ELSE n[i - W]
        <4>1. /\ d \o n \in Seq(Byte) /\ Len(d \o n) = Len(d) + Len(n)
              /\ \A i \in 1 .. Len(d) + Len(n) :
                   (d \o n)[i] = IF i <= Len(d) THEN d[i] ELSE n[i - Len(d)]
          BY <3>1, ConcatProperties
        <4>2. QED BY <3>1, <4>1
      <3>3. args = d \o n
        BY <2>1
      <3> HIDE DEF args
      <3>4. ASSUME NEW i \in 1 .. W PROVE args[i] = d[i] /\ args[W + i] = n[i]
        <4>1. /\ i \in 1 .. W + W /\ W + i \in 1 .. W + W /\ i <= W
              /\ ~(W + i <= W) /\ (W + i) - W = i
          BY <1>1
        <4>2. QED BY <3>2, <3>3, <4>1
      <3>5. Len(args) = 2 * W /\ Len(args) \in 0 .. 2 * W
        BY <1>1, <3>2, <3>3
      <3>6. QED BY <2>1, <3>2, <3>3, <3>4, <3>5, PoolOps
    <2>2. CASE ix.op \in WithAmount
      <3>1. args = m
        BY <2>2, PoolOps
      <3>2. m \in Seq(Byte) /\ Len(m) = W
        BY <1>4, <1>6, <2>2
      <3>3. QED BY <1>1, <2>2, <3>1, <3>2, PoolOps
    <2>3. CASE ix.op # "Initialize" /\ ix.op \notin WithAmount
      <3>1. args = <<>>
        BY <2>3
      <3>2. QED BY <1>1, <2>3, <3>1, EmptySeq
    <2>4. QED BY <2>1, <2>2, <2>3
  <1> HIDE DEF args
  <1>8. <<tag>> \in Seq(Byte) /\ Len(<<tag>>) = 1 /\ <<tag>>[1] = tag
    BY <1>3
  <1>9. /\ used \in Seq(Byte) /\ Len(used) = 1 + Len(args)
        /\ \A i \in 1 .. 1 + Len(args) : used[i] = IF i <= 1 THEN <<tag>>[i]
                                                   ELSE args[i - 1]
    BY <1>7, <1>8, ConcatProperties
  <1> HIDE DEF used
  <1>10. /\ used[1] = tag
         /\ \A i \in 1 .. Len(args) : used[1 + i] = args[i]
    <2>1. 1 \in 1 .. 1 + Len(args)
      BY <1>7
    <2>2. ASSUME NEW i \in 1 .. Len(args) PROVE used[1 + i] = args[i]
      <3>1. 1 + i \in 1 .. 1 + Len(args) /\ ~(1 + i <= 1) /\ (1 + i) - 1 = i
        BY <1>7
      <3>2. QED BY <1>9, <3>1
    <2>3. QED BY <1>8, <1>9, <2>1, <2>2
  <1>11. e \in Seq(Byte) /\ Len(e) = 3 * W
    <2>1. \A i \in 1 .. Len(used) : used[i] \in Byte
      BY <1>9, ElementOfSeq
    <2>2. 0 \in Byte /\ Len(used) \in Nat
      BY <1>1, <1>7, <1>9 DEF Byte
    <2>3. \A i \in 1 .. 3 * W : (IF i <= Len(used) THEN used[i] ELSE 0) \in Byte
      BY <1>1, <2>1, <2>2
    <2>4. e \in [1 .. 3 * W -> Byte]
      BY <1>5, <2>3
    <2>5. QED BY <1>1, <2>4, SeqDef
  <1>12. e[1] = tag
    <2>1. 1 \in 1 .. 3 * W /\ 1 <= Len(used)
      BY <1>1, <1>7, <1>9
    <2>2. QED BY <1>5, <1>10, <2>1
  <1>13. ASSUME NEW i \in 1 .. Len(args) PROVE e[1 + i] = args[i]
    <2>1. 1 + i \in 1 .. 3 * W /\ 1 + i <= Len(used)
      BY <1>1, <1>7, <1>9
    <2>2. QED BY <1>5, <1>10, <2>1
  <1>14. ix.op \in WithAmount => Stands(e, 1, m, W)
    <2> SUFFICES ASSUME ix.op \in WithAmount, NEW i \in 1 .. W
                 PROVE  e[1 + i] = m[i]
      BY DEF Stands
    <2>1. args = m /\ Len(args) = W
      BY <1>4, <1>6, <1>7
    <2>2. QED BY <1>13, <2>1
  <1>15. ix.op = "Initialize" => Stands(e, 1, d, W) /\ Stands(e, 1 + W, n, W)
    <2> SUFFICES ASSUME ix.op = "Initialize", NEW i \in 1 .. W
                 PROVE  e[1 + i] = d[i] /\ e[(1 + W) + i] = n[i]
      BY DEF Stands
    <2>1. i \in 1 .. Len(args) /\ W + i \in 1 .. Len(args)
          /\ (1 + W) + i = 1 + (W + i)
      BY <1>1, <1>7
    <2>2. e[1 + i] = args[i] /\ e[1 + (W + i)] = args[W + i]
      BY <1>13, <2>1
    <2>3. QED BY <1>7, <2>1, <2>2
  <1>16. QED BY <1>1, <1>2, <1>11, <1>12, <1>14, <1>15 DEF e, d, n, m, tag

\* What stands in an encoding stands in bytes that agree with it and are long
\* enough.
LEMMA AgreeingPart ==
  ASSUME NEW input \in Seq(Byte), NEW e \in Seq(Byte), Agrees(input, e),
         NEW a \in Nat, NEW n \in Nat, a + n <= Len(input), a + n <= Len(e),
         NEW part, Stands(e, a, part, n)
  PROVE  Stands(input, a, part, n)
  <1> SUFFICES ASSUME NEW i \in 1 .. n PROVE input[a + i] = part[i]
    BY DEF Stands
  <1>1. Len(input) \in Nat /\ Len(e) \in Nat
    BY LenProperties
  <1>2. a + i \in 1 .. Len(input) /\ a + i <= Len(e)
    BY <1>1
  <1>3. QED BY <1>2 DEF Agrees, Stands

\* The entrypoint reads the instruction the constructor has written, or runs
\* out of bytes.
LEMMA PoolNeverMisread ==
  ASSUME NEW ix \in PoolInstructions, NEW input \in Seq(Byte),
         Agrees(input, serialize(ix))
  PROVE  \/ deserialize(input) = ix
         \/ deserialize(input) = Rejected /\ Len(input) < Len(serialize(ix))
  <1> DEFINE e == serialize(ix)
             op == ix.op
  <1>1. /\ e \in Seq(Byte) /\ Len(e) = 3 * W /\ 3 * W >= 1 + 2 * W
        /\ op \in DOMAIN PoolTag /\ e[1] = PoolTag[op]
        /\ op \in WithAmount => Stands(e, 1, to_le_bytes(ix.amount, W), W)
        /\ op = "Initialize" =>
             /\ Stands(e, 1, to_le_bytes(ix.fee.denominator, W), W)
             /\ Stands(e, 1 + W, to_le_bytes(ix.fee.numerator, W), W)
    BY SerializeFacts
  <1>2. /\ W \in Nat /\ W >= 1 /\ 3 * W \in Nat /\ Len(input) \in Nat
    BY ValuesFit, LenProperties
  <1>3. Agrees(input, e)
    OBVIOUS
  <1> HIDE DEF e
  <1>4. CASE input = <<>>
    <2>1. Len(input) = 0
      BY <1>4, EmptySeq
    <2>2. deserialize(input) = Rejected
      BY <1>4 DEF deserialize
    <2>3. QED BY <1>1, <1>2, <2>1, <2>2 DEF e
  <1>5. CASE input # <<>>
    <2>1. Len(input) >= 1
      BY <1>2, <1>5, EmptySeq
    <2>2. input[1] = PoolTag[op]
      BY <1>1, <1>2, <1>3, <2>1 DEF Agrees
    <2>3. /\ PoolTag[op] \in 0 .. 11 /\ PoolArm[PoolTag[op] + 1] = op
          /\ ~(input[1] >= Len(PoolArm))
      BY <1>1, <2>2, PoolTags, PoolOps
    <2>4. PoolArm[input[1] + 1] = op
      BY <2>2, <2>3
    <2>5. CASE op = "Initialize"
      <3>1. /\ ix = [op |-> op, fee |-> ix.fee]
            /\ ix.fee = [denominator |-> ix.fee.denominator,
                         numerator |-> ix.fee.numerator]
            /\ ix.fee.denominator \in Amounts /\ ix.fee.numerator \in Amounts
        BY <2>5, PoolOps DEF PoolInstructions
      <3>2. CASE ~HasArgs(input, 2 * W)
        <4>1. deserialize(input) = Rejected
          BY <1>5, <2>3, <2>4, <2>5, <3>2, PoolOps DEF deserialize
        <4>2. Len(input) < Len(e)
          BY <1>1, <1>2, <3>2 DEF HasArgs
        <4>3. QED BY <4>1, <4>2 DEF e
      <3>3. CASE HasArgs(input, 2 * W)
        <4> DEFINE args == Args(input, 2 * W)
        <4>1. deserialize(input) =
                [op |-> op, fee |-> [denominator |-> from_le_bytes(First(args, W)),
                                     numerator |-> from_le_bytes(After(args, W))]]
          BY <1>5, <2>3, <2>4, <2>5, <3>3, PoolOps DEF deserialize
        <4>2. Len(input) >= 1 + 2 * W
          BY <3>3 DEF HasArgs
        <4>3. First(args, W) = First(After(input, 1), W)
              /\ After(args, W) = First(After(input, 1 + W), W)
          BY <1>2, <4>2, ArgsParts DEF Args
        <4> HIDE DEF args
        <4>4. /\ Stands(input, 1, to_le_bytes(ix.fee.denominator, W), W)
              /\ Stands(input, 1 + W, to_le_bytes(ix.fee.numerator, W), W)
          <5>1. 1 + W <= Len(input) /\ 1 + W <= Len(e) /\ 1 + W + W <= Len(input)
                /\ 1 + W + W <= Len(e) /\ 1 + W \in Nat
            BY <1>1, <1>2, <4>2
          <5>2. QED BY <1>1, <1>2, <1>3, <2>5, <5>1, AgreeingPart
        <4>5. /\ from_le_bytes(First(After(input, 1), W)) = ix.fee.denominator
              /\ from_le_bytes(First(After(input, 1 + W), W)) = ix.fee.numerator
          <5>1. /\ 1 + W <= Len(input) /\ (1 + W) + W <= Len(input)
                /\ 1 \in Nat /\ 1 + W \in Nat
            BY <1>2, <4>2
          <5>2. /\ ix.fee.denominator \in Nat /\ ix.fee.numerator \in Nat
                /\ ix.fee.denominator < Weight[W] /\ ix.fee.numerator < Weight[W]
            BY <3>1, ValuesFit
          <5>3. QED BY <1>2, <4>4, <5>1, <5>2, NumberReadBack
        <4>6. QED BY <3>1, <4>1, <4>3, <4>5
      <3>4. QED BY <3>2, <3>3
    <2>6. CASE op \in WithAmount
      <3>1. ix = [op |-> op, amount |-> ix.amount] /\ ix.amount \in Amounts
        BY <2>6, PoolOps DEF PoolInstructions
      <3>2. op # "Initialize"
        BY <2>6, PoolOps
      <3>3. CASE ~HasArgs(input, W)
        <4>1. deserialize(input) = Rejected
          BY <1>5, <2>3, <2>4, <2>6, <3>2, <3>3 DEF deserialize
        <4>2. Len(input) < Len(e)
          BY <1>1, <1>2, <3>3 DEF HasArgs
        <4>3. QED BY <4>1, <4>2 DEF e
      <3>4. CASE HasArgs(input, W)
        <4>1. deserialize(input) =
                [op |-> op, amount |-> from_le_bytes(First(After(input, 1), W))]
          BY <1>5, <2>3, <2>4, <2>6, <3>2, <3>4 DEF deserialize, Args
        <4>2. Len(input) >= 1 + W /\ Len(e) >= 1 + W
          BY <1>1, <1>2, <3>4 DEF HasArgs
        <4>3. Stands(input, 1, to_le_bytes(ix.amount, W), W)
          BY <1>1, <1>2, <1>3, <2>6, <4>2, AgreeingPart
        <4>4. from_le_bytes(First(After(input, 1), W)) = ix.amount
          BY <1>2, <3>1, <4>2, <4>3, ValuesFit, NumberReadBack
        <4>5. QED BY <3>1, <4>1, <4>4
      <3>5. QED BY <3>3, <3>4
    <2>7. CASE op # "Initialize" /\ op \notin WithAmount
      <3>1. ix = [op |-> op]
        BY <2>7, PoolOps DEF PoolInstructions
      <3>2. deserialize(input) = [op |-> op]
        BY <1>5, <2>3, <2>4, <2>7 DEF deserialize
      <3>3. QED BY <3>1, <3>2
    <2>8. QED BY <2>5, <2>6, <2>7
  <1>6. QED BY <1>4, <1>5

-----------------------------------------------------------------------------
(***************************************************************************)
(* Instructions of the token program.                                      *)
(***************************************************************************)

MultisigInstructions == [op : {"InitializeMultisig"}, m : 1 .. MAX_SIGNERS]

\* The same as PoolNeverMisread says, and the encoding is bytes.
Reads(ix, input) ==
  \/ unpack(input) = ix
  \/ unpack(input) = Rejected /\ Len(input) < Len(pack(ix))

\* The parts of a concatenation stand in it.
LEMMA ConcatStands ==
  ASSUME NEW s \in Seq(Byte), NEW t \in Seq(Byte)
  PROVE  /\ s \o t \in Seq(Byte) /\ Len(s \o t) = Len(s) + Len(t)
         /\ \A i \in 1 .. Len(s) : (s \o t)[i] = s[i]
         /\ Stands(s \o t, Len(s), t, Len(t))
  <1>1. Len(s) \in Nat /\ Len(t) \in Nat
    BY LenProperties
  <1>2. /\ s \o t \in Seq(Byte) /\ Len(s \o t) = Len(s) + Len(t)
        /\ \A i \in 1 .. Len(s) + Len(t) : (s \o t)[i] =
             IF i <= Len(s) THEN s[i] ELSE t[i - Len(s)]
    BY ConcatProperties
  <1>3. ASSUME NEW i \in 1 .. Len(s) PROVE (s \o t)[i] = s[i]
    <2>1. i \in 1 .. Len(s) + Len(t) /\ i <= Len(s)
      BY <1>1
    <2>2. QED BY <1>2, <2>1
  <1>4. ASSUME NEW i \in 1 .. Len(t) PROVE (s \o t)[Len(s) + i] = t[i]
    <2>1. /\ Len(s) + i \in 1 .. Len(s) + Len(t) /\ ~(Len(s) + i <= Len(s))
          /\ (Len(s) + i) - Len(s) = i
      BY <1>1
    <2>2. QED BY <1>2, <2>1
  <1>5. QED BY <1>2, <1>3, <1>4 DEF Stands

\* Words and keys as sequences.
LEMMA FixedSeq ==
  ASSUME NEW n \in Nat, NEW f \in [1 .. n -> Byte]
  PROVE  f \in Seq(Byte) /\ Len(f) = n
  BY SeqDef

\* Bytes behind bytes.
LEMMA AfterAfter ==
  ASSUME NEW s \in Seq(Byte), NEW a \in Nat, NEW b \in Nat, a + b <= Len(s)
  PROVE  After(After(s, a), b) = After(s, a + b)
  <1> DEFINE t == After(s, a)
             u == After(t, b)
             v == After(s, a + b)
  <1>1. Len(s) \in Nat /\ a <= Len(s) /\ a + b \in Nat
    BY LenProperties
  <1>2. /\ t \in Seq(Byte) /\ Len(t) = Len(s) - a
        /\ \A i \in 1 .. Len(s) - a : t[i] = s[a + i]
    BY <1>1, AfterFacts
  <1>3. /\ v \in Seq(Byte) /\ Len(v) = Len(s) - (a + b)
        /\ \A i \in 1 .. Len(s) - (a + b) : v[i] = s[(a + b) + i]
    BY <1>1, AfterFacts
  <1> HIDE DEF t, v
  <1>4. b <= Len(t)
    BY <1>1, <1>2
  <1>5. /\ u \in Seq(Byte) /\ Len(u) = Len(t) - b
        /\ \A i \in 1 .. Len(t) - b : u[i] = t[b + i]
    BY <1>2, <1>4, AfterFacts
  <1> HIDE DEF u
  <1>6. Len(u) = Len(v)
    BY <1>1, <1>2, <1>3, <1>5
  <1>7. ASSUME NEW i \in 1 .. Len(u) PROVE u[i] = v[i]
    <2>1. /\ i \in 1 .. Len(t) - b /\ b + i \in 1 .. Len(s) - a
          /\ i \in 1 .. Len(s) - (a + b) /\ a + (b + i) = (a + b) + i
      BY <1>1, <1>2, <1>5
    <2>2. QED BY <1>2, <1>3, <1>5, <2>1
  <1>8. u = v
    BY <1>3, <1>5, <1>6, <1>7, SeqEqual
  <1>9. QED BY <1>8 DEF u, v, t

\* The match of unpack undoes the tags of pack.
LEMMA TokenTags ==
  /\ Len(TokenArm) = 17
  /\ DOMAIN AmountTag = {"Transfer", "Approve", "MintTo", "Burn"}
  /\ DOMAIN CheckedTag = {"TransferChecked", "ApproveChecked", "MintToChecked",
                          "BurnChecked"}
  /\ DOMAIN PlainTag = {"InitializeAccount", "Revoke", "CloseAccount",
                        "FreezeAccount", "ThawAccount"}
  /\ \A op \in DOMAIN AmountTag :
       AmountTag[op] \in 0 .. 16 /\ TokenArm[AmountTag[op] + 1] = op
  /\ \A op \in DOMAIN CheckedTag :
       CheckedTag[op] \in 0 .. 16 /\ TokenArm[CheckedTag[op] + 1] = op
  /\ \A op \in DOMAIN PlainTag :
       PlainTag[op] \in 0 .. 16 /\ TokenArm[PlainTag[op] + 1] = op
  /\ TokenArm[1] = "InitializeMint" /\ TokenArm[3] = "InitializeMultisig"
  /\ TokenArm[7] = "SetAuthority" /\ TokenArm[17] = "InitializeAccount2"
  BY DEF TokenArm, AmountTag, CheckedTag, PlainTag

\* Authority types are read back.
LEMMA AuthorityTypes ==
  /\ Len(AuthorityFrom) = 4
  /\ \A a \in DOMAIN AuthorityIndex :
       AuthorityIndex[a] \in 0 .. 3 /\ AuthorityFrom[AuthorityIndex[a] + 1] = a
  BY DEF AuthorityFrom, AuthorityIndex

\* One and two bytes as sequences.
LEMMA FewBytes ==
  ASSUME NEW a \in Byte, NEW b \in Byte
  PROVE  /\ <<a>> \in Seq(Byte) /\ Len(<<a>>) = 1 /\ <<a>>[1] = a
         /\ <<a, b>> \in Seq(Byte) /\ Len(<<a, b>>) = 2
         /\ <<a, b>>[1] = a /\ <<a, b>>[2] = b
  OBVIOUS

\* What stands in a sequence still does when more bytes follow.
LEMMA HeadStands ==
  ASSUME NEW s \in Seq(Byte), NEW t \in Seq(Byte), NEW a \in Nat, NEW n \in Nat,
         a + n <= Len(s), NEW part, Stands(s, a, part, n)
  PROVE  Stands(s \o t, a, part, n)
  <1> SUFFICES ASSUME NEW i \in 1 .. n PROVE (s \o t)[a + i] = part[i]
    BY DEF Stands
  <1>1. a + i \in 1 .. Len(s)
    BY LenProperties
  <1>2. QED BY <1>1, ConcatStands DEF Stands

\* What the two programs must do with the bytes of an instruction.
Faithful(ix) ==
  /\ pack(ix) \in Seq(Byte)
  /\ \A input \in Seq(Byte) : Agrees(input, pack(ix)) => Reads(ix, input)

\* Without bytes there is no instruction; with some, the tag is right.
LEMMA TokenHead ==
  ASSUME NEW ix, NEW e \in Seq(Byte), e = pack(ix), Len(e) >= 1, e[1] \in 0 .. 16,
         NEW input \in Seq(Byte), Agrees(input, e), ~Reads(ix, input)
  PROVE  /\ input # <<>> /\ Len(input) >= 1 /\ Len(input) \in Nat
         /\ input[1] = e[1] /\ ~(input[1] >= Len(TokenArm))
         /\ After(input, 1) \in Seq(Byte)
         /\ Len(After(input, 1)) = Len(input) - 1
         /\ \A i \in 1 .. Len(input) - 1 : After(input, 1)[i] = input[1 + i]
  <1>1. Len(input) \in Nat /\ Len(e) \in Nat
    BY LenProperties
  <1>2. input # <<>>
    <2>1. SUFFICES ASSUME input = <<>> PROVE FALSE
      OBVIOUS
    <2>2. Len(input) = 0
      BY <2>1, EmptySeq
    <2>3. unpack(input) = Rejected
      BY <2>1 DEF unpack
    <2>4. QED BY <1>1, <2>2, <2>3 DEF Reads
  <1>3. Len(input) >= 1
    BY <1>1, <1>2, EmptySeq
  <1>4. input[1] = e[1]
    BY <1>1, <1>3 DEF Agrees
  <1>5. ~(input[1] >= Len(TokenArm))
    <2>1. Len(TokenArm) = 17
      BY TokenTags
    <2>2. QED BY <1>4, <2>1
  <1>6. 1 \in Nat /\ 1 <= Len(input)
    BY <1>1, <1>3
  <1>7. /\ After(input, 1) \in Seq(Byte)
        /\ Len(After(input, 1)) = Len(input) - 1
        /\ \A i \in 1 .. Len(input) - 1 : After(input, 1)[i] = input[1 + i]
    BY <1>6, AfterFacts
  <1>8. QED BY <1>1, <1>2, <1>3, <1>4, <1>5, <1>7

\* Instructions without arguments.
LEMMA PlainNeverMisread ==
  ASSUME NEW op \in DOMAIN PlainTag
  PROVE  Faithful([op |-> op])
  <1> DEFINE ix == [op |-> op]
             e == pack(ix)
             tag == PlainTag[op]
  <1>1. e = <<tag>> /\ tag \in 0 .. 16 /\ TokenArm[tag + 1] = op
    BY TokenTags DEF pack
  <1>2. tag \in Byte
    BY <1>1, ValuesFit DEF Byte
  <1> HIDE DEF tag, e, ix
  <1>3. e \in Seq(Byte) /\ Len(e) = 1 /\ e[1] = tag
    BY <1>1, <1>2, FewBytes
  <1>4. Len(e) >= 1 /\ e[1] \in 0 .. 16
    BY <1>1, <1>3
  <1>5. ASSUME NEW input \in Seq(Byte), Agrees(input, e), ~Reads(ix, input)
        PROVE  FALSE
    <2>1. /\ input # <<>> /\ input[1] = tag /\ ~(input[1] >= Len(TokenArm))
      BY <1>3, <1>4, <1>5, TokenHead DEF e
    <2>2. TokenArm[input[1] + 1] = op
      BY <1>1, <2>1
    <2>3. unpack(input) = [op |-> op]
      BY <2>1, <2>2, TokenTags DEF unpack
    <2>4. QED BY <1>5, <2>3 DEF Reads, ix
  <1>6. QED BY <1>3, <1>5 DEF Faithful, e, ix

\* Instructions with an amount.
LEMMA AmountNeverMisread ==
  ASSUME NEW op \in DOMAIN AmountTag, NEW n \in Amounts
  PROVE  Faithful([op |-> op, amount |-> n])
  <1> DEFINE ix == [op |-> op, amount |-> n]
             e == pack(ix)
             tag == AmountTag[op]
             head == <<tag>>
             b == to_le_bytes(n, W)
  <1>1. e = head \o b /\ tag \in 0 .. 16 /\ TokenArm[tag + 1] = op
    BY TokenTags DEF pack
  <1>2. W \in Nat /\ n \in Nat /\ n < Weight[W]
    BY ValuesFit
  <1>3. b \in [1 .. W -> Byte] /\ b \in Seq(Byte) /\ Len(b) = W
    BY <1>2, BytesType, FixedSeq
  <1>4. tag \in Byte
    BY <1>1, ValuesFit DEF Byte
  <1> HIDE DEF b, tag, e, ix
  <1>5. head \in Seq(Byte) /\ Len(head) = 1 /\ head[1] = tag
    BY <1>4, FewBytes
  <1> HIDE DEF head
  <1>6. /\ e \in Seq(Byte) /\ Len(e) = 1 + W /\ e[1] = tag /\ Stands(e, 1, b, W)
    <2>1. /\ head \o b \in Seq(Byte) /\ Len(head \o b) = Len(head) + Len(b)
          /\ \A i \in 1 .. Len(head) : (head \o b)[i] = head[i]
          /\ Stands(head \o b, Len(head), b, Len(b))
      BY <1>3, <1>5, ConcatStands
    <2>2. 1 \in 1 .. Len(head)
      BY <1>5
    <2>3. QED BY <1>1, <1>3, <1>5, <2>1, <2>2
  <1>7. Len(e) >= 1 /\ e[1] \in 0 .. 16
    BY <1>1, <1>2, <1>6
  <1>8. ASSUME NEW input \in Seq(Byte), Agrees(input, e), ~Reads(ix, input)
        PROVE  FALSE
    <2>1. /\ input # <<>> /\ Len(input) >= 1 /\ Len(input) \in Nat
          /\ input[1] = tag /\ ~(input[1] >= Len(TokenArm))
          /\ After(input, 1) \in Seq(Byte)
          /\ Len(After(input, 1)) = Len(input) - 1
      BY <1>6, <1>7, <1>8, TokenHead DEF e
    <2>2. TokenArm[input[1] + 1] = op
      BY <1>1, <2>1
    <2>3. CASE Len(After(input, 1)) < W
      <3>1. unpack(input) = Rejected
        BY <2>1, <2>2, <2>3, TokenTags DEF unpack
      <3>2. Len(input) < Len(e)
        BY <1>2, <1>6, <2>1, <2>3
      <3>3. QED BY <1>8, <3>1, <3>2 DEF Reads, e
    <2>4. CASE ~(Len(After(input, 1)) < W)
      <3>1. unpack(input) =
              [op |-> op, amount |-> from_le_bytes(First(After(input, 1), W))]
        BY <2>1, <2>2, <2>4, TokenTags DEF unpack
      <3>2. 1 + W <= Len(input) /\ 1 + W <= Len(e)
        BY <1>2, <1>6, <2>1, <2>4
      <3>3. Stands(input, 1, b, W)
        BY <1>2, <1>6, <1>8, <3>2, AgreeingPart
      <3>4. from_le_bytes(First(After(input, 1), W)) = n
        BY <1>2, <3>2, <3>3, NumberReadBack DEF b
      <3>5. QED BY <1>8, <3>1, <3>4 DEF Reads, ix
    <2>5. QED BY <2>3, <2>4
  <1>9. QED BY <1>6, <1>8 DEF Faithful, e, ix

\* Instructions with an amount and the decimals.
LEMMA CheckedNeverMisread ==
  ASSUME NEW op \in DOMAIN CheckedTag, NEW n \in Amounts, NEW dec \in 0 .. 1
  PROVE  Faithful([op |-> op, amount |-> n, decimals |-> dec])
  <1> DEFINE ix == [op |-> op, amount |-> n, decimals |-> dec]
             e == pack(ix)
             tag == CheckedTag[op]
             head == <<tag>>
             tail == <<dec>>
             b == to_le_bytes(n, W)
             x == head \o b
  <1>1. e = x \o tail /\ tag \in 0 .. 16 /\ TokenArm[tag + 1] = op
    BY TokenTags DEF pack
  <1>2. W \in Nat /\ n \in Nat /\ n < Weight[W]
    BY ValuesFit
  <1>3. b \in [1 .. W -> Byte] /\ b \in Seq(Byte) /\ Len(b) = W
    BY <1>2, BytesType, FixedSeq
  <1>4. tag \in Byte /\ dec \in Byte
    BY <1>1, ValuesFit DEF Byte
  <1> HIDE DEF b, tag, e, ix
  <1>5. /\ head \in Seq(Byte) /\ Len(head) = 1 /\ head[1] = tag
        /\ tail \in Seq(Byte) /\ Len(tail) = 1 /\ tail[1] = dec
    BY <1>4, FewBytes
  <1> HIDE DEF head, tail
  <1>6. /\ x \in Seq(Byte) /\ Len(x) = 1 + W /\ x[1] = tag /\ Stands(x, 1, b, W)
    <2>1. /\ x \in Seq(Byte) /\ Len(x) = Len(head) + Len(b)
          /\ \A i \in 1 .. Len(head) : x[i] = head[i]
          /\ Stands(x, Len(head), b, Len(b))
      BY <1>3, <1>5, ConcatStands
    <2>2. 1 \in 1 .. Len(head)
      BY <1>5
    <2>3. QED BY <1>3, <1>5, <2>1, <2>2
  <1> HIDE DEF x
  <1>7. /\ e \in Seq(Byte) /\ Len(e) = 2 + W /\ e[1] = tag /\ Stands(e, 1, b, W)
        /\ e[2 + W] = dec
    <2>1. /\ x \o tail \in Seq(Byte) /\ Len(x \o tail) = Len(x) + Len(tail)
          /\ \A i \in 1 .. Len(x) : (x \o tail)[i] = x[i]
          /\ Stands(x \o tail, Len(x), tail, Len(tail))
      BY <1>5, <1>6, ConcatStands
    <2>2. 1 \in 1 .. Len(x) /\ Len(x) + 1 = 2 + W /\ 1 + W <= Len(x)
      BY <1>2, <1>6
    <2>3. Stands(x \o tail, 1, b, W)
      BY <1>2, <1>5, <1>6, <2>2, HeadStands
    <2>4. (x \o tail)[Len(x) + 1] = dec
      BY <1>5, <2>1 DEF Stands
    <2>5. QED BY <1>1, <1>5, <1>6, <2>1, <2>2, <2>3, <2>4
  <1>8. Len(e) >= 1 /\ e[1] \in 0 .. 16
    BY <1>1, <1>2, <1>7
  <1>9. ASSUME NEW input \in Seq(Byte), Agrees(input, e), ~Reads(ix, input)
        PROVE  FALSE
    <2>1. /\ input # <<>> /\ Len(input) >= 1 /\ Len(input) \in Nat
          /\ input[1] = tag /\ ~(input[1] >= Len(TokenArm))
          /\ After(input, 1) \in Seq(Byte)
          /\ Len(After(input, 1)) = Len(input) - 1
          /\ \A i \in 1 .. Len(input) - 1 : After(input, 1)[i] = input[1 + i]
      BY <1>7, <1>8, <1>9, TokenHead DEF e
    <2>2. TokenArm[input[1] + 1] = op
      BY <1>1, <2>1
    <2>3. CASE Len(After(input, 1)) < W + 1
      <3>1. unpack(input) = Rejected
        BY <2>1, <2>2, <2>3, TokenTags DEF unpack
      <3>2. Len(input) < Len(e)
        BY <1>2, <1>7, <2>1, <2>3
      <3>3. QED BY <1>9, <3>1, <3>2 DEF Reads, e
    <2>4. CASE ~(Len(After(input, 1)) < W + 1)
      <3>1. unpack(input) =
              [op |-> op, amount |-> from_le_bytes(First(After(input, 1), W)),
               decimals |-> After(input, 1)[W + 1]]
        BY <2>1, <2>2, <2>4, TokenTags DEF unpack
      <3>2. /\ 1 + W <= Len(input) /\ 1 + W <= Len(e) /\ 2 + W <= Len(input)
            /\ W + 1 \in 1 .. Len(input) - 1 /\ 1 + (W + 1) = 2 + W
            /\ 2 + W \in 1 .. Len(input) /\ 2 + W <= Len(e)
        BY <1>2, <1>7, <2>1, <2>4
      <3>3. Stands(input, 1, b, W)
        BY <1>2, <1>7, <1>9, <3>2, AgreeingPart
      <3>4. from_le_bytes(First(After(input, 1), W)) = n
        BY <1>2, <3>2, <3>3, NumberReadBack DEF b
      <3>5. After(input, 1)[W + 1] = dec
        BY <1>7, <1>9, <2>1, <3>2 DEF Agrees
      <3>6. QED BY <1>9, <3>1, <3>4, <3>5 DEF Reads, ix
    <2>5. QED BY <2>3, <2>4
  <1>10. QED BY <1>7, <1>9 DEF Faithful, e, ix

\* Two bytes, the second an argument, and the multisig's threshold.
LEMMA MultisigNeverMisread ==
  ASSUME NEW m \in 1 .. MAX_SIGNERS
  PROVE  Faithful([op |-> "InitializeMultisig", m |-> m])
  <1> DEFINE ix == [op |-> "InitializeMultisig", m |-> m]
             e == pack(ix)
  <1>1. e = <<2, m>>
    BY TokenTags DEF pack
  <1>2. m \in Byte /\ 2 \in Byte
    BY CodecAssumption DEF Byte
  <1> HIDE DEF e, ix
  <1>3. e \in Seq(Byte) /\ Len(e) = 2 /\ e[1] = 2 /\ e[2] = m
    BY <1>1, <1>2, FewBytes
  <1>4. Len(e) >= 1 /\ e[1] \in 0 .. 16
    BY <1>3
  <1>5. ASSUME NEW input \in Seq(Byte), Agrees(input, e), ~Reads(ix, input)
        PROVE  FALSE
    <2>1. /\ input # <<>> /\ Len(input) >= 1 /\ Len(input) \in Nat
          /\ input[1] = 2 /\ ~(input[1] >= Len(TokenArm))
          /\ After(input, 1) \in Seq(Byte)
          /\ Len(After(input, 1)) = Len(input) - 1
          /\ \A i \in 1 .. Len(input) - 1 : After(input, 1)[i] = input[1 + i]
      BY <1>3, <1>4, <1>5, TokenHead DEF e
    <2>2. TokenArm[input[1] + 1] = "InitializeMultisig"
      BY <2>1, TokenTags
    <2>3. CASE After(input, 1) = <<>>
      <3>1. unpack(input) = Rejected
        BY <2>1, <2>2, <2>3, TokenTags DEF unpack
      <3>2. Len(After(input, 1)) = 0
        BY <2>3, EmptySeq
      <3>3. Len(input) < Len(e)
        BY <1>3, <2>1, <3>2
      <3>4. QED BY <1>5, <3>1, <3>3 DEF Reads, e
    <2>4. CASE After(input, 1) # <<>>
      <3>1. unpack(input) = [op |-> "InitializeMultisig", m |-> After(input, 1)[1]]
        BY <2>1, <2>2, <2>4, TokenTags DEF unpack
      <3>2. Len(After(input, 1)) # 0
        BY <2>1, <2>4, EmptySeq
      <3>3. /\ 1 \in 1 .. Len(input) - 1 /\ 1 + 1 = 2
            /\ 2 \in 1 .. Len(input) /\ 2 <= Len(e)
        BY <1>3, <2>1, <3>2
      <3>4. After(input, 1)[1] = m
        BY <1>3, <1>5, <2>1, <3>3 DEF Agrees
      <3>5. QED BY <1>5, <3>1, <3>4 DEF Reads, ix
    <2>5. QED BY <2>3, <2>4
  <1>6. QED BY <1>3, <1>5 DEF Faithful, e, ix

\* The owner behind the tag.
LEMMA AccountNeverMisread ==
  ASSUME NEW k \in Keys
  PROVE  Faithful([op |-> "InitializeAccount2", owner |-> k])
  <1> DEFINE ix == [op |-> "InitializeAccount2", owner |-> k]
             e == pack(ix)
             head == <<16>>
  <1>1. e = head \o k
    BY TokenTags DEF pack
  <1>2. KeyLen \in Nat /\ k \in [1 .. KeyLen -> Byte] /\ 16 \in Byte
    BY ValuesFit DEF Byte
  <1>3. k \in Seq(Byte) /\ Len(k) = KeyLen
    BY <1>2, FixedSeq
  <1>4. head \in Seq(Byte) /\ Len(head) = 1 /\ head[1] = 16
    BY <1>2, FewBytes
  <1> HIDE DEF e, ix, head
  <1>5. /\ e \in Seq(Byte) /\ Len(e) = 1 + KeyLen /\ e[1] = 16
        /\ Stands(e, 1, k, KeyLen)
    <2>1. /\ head \o k \in Seq(Byte) /\ Len(head \o k) = Len(head) + Len(k)
          /\ \A i \in 1 .. Len(head) : (head \o k)[i] = head[i]
          /\ Stands(head \o k, Len(head), k, Len(k))
      BY <1>3, <1>4, ConcatStands
    <2>2. 1 \in 1 .. Len(head)
      BY <1>4
    <2>3. QED BY <1>1, <1>3, <1>4, <2>1, <2>2
  <1>6. Len(e) >= 1 /\ e[1] \in 0 .. 16
    BY <1>2, <1>5
  <1>7. ASSUME NEW input \in Seq(Byte), Agrees(input, e), ~Reads(ix, input)
        PROVE  FALSE
    <2>1. /\ input # <<>> /\ Len(input) >= 1 /\ Len(input) \in Nat
          /\ input[1] = 16 /\ ~(input[1] >= Len(TokenArm))
          /\ After(input, 1) \in Seq(Byte)
          /\ Len(After(input, 1)) = Len(input) - 1
      BY <1>5, <1>6, <1>7, TokenHead DEF e
    <2>2. TokenArm[input[1] + 1] = "InitializeAccount2"
      BY <2>1, TokenTags
    <2>3. CASE Len(After(input, 1)) < KeyLen
      <3>1. unpack(input) = Rejected
        BY <2>1, <2>2, <2>3, TokenTags DEF unpack
      <3>2. Len(input) < Len(e)
        BY <1>2, <1>5, <2>1, <2>3
      <3>3. QED BY <1>7, <3>1, <3>2 DEF Reads, e
    <2>4. CASE ~(Len(After(input, 1)) < KeyLen)
      <3>1. unpack(input) =
              [op |-> "InitializeAccount2", owner |-> First(After(input, 1), KeyLen)]
        BY <2>1, <2>2, <2>4, TokenTags DEF unpack
      <3>2. 1 + KeyLen <= Len(input) /\ 1 + KeyLen <= Len(e)
        BY <1>2, <1>5, <2>1, <2>4
      <3>3. Stands(input, 1, k, KeyLen)
        BY <1>2, <1>5, <1>7, <3>2, AgreeingPart
      <3>4. First(After(input, 1), KeyLen) = k
        BY <1>2, <3>2, <3>3, PartReadBack
      <3>5. QED BY <1>7, <3>1, <3>4 DEF Reads, ix
    <2>5. QED BY <2>3, <2>4
  <1>8. QED BY <1>5, <1>7 DEF Faithful, e, ix

\* The bytes of an optional key.
LEMMA OptionBytes ==
  ASSUME NEW key \in Keys \cup {<<>>}
  PROVE  LET p == pack_pubkey_option(key)
         IN /\ p \in Seq(Byte) /\ Len(p) \in Nat /\ Len(p) >= 1
            /\ key = <<>> => Len(p) = 1 /\ p[1] = 0
            /\ key # <<>> => /\ Len(p) = 1 + KeyLen /\ p[1] = 1
                             /\ Stands(p, 1, key, KeyLen)
  <1> DEFINE p == pack_pubkey_option(key)
             head == <<1>>
  <1>1. KeyLen \in Nat /\ 0 \in Byte /\ 1 \in Byte
    BY ValuesFit DEF Byte
  <1>2. CASE key = <<>>
    <2>1. p = <<0>>
      BY <1>2 DEF pack_pubkey_option
    <2> HIDE DEF p
    <2>2. p \in Seq(Byte) /\ Len(p) = 1 /\ p[1] = 0
      BY <1>1, <2>1, FewBytes
    <2>3. QED BY <1>2, <2>2 DEF p
  <1>3. CASE key # <<>>
    <2>1. p = head \o key
      BY <1>3 DEF pack_pubkey_option
    <2>2. key \in [1 .. KeyLen -> Byte]
      BY <1>3, ValuesFit
    <2>3. key \in Seq(Byte) /\ Len(key) = KeyLen
      BY <1>1, <2>2, FixedSeq
    <2>4. head \in Seq(Byte) /\ Len(head) = 1 /\ head[1] = 1
      BY <1>1, FewBytes
    <2> HIDE DEF p, head
    <2>5. /\ head \o key \in Seq(Byte) /\ Len(head \o key) = Len(head) + Len(key)
          /\ \A i \in 1 .. Len(head) : (head \o key)[i] = head[i]
          /\ Stands(head \o key, Len(head), key, Len(key))
      BY <2>3, <2>4, ConcatStands
    <2>6. 1 \in 1 .. Len(head)
      BY <2>4
    <2>7. /\ p \in Seq(Byte) /\ Len(p) = 1 + KeyLen /\ p[1] = 1
          /\ Stands(p, 1, key, KeyLen)
      BY <2>1, <2>3, <2>4, <2>5, <2>6
    <2>8. Len(p) \in Nat /\ Len(p) >= 1
      BY <1>1, <2>7
    <2>9. QED BY <1>3, <2>7, <2>8 DEF p
  <1>4. QED BY <1>2, <1>3

\* An optional key at the end of an encoding is read back, or bytes of it are
\* missing.
LEMMA OptionReadBack ==
  ASSUME NEW key \in Keys \cup {<<>>}, NEW e \in Seq(Byte), NEW a \in Nat,
         Stands(e, a, pack_pubkey_option(key), Len(pack_pubkey_option(key))),
         Len(e) = a + Len(pack_pubkey_option(key)),
         NEW input \in Seq(Byte), Agrees(input, e), a <= Len(input)
  PROVE  IF HasKeyOption(After(input, a))
         THEN KeyOption(After(input, a)) = key
         ELSE Len(input) < Len(e)
  <1> DEFINE p == pack_pubkey_option(key)
             rest == After(input, a)
  <1>1. /\ p \in Seq(Byte) /\ Len(p) \in Nat /\ Len(p) >= 1
        /\ key = <<>> => Len(p) = 1 /\ p[1] = 0
        /\ key # <<>> => Len(p) = 1 + KeyLen /\ p[1] = 1 /\ Stands(p, 1, key, KeyLen)
    BY OptionBytes
  <1>2. Stands(e, a, p, Len(p)) /\ Len(e) = a + Len(p)
    OBVIOUS
  <1>3. Len(input) \in Nat /\ Len(e) \in Nat /\ KeyLen \in Nat
    BY LenProperties, ValuesFit
  <1>4. /\ rest \in Seq(Byte) /\ Len(rest) = Len(input) - a
        /\ \A i \in 1 .. Len(input) - a : rest[i] = input[a + i]
    BY AfterFacts
  <1> HIDE DEF p, rest
  <1>5. CASE rest = <<>>
    <2>1. ~HasKeyOption(rest)
      BY <1>5 DEF HasKeyOption
    <2>2. Len(rest) = 0
      BY <1>5, EmptySeq
    <2>3. Len(input) < Len(e)
      BY <1>1, <1>2, <1>3, <1>4, <2>2
    <2>4. QED BY <2>1, <2>3 DEF rest
  <1>6. CASE rest # <<>>
    <2>1. Len(rest) # 0
      BY <1>4, <1>6, EmptySeq
    <2>2. /\ 1 \in 1 .. Len(input) - a /\ 1 \in 1 .. Len(p)
          /\ a + 1 \in 1 .. Len(input) /\ a + 1 <= Len(e)
      BY <1>1, <1>2, <1>3, <1>4, <2>1
    <2>3. rest[1] = p[1]
      <3>1. rest[1] = input[a + 1]
        BY <1>4, <2>2
      <3>2. input[a + 1] = e[a + 1]
        BY <2>2 DEF Agrees
      <3>3. e[a + 1] = p[1]
        BY <1>2, <2>2 DEF Stands
      <3>4. QED BY <3>1, <3>2, <3>3
    <2>4. CASE key = <<>>
      <3>1. rest[1] = 0
        BY <1>1, <2>3, <2>4
      <3>2. HasKeyOption(rest) /\ KeyOption(rest) = <<>>
        BY <1>6, <3>1 DEF HasKeyOption, KeyOption
      <3>3. QED BY <2>4, <3>2 DEF rest
    <2>5. CASE key # <<>>
      <3>1. rest[1] = 1 /\ Len(p) = 1 + KeyLen /\ Stands(p, 1, key, KeyLen)
        BY <1>1, <2>3, <2>5
      <3>2. CASE Len(rest) >= 1 + KeyLen
        <4>1. HasKeyOption(rest) /\ KeyOption(rest) = First(After(rest, 1), KeyLen)
          BY <1>6, <3>1, <3>2 DEF HasKeyOption, KeyOption
        <4>2. Stands(rest, 1, key, KeyLen)
          <5> SUFFICES ASSUME NEW i \in 1 .. KeyLen PROVE rest[1 + i] = key[i]
            BY DEF Stands
          <5>1. /\ 1 + i \in 1 .. Len(input) - a /\ 1 + i \in 1 .. Len(p)
                /\ a + (1 + i) \in 1 .. Len(input) /\ a + (1 + i) <= Len(e)
            BY <1>2, <1>3, <1>4, <3>1, <3>2
          <5>2. rest[1 + i] = input[a + (1 + i)]
            BY <1>4, <5>1
          <5>3. input[a + (1 + i)] = e[a + (1 + i)]
            BY <5>1 DEF Agrees
          <5>4. e[a + (1 + i)] = p[1 + i]
            BY <1>2, <5>1 DEF Stands
          <5>5. p[1 + i] = key[i]
            BY <3>1 DEF Stands
          <5>6. QED BY <5>2, <5>3, <5>4, <5>5
        <4>3. key \in [1 .. KeyLen -> Byte]
          BY <2>5, ValuesFit
        <4>4. 1 \in Nat /\ 1 + KeyLen <= Len(rest)
          BY <1>3, <1>4, <3>2
        <4>5. First(After(rest, 1), KeyLen) = key
          BY <1>3, <1>4, <4>2, <4>3, <4>4, PartReadBack
        <4>6. QED BY <4>1, <4>5 DEF rest
      <3>3. CASE ~(Len(rest) >= 1 + KeyLen)
        <4>1. ~HasKeyOption(rest)
          BY <3>1, <3>3 DEF HasKeyOption
        <4>2. Len(input) < Len(e)
          BY <1>2, <1>3, <1>4, <3>1, <3>3
        <4>3. QED BY <4>1, <4>2 DEF rest
      <3>4. QED BY <3>2, <3>3
    <2>6. QED BY <2>4, <2>5
  <1>7. QED BY <1>5, <1>6

\* The authority's type and the new authority.
LEMMA SetAuthorityNeverMisread ==
  ASSUME NEW t \in DOMAIN AuthorityIndex, NEW key \in Keys \cup {<<>>}
  PROVE  Faithful([op |-> "SetAuthority", authority_type |-> t,
                   new_authority |-> key])
  <1> DEFINE ix == [op |-> "SetAuthority", authority_type |-> t,
                    new_authority |-> key]
             e == pack(ix)
             j == AuthorityIndex[t]
             head == <<6, j>>
             p == pack_pubkey_option(key)
  <1>1. e = head \o p
    BY TokenTags DEF pack
  <1>2. j \in 0 .. 3 /\ AuthorityFrom[j + 1] = t /\ Len(AuthorityFrom) = 4
    BY AuthorityTypes
  <1>3. j \in Byte /\ 6 \in Byte
    BY <1>2, ValuesFit DEF Byte
  <1>4. p \in Seq(Byte) /\ Len(p) \in Nat /\ Len(p) >= 1
    BY OptionBytes
  <1> HIDE DEF j, e, ix, p
  <1>5. head \in Seq(Byte) /\ Len(head) = 2 /\ head[1] = 6 /\ head[2] = j
    BY <1>3, FewBytes
  <1> HIDE DEF head
  <1>6. /\ e \in Seq(Byte) /\ Len(e) = 2 + Len(p) /\ e[1] = 6 /\ e[2] = j
        /\ Stands(e, 2, p, Len(p))
    <2>1. /\ head \o p \in Seq(Byte) /\ Len(head \o p) = Len(head) + Len(p)
          /\ \A i \in 1 .. Len(head) : (head \o p)[i] = head[i]
          /\ Stands(head \o p, Len(head), p, Len(p))
      BY <1>4, <1>5, ConcatStands
    <2>2. 1 \in 1 .. Len(head) /\ 2 \in 1 .. Len(head)
      BY <1>5
    <2>3. QED BY <1>1, <1>5, <2>1, <2>2
  <1>7. Len(e) >= 1 /\ e[1] \in 0 .. 16
    BY <1>4, <1>6
  <1>8. ASSUME NEW input \in Seq(Byte), Agrees(input, e), ~Reads(ix, input)
        PROVE  FALSE
    <2>1. /\ input # <<>> /\ Len(input) >= 1 /\ Len(input) \in Nat
          /\ input[1] = 6 /\ ~(input[1] >= Len(TokenArm))
          /\ After(input, 1) \in Seq(Byte)
          /\ Len(After(input, 1)) = Len(input) - 1
          /\ \A i \in 1 .. Len(input) - 1 : After(input, 1)[i] = input[1 + i]
      BY <1>6, <1>7, <1>8, TokenHead DEF e
    <2>2. TokenArm[input[1] + 1] = "SetAuthority"
      BY <2>1, TokenTags
    <2> DEFINE rest == After(input, 1)
    <2>3. CASE rest = <<>>
      <3>1. unpack(input) = Rejected
        BY <2>1, <2>2, <2>3, TokenTags DEF unpack
      <3>2. Len(rest) = 0
        BY <2>3, EmptySeq
      <3>3. Len(input) < Len(e)
        BY <1>4, <1>6, <2>1, <3>2
      <3>4. QED BY <1>8, <3>1, <3>3 DEF Reads, e
    <2>4. CASE rest # <<>>
      <3>1. Len(rest) # 0
        BY <2>1, <2>4, EmptySeq
      <3>2. /\ 1 \in 1 .. Len(input) - 1 /\ 2 \in 1 .. Len(input) /\ 2 <= Len(e)
            /\ 2 <= Len(input) /\ 1 + 1 <= Len(input) /\ 1 + 1 = 2
        BY <1>4, <1>6, <2>1, <3>1
      <3>3. rest[1] = j
        BY <1>6, <1>8, <2>1, <3>2 DEF Agrees
      <3>4. ~(rest[1] >= Len(AuthorityFrom)) /\ AuthorityFrom[rest[1] + 1] = t
        BY <1>2, <3>3
      <3>5. After(rest, 1) = After(input, 2)
        BY <3>2, AfterAfter
      <3>6. IF HasKeyOption(After(input, 2))
            THEN KeyOption(After(input, 2)) = key
            ELSE Len(input) < Len(e)
        BY <1>6, <1>8, <3>2, OptionReadBack DEF p
      <3>7. CASE HasKeyOption(After(rest, 1))
        <4>1. unpack(input) =
                [op |-> "SetAuthority", authority_type |-> AuthorityFrom[rest[1] + 1],
                 new_authority |-> KeyOption(After(rest, 1))]
          BY <2>1, <2>2, <2>4, <3>4, <3>7, TokenTags DEF unpack
        <4>2. QED BY <1>8, <3>4, <3>5, <3>6, <3>7, <4>1 DEF Reads, ix
      <3>8. CASE ~HasKeyOption(After(rest, 1))
        <4>1. unpack(input) = Rejected
          BY <2>1, <2>2, <2>4, <3>4, <3>8, TokenTags DEF unpack
        <4>2. QED BY <1>8, <3>5, <3>6, <3>8, <4>1 DEF Reads, e
      <3>9. QED BY <3>7, <3>8
    <2>5. QED BY <2>3, <2>4
  <1>9. QED BY <1>6, <1>8 DEF Faithful, e, ix

\* Decimals, the mint's authority and the authority to freeze.
LEMMA MintNeverMisread ==
  ASSUME NEW dec \in 0 .. 1, NEW k \in Keys, NEW key \in Keys \cup {<<>>}
  PROVE  Faithful([op |-> "InitializeMint", decimals |-> dec,
                   mint_authority |-> k, freeze_authority |-> key])
  <1> DEFINE ix == [op |-> "InitializeMint", decimals |-> dec,
                    mint_authority |-> k, freeze_authority |-> key]
             e == pack(ix)
             head == <<0, dec>>
             x == head \o k
             p == pack_pubkey_option(key)
  <1>1. e = x \o p
    BY TokenTags DEF pack
  <1>2. dec \in Byte /\ 0 \in Byte /\ KeyLen \in Nat /\ k \in [1 .. KeyLen -> Byte]
    BY ValuesFit DEF Byte
  <1>3. k \in Seq(Byte) /\ Len(k) = KeyLen
    BY <1>2, FixedSeq
  <1>4. p \in Seq(Byte) /\ Len(p) \in Nat /\ Len(p) >= 1
    BY OptionBytes
  <1> HIDE DEF e, ix, p
  <1>5. head \in Seq(Byte) /\ Len(head) = 2 /\ head[1] = 0 /\ head[2] = dec
    BY <1>2, FewBytes
  <1> HIDE DEF head
  <1>6. /\ x \in Seq(Byte) /\ Len(x) = 2 + KeyLen /\ x[1] = 0 /\ x[2] = dec
        /\ Stands(x, 2, k, KeyLen)
    <2>1. /\ x \in Seq(Byte) /\ Len(x) = Len(head) + Len(k)
          /\ \A i \in 1 .. Len(head) : x[i] = head[i]
          /\ Stands(x, Len(head), k, Len(k))
      BY <1>3, <1>5, ConcatStands
    <2>2. 1 \in 1 .. Len(head) /\ 2 \in 1 .. Len(head)
      BY <1>5
    <2>3. QED BY <1>3, <1>5, <2>1, <2>2
  <1> HIDE DEF x
  <1>7. /\ e \in Seq(Byte) /\ Len(e) = (2 + KeyLen) + Len(p)
        /\ e[1] = 0 /\ e[2] = dec /\ Stands(e, 2, k, KeyLen)
        /\ Stands(e, 2 + KeyLen, p, Len(p))
    <2>1. /\ x \o p \in Seq(Byte) /\ Len(x \o p) = Len(x) + Len(p)
          /\ \A i \in 1 .. Len(x) : (x \o p)[i] = x[i]
          /\ Stands(x \o p, Len(x), p, Len(p))
      BY <1>4, <1>6, ConcatStands
    <2>2. 1 \in 1 .. Len(x) /\ 2 \in 1 .. Len(x) /\ 2 + KeyLen <= Len(x)
      BY <1>2, <1>6
    <2>3. Stands(x \o p, 2, k, KeyLen)
      BY <1>2, <1>4, <1>6, <2>2, HeadStands
    <2>4. QED BY <1>1, <1>6, <2>1, <2>2, <2>3
  <1>8. Len(e) >= 1 /\ e[1] \in 0 .. 16
    BY <1>2, <1>4, <1>7
  <1>9. ASSUME NEW input \in Seq(Byte), Agrees(input, e), ~Reads(ix, input)
        PROVE  FALSE
    <2>1. /\ input # <<>> /\ Len(input) >= 1 /\ Len(input) \in Nat
          /\ input[1] = 0 /\ ~(input[1] >= Len(TokenArm))
          /\ After(input, 1) \in Seq(Byte)
          /\ Len(After(input, 1)) = Len(input) - 1
          /\ \A i \in 1 .. Len(input) - 1 : After(input, 1)[i] = input[1 + i]
      BY <1>7, <1>8, <1>9, TokenHead DEF e
    <2>2. TokenArm[input[1] + 1] = "InitializeMint"
      BY <2>1, TokenTags
    <2> DEFINE rest == After(input, 1)
    <2>3. CASE Len(rest) < 1 + KeyLen
      <3>1. unpack(input) = Rejected
        BY <2>1, <2>2, <2>3, TokenTags DEF unpack
      <3>2. Len(input) < Len(e)
        BY <1>2, <1>4, <1>7, <2>1, <2>3
      <3>3. QED BY <1>9, <3>1, <3>2 DEF Reads, e
    <2>4. CASE ~(Len(rest) < 1 + KeyLen)
      <3>1. /\ 1 \in 1 .. Len(input) - 1 /\ 2 \in 1 .. Len(input) /\ 2 <= Len(e)
            /\ 2 + KeyLen \in Nat /\ 2 + KeyLen <= Len(input) /\ 2 + KeyLen <= Len(e)
            /\ 1 + 1 = 2 /\ 1 + 1 <= Len(input) /\ 1 + KeyLen \in Nat
            /\ 1 + (1 + KeyLen) = 2 + KeyLen
        BY <1>2, <1>4, <1>7, <2>1, <2>4
      <3>2. rest[1] = dec
        BY <1>7, <1>9, <2>1, <3>1 DEF Agrees
      <3>3. /\ After(rest, 1) = After(input, 2)
            /\ After(rest, 1 + KeyLen) = After(input, 2 + KeyLen)
        BY <3>1, AfterAfter
      <3>4. First(After(input, 2), KeyLen) = k
        <4>1. Stands(input, 2, k, KeyLen)
          BY <1>2, <1>7, <1>9, <3>1, AgreeingPart
        <4>2. QED BY <1>2, <3>1, <4>1, PartReadBack
      <3>5. IF HasKeyOption(After(input, 2 + KeyLen))
            THEN KeyOption(After(input, 2 + KeyLen)) = key
            ELSE Len(input) < Len(e)
        BY <1>7, <1>9, <3>1, OptionReadBack DEF p
      <3>6. CASE HasKeyOption(After(rest, 1 + KeyLen))
        <4>1. unpack(input) =
                [op |-> "InitializeMint", decimals |-> rest[1],
                 mint_authority |-> First(After(rest, 1), KeyLen),
                 freeze_authority |-> KeyOption(After(rest, 1 + KeyLen))]
          BY <2>1, <2>2, <2>4, <3>6, TokenTags DEF unpack
        <4>2. QED BY <1>9, <3>2, <3>3, <3>4, <3>5, <3>6, <4>1 DEF Reads, ix
      <3>7. CASE ~HasKeyOption(After(rest, 1 + KeyLen))
        <4>1. unpack(input) = Rejected
          BY <2>1, <2>2, <2>4, <3>7, TokenTags DEF unpack
        <4>2. QED BY <1>9, <3>3, <3>5, <3>7, <4>1 DEF Reads, e
      <3>8. QED BY <3>6, <3>7
    <2>5. QED BY <2>3, <2>4
  <1>10. QED BY <1>7, <1>9 DEF Faithful, e, ix

TokenInstructions ==
  OpenInstructions \cup AuthorizedInstructions \cup MultisigInstructions

\* Every instruction of the token program is read back as it was packed, and
\* bytes of it that are cut off are rejected or suffice.
LEMMA TokenNeverMisread ==
  ASSUME NEW ix \in TokenInstructions
  PROVE  Faithful(ix)
  <1>1. CASE ix \in [op : {"InitializeMint"}, decimals : 0 .. 1, mint_authority : Keys,
                     freeze_authority : Keys \cup {<<>>}]
    BY <1>1, MintNeverMisread
  <1>2. CASE ix \in [op : {"InitializeAccount2"}, owner : Keys]
    BY <1>2, AccountNeverMisread
  <1>3. CASE ix \in [op : {"InitializeAccount"}]
    <2>1. "InitializeAccount" \in DOMAIN PlainTag
      BY TokenTags
    <2>2. ix = [op |-> "InitializeAccount"]
      BY <1>3
    <2>3. QED BY <2>1, <2>2, PlainNeverMisread
  <1>4. CASE ix \in [op : {"SetAuthority"}, authority_type : DOMAIN AuthorityIndex,
                     new_authority : Keys \cup {<<>>}]
    BY <1>4, SetAuthorityNeverMisread
  <1>5. CASE ix \in [op : DOMAIN AmountTag, amount : Amounts]
    BY <1>5, AmountNeverMisread
  <1>6. CASE ix \in [op : DOMAIN CheckedTag, amount : Amounts, decimals : 0 .. 1]
    BY <1>6, CheckedNeverMisread
  <1>7. CASE ix \in [op : DOMAIN PlainTag \ {"InitializeAccount"}]
    <2>1. PICK op \in DOMAIN PlainTag \ {"InitializeAccount"} : ix = [op |-> op]
      BY <1>7
    <2>2. QED BY <2>1, PlainNeverMisread
  <1>8. CASE ix \in MultisigInstructions
    BY <1>8, MultisigNeverMisread DEF MultisigInstructions
  <1>9. QED BY <1>1, <1>2, <1>3, <1>4, <1>5, <1>6, <1>7, <1>8
            DEF TokenInstructions, OpenInstructions, AuthorizedInstructions

-----------------------------------------------------------------------------
(***************************************************************************)
(* Messages.                                                               *)
(***************************************************************************)

Encoding(program, ix) == IF program = "pool" THEN serialize(ix) ELSE pack(ix)

Constructed(program, op, n) ==
  IF program = "pool" THEN PoolConstructor[op] ELSE TokenConstructor(n)[op]

Fields == {"program", "sent", "data", "accounts", "signers", "own"}

\* A message is an instruction in its own program's encoding, or in bytes that
\* agree with it, with the accounts of its constructor.
Genuine(m) ==
  /\ m = [x \in Fields |-> m[x]]
  /\ m.program \in {"pool", "token"}
  /\ m.program = "pool" => m.sent \in PoolInstructions
  /\ m.program = "token" => m.sent \in TokenInstructions
  /\ m.signers \in 0 .. MAX_SIGNERS
  /\ m.accounts = Constructed(m.program, m.sent.op, m.signers)
  /\ m.data \in Seq(Byte)
  /\ Agrees(m.data, Encoding(m.program, m.sent))
  /\ m.own => m.data = Encoding(m.program, m.sent)

MessageInv == message # NoMessage => Genuine(message)

\* Every encoding is a sequence of bytes.
LEMMA EncodingBytes ==
  ASSUME NEW program \in {"pool", "token"}, NEW ix,
         program = "pool" => ix \in PoolInstructions,
         program = "token" => ix \in TokenInstructions
  PROVE  Encoding(program, ix) \in Seq(Byte)
  <1>1. CASE program = "pool"
    BY <1>1, SerializeFacts DEF Encoding
  <1>2. CASE program = "token"
    BY <1>2, TokenNeverMisread DEF Encoding, Faithful
  <1>3. QED BY <1>1, <1>2

\* A constructor's message is genuine.
LEMMA MessageGenuine ==
  ASSUME NEW program \in {"pool", "token"}, NEW ix, NEW n \in 0 .. MAX_SIGNERS,
         program = "pool" => ix \in PoolInstructions,
         program = "token" => ix \in TokenInstructions
  PROVE  Genuine(Message(program, ix, Encoding(program, ix),
                         Constructed(program, ix.op, n), n))
  <1> DEFINE e == Encoding(program, ix)
             c == Constructed(program, ix.op, n)
             m == Message(program, ix, e, c, n)
  <1>1. e \in Seq(Byte) /\ Agrees(e, e)
    BY EncodingBytes DEF Agrees
  <1>2. /\ m.program = program /\ m.sent = ix /\ m.data = e /\ m.accounts = c
        /\ m.signers = n /\ m.own = TRUE
        /\ m = [x \in Fields |-> m[x]]
    <2> HIDE DEF e, c
    <2>1. QED BY DEF Message, Fields
  <1> HIDE DEF m
  <1>3. Genuine(m)
    BY <1>1, <1>2 DEF Genuine
  <1>4. QED BY <1>3 DEF m

\* Other bytes that agree with the encoding leave a message genuine.
LEMMA ReencodedGenuine ==
  ASSUME NEW m, Genuine(m), NEW d \in Seq(Byte),
         Agrees(d, Encoding(m.program, m.sent))
  PROVE  Genuine([m EXCEPT !.data = d, !.own = FALSE])
  <1> DEFINE m2 == [m EXCEPT !.data = d, !.own = FALSE]
  <1>1. /\ m2.program = m.program /\ m2.sent = m.sent /\ m2.data = d
        /\ m2.accounts = m.accounts /\ m2.signers = m.signers /\ m2.own = FALSE
        /\ m2 = [x \in Fields |-> m2[x]]
    <2>1. m = [x \in Fields |-> m[x]]
      BY DEF Genuine
    <2>2. m2 = [x \in Fields |-> m2[x]]
      BY <2>1 DEF Fields
    <2>3. DOMAIN m = Fields
      BY <2>1
    <2>4. QED BY <2>2, <2>3 DEF Fields
  <1> HIDE DEF m2
  <1>2. Genuine(m2)
    BY <1>1 DEF Genuine
  <1>3. QED BY <1>2 DEF m2

\* Fewer bytes of an encoding, or one more.
LEMMA OtherEncoder ==
  ASSUME NEW e \in Seq(Byte)
  PROVE  /\ \A k \in 0 .. Len(e) - 1 : First(e, k) \in Seq(Byte) /\ Agrees(First(e, k), e)
         /\ \A b \in Byte : Append(e, b) \in Seq(Byte) /\ Agrees(Append(e, b), e)
  <1>1. Len(e) \in Nat
    BY LenProperties
  <1>2. ASSUME NEW k \in 0 .. Len(e) - 1
        PROVE  First(e, k) \in Seq(Byte) /\ Agrees(First(e, k), e)
    <2>1. k \in Nat
      BY <1>1
    <2>2. QED BY <2>1, FirstFacts DEF Agrees
  <1>3. ASSUME NEW b \in Byte
        PROVE  Append(e, b) \in Seq(Byte) /\ Agrees(Append(e, b), e)
    <2> DEFINE a == Append(e, b)
    <2>1. /\ a \in Seq(Byte) /\ Len(a) = Len(e) + 1
          /\ \A i \in 1 .. Len(e) : a[i] = e[i]
      BY AppendProperties
    <2> HIDE DEF a
    <2>2. Agrees(a, e)
      BY <1>1, <2>1 DEF Agrees
    <2>3. QED BY <2>1, <2>2 DEF a
  <1>4. QED BY <1>2, <1>3

\* Every step keeps messages genuine.
LEMMA MessageStep ==
  ASSUME MessageInv, [Next]_vars
  PROVE  MessageInv'
  <1>1. CASE BuildPool
    <2>1. PICK ix \in PoolInstructions :
            message' = Message("pool", ix, serialize(ix), PoolConstructor[ix.op], 0)
      BY <1>1 DEF BuildPool
    <2>2. serialize(ix) = Encoding("pool", ix)
          /\ PoolConstructor[ix.op] = Constructed("pool", ix.op, 0)
      BY DEF Encoding, Constructed
    <2>3. 0 \in 0 .. MAX_SIGNERS
      BY CodecAssumption
    <2>4. Genuine(message')
      BY <2>1, <2>2, <2>3, MessageGenuine
    <2>5. QED BY <2>4 DEF MessageInv, Genuine
  <1>2. CASE BuildToken
    <2>1. PICK n \in 0 .. MAX_SIGNERS :
            \E ix \in OpenInstructions \cup AuthorizedInstructions :
              message' = Message("token", ix, pack(ix), TokenConstructor(n)[ix.op], n)
      BY <1>2 DEF BuildToken
    <2>2. PICK ix \in OpenInstructions \cup AuthorizedInstructions :
            message' = Message("token", ix, pack(ix), TokenConstructor(n)[ix.op], n)
      BY <2>1
    <2>3. ix \in TokenInstructions
      BY DEF TokenInstructions
    <2>4. pack(ix) = Encoding("token", ix)
          /\ TokenConstructor(n)[ix.op] = Constructed("token", ix.op, n)
      BY DEF Encoding, Constructed
    <2>5. Genuine(message')
      BY <2>2, <2>3, <2>4, MessageGenuine
    <2>6. QED BY <2>5 DEF MessageInv, Genuine
  <1>3. CASE BuildMultisig
    <2>1. PICK m \in 0 .. MAX_SIGNERS + 1, n \in 0 .. MAX_SIGNERS + 1 :
            /\ MultisigAllowed(m, n)
            /\ message' = Message("token", [op |-> "InitializeMultisig", m |-> m],
                                  pack([op |-> "InitializeMultisig", m |-> m]),
                                  initialize_multisig(n), n)
      BY <1>3 DEF BuildMultisig
    <2> DEFINE ix == [op |-> "InitializeMultisig", m |-> m]
    <2>2. m \in 1 .. MAX_SIGNERS /\ n \in 0 .. MAX_SIGNERS
      BY <2>1, CodecAssumption DEF MultisigAllowed, is_valid_signer_index
    <2>3. ix \in MultisigInstructions /\ ix \in TokenInstructions
      BY <2>2 DEF MultisigInstructions, TokenInstructions
    <2>4. ix.op = "InitializeMultisig"
      OBVIOUS
    <2>5. pack(ix) = Encoding("token", ix)
          /\ initialize_multisig(n) = Constructed("token", ix.op, n)
      BY <2>4 DEF Encoding, Constructed, TokenConstructor
    <2> HIDE DEF ix
    <2>6. message' = Message("token", ix, Encoding("token", ix),
                             Constructed("token", ix.op, n), n)
      BY <2>1, <2>5 DEF ix
    <2>7. Genuine(message')
      BY <2>2, <2>3, <2>6, MessageGenuine
    <2>8. QED BY <2>7 DEF MessageInv, Genuine
  <1>4. CASE Reencode
    <2> DEFINE m == message
               e == Encoding(m.program, m.sent)
    <2>1. Genuine(m) /\ m.own
      BY <1>4 DEF Reencode, MessageInv
    <2>2. e \in Seq(Byte) /\ m.data = e
      BY <2>1 DEF Genuine
    <2>3. PICK d : /\ d \in {First(e, k) : k \in 0 .. Len(e) - 1}
                            \cup {Append(e, b) : b \in {0, 1, Base - 1}}
                   /\ message' = [m EXCEPT !.data = d, !.own = FALSE]
      BY <1>4, <2>2 DEF Reencode
    <2>4. {0, 1, Base - 1} \subseteq Byte
      BY ValuesFit DEF Byte
    <2>5. d \in Seq(Byte) /\ Agrees(d, e)
      <3> HIDE DEF e
      <3>1. QED BY <2>2, <2>3, <2>4, OtherEncoder
    <2>6. Genuine(message')
      BY <2>1, <2>3, <2>5, ReencodedGenuine
    <2>7. QED BY <2>6 DEF MessageInv, Genuine
  <1>5. CASE ProcessPool
    BY <1>5 DEF ProcessPool, MessageInv
  <1>6. CASE ProcessToken
    BY <1>6 DEF ProcessToken, MessageInv
  <1>7. CASE UNCHANGED vars
    BY <1>7 DEF MessageInv, vars
  <1>8. QED BY <1>1, <1>2, <1>3, <1>4, <1>5, <1>6, <1>7 DEF Next

\* Genuine messages are not misread.
LEMMA GenuineRead ==
  ASSUME NEW m, Genuine(m)
  PROVE  \/ Decoded(m) = m.sent
         \/ ~m.own /\ Decoded(m) = Rejected
  <1> DEFINE e == Encoding(m.program, m.sent)
  <1>1. e \in Seq(Byte) /\ Len(e) \in Nat /\ m.data \in Seq(Byte)
    BY EncodingBytes, LenProperties DEF Genuine
  <1>2. \/ Decoded(m) = m.sent
        \/ Decoded(m) = Rejected /\ Len(m.data) < Len(e)
    <2>1. CASE m.program = "pool"
      <3>1. m.sent \in PoolInstructions /\ Agrees(m.data, serialize(m.sent))
        BY <2>1 DEF Genuine, Encoding
      <3>2. QED BY <1>1, <2>1, <3>1, PoolNeverMisread DEF Decoded, Encoding
    <2>2. CASE m.program = "token"
      <3>1. m.sent \in TokenInstructions /\ Agrees(m.data, pack(m.sent))
        BY <2>2 DEF Genuine, Encoding
      <3>2. Reads(m.sent, m.data)
        BY <1>1, <3>1, TokenNeverMisread DEF Faithful
      <3>3. QED BY <2>2, <3>2 DEF Decoded, Encoding, Reads
    <2>3. QED BY <2>1, <2>2 DEF Genuine
  <1>3. ASSUME m.own PROVE ~(Len(m.data) < Len(e))
    <2>1. m.data = e
      BY <1>3 DEF Genuine
    <2> HIDE DEF e
    <2>2. QED BY <1>1, <2>1
  <1>4. QED BY <1>2, <1>3

\* Both programs read back every instruction that the constructors of
\* instruction.rs build, for every width of bytes, words and keys; bytes that
\* are cut off or longer are that instruction or are rejected.
THEOREM InstructionsReadBack == Spec => []NeverMisread
  <1>1. Init => MessageInv
    BY DEF Init, MessageInv
  <1>2. MessageInv /\ [Next]_vars => MessageInv'
    BY MessageStep
  <1>3. MessageInv => NeverMisread
    BY GenuineRead DEF MessageInv, NeverMisread
  <1>4. QED BY <1>1, <1>2, <1>3, PTL DEF Spec

-----------------------------------------------------------------------------
(***************************************************************************)
(* Accounts.                                                               *)
(***************************************************************************)

\* The accounts of the token program's instructions.
Roles == {"source", "destination", "delegate", "owned", "mint", "account", "rent",
          "multisig", "owner", "authority", "signer"}

Meta == [role : Roles, writable : BOOLEAN, signer : BOOLEAN]

\* What AccountsInPlace asks of one account, and of all.
Serves(given, taken) ==
  /\ taken.role = given.role
  /\ taken.writable => given.writable
  /\ taken.signer => given.signer \/ given.role \in FeePayer

Placed(given, taken) ==
  /\ Len(taken) <= Len(given)
  /\ \A i \in DOMAIN taken : Serves(given[i], taken[i])

\* What a handler takes.
LEMMA TakesFacts ==
  ASSUME NEW n \in Nat, NEW roles, DOMAIN roles = 1 .. n, NEW written, NEW signed
  PROVE  LET t == Takes(roles, written, signed)
         IN /\ DOMAIN t = 1 .. n /\ Len(t) = n
            /\ \A i \in 1 .. n :
                 /\ t[i].role = roles[i] /\ t[i].writable = (roles[i] \in written)
                 /\ t[i].signer = (roles[i] \in signed)
            /\ (\A i \in 1 .. n : roles[i] \in Roles) => t \in Seq(Meta)
  <1> DEFINE t == Takes(roles, written, signed)
             V == {t[i] : i \in 1 .. n}
  <1>1. /\ DOMAIN t = 1 .. n
        /\ \A i \in 1 .. n :
             t[i] = [role |-> roles[i], writable |-> roles[i] \in written,
                     signer |-> roles[i] \in signed]
    BY DEF Takes
  <1>2. t \in [1 .. n -> V]
    BY DEF Takes
  <1>3. ASSUME \A i \in 1 .. n : roles[i] \in Roles PROVE t \in [1 .. n -> Meta]
    BY <1>3 DEF Takes, Meta
  <1> HIDE DEF t, V
  <1>4. Len(t) = n
    BY <1>2, SeqDef
  <1>5. (\A i \in 1 .. n : roles[i] \in Roles) => t \in Seq(Meta)
    BY <1>3, SeqDef
  <1>6. \A i \in 1 .. n :
          /\ t[i].role = roles[i] /\ t[i].writable = (roles[i] \in written)
          /\ t[i].signer = (roles[i] \in signed)
    BY <1>1
  <1>7. QED BY <1>1, <1>4, <1>5, <1>6 DEF t

\* The accounts of the constructors are in the handlers' order.
LEMMA TakenPlaced ==
  ASSUME NEW n \in Nat, NEW roles, DOMAIN roles = 1 .. n, NEW written, NEW signed,
         NEW given, Len(given) = n,
         \A i \in 1 .. n :
           /\ given[i].role = roles[i]
           /\ roles[i] \in written => given[i].writable
           /\ roles[i] \in signed => given[i].signer \/ roles[i] \in FeePayer
  PROVE  Placed(given, Takes(roles, written, signed))
  <1> DEFINE t == Takes(roles, written, signed)
  <1>1. /\ Len(t) = n /\ DOMAIN t = 1 .. n
        /\ \A i \in 1 .. n :
             /\ t[i].role = roles[i] /\ t[i].writable = (roles[i] \in written)
             /\ t[i].signer = (roles[i] \in signed)
    BY TakesFacts
  <1> HIDE DEF t
  <1>2. ASSUME NEW i \in 1 .. n PROVE Serves(given[i], t[i])
    BY <1>1 DEF Serves
  <1>3. Placed(given, t)
    BY <1>1, <1>2 DEF Placed
  <1>4. QED BY <1>3 DEF t

\* Each handler of the pool finds the accounts of its constructor.
LEMMA InitializePlaced == Placed(initialize, process_initialize)
  <1> DEFINE roles == <<"stake_pool", "owner", "list", "mint", "fee_account",
                        "clock", "rent", "token_program">>
             written == {"stake_pool", "list"}
             signed == {"owner"}
             given == initialize
  <1>1. DOMAIN roles = 1 .. 8 /\ Len(given) = 8
    BY DEF initialize
  <1>2. \A i \in 1 .. 8 :
           /\ given[i].role = roles[i]
           /\ roles[i] \in written => given[i].writable
           /\ roles[i] \in signed => given[i].signer \/ roles[i] \in FeePayer
    BY DEF initialize, R, Wr, S, WS, FeePayer
  <1> HIDE DEF roles, given, written, signed
  <1>3. Placed(given, Takes(roles, written, signed))
    BY <1>1, <1>2, TakenPlaced
  <1>4. QED BY <1>3 DEF roles, given, written, signed, process_initialize

\* The accounts of Create.
LEMMA CreatePlaced ==
  Placed(create_validator_stake_account, process_create_validator_stake_account)
  <1> DEFINE roles == <<"stake_pool", "funder", "stake", "validator", "staker",
                        "withdrawer", "rent", "system_program",
                        "stake_program">>
             written == {"funder", "stake"}
             signed == {"funder"}
             given == create_validator_stake_account
  <1>1. DOMAIN roles = 1 .. 9 /\ Len(given) = 9
    BY DEF create_validator_stake_account
  <1>2. \A i \in 1 .. 9 :
           /\ given[i].role = roles[i]
           /\ roles[i] \in written => given[i].writable
           /\ roles[i] \in signed => given[i].signer \/ roles[i] \in FeePayer
    BY DEF create_validator_stake_account, R, Wr, S, WS, FeePayer
  <1> HIDE DEF roles, given, written, signed
  <1>3. Placed(given, Takes(roles, written, signed))
    BY <1>1, <1>2, TakenPlaced
  <1>4. QED BY <1>3 DEF roles, given, written, signed, process_create_validator_stake_account

\* The accounts of Add.
LEMMA AddPlaced ==
  Placed(add_validator_stake_account, process_add_validator_stake_account)
  <1> DEFINE roles == <<"stake_pool", "owner", "deposit", "withdraw", "list",
                        "stake", "tokens", "mint", "clock", "stake_history",
                        "token_program", "stake_program">>
             written == {"stake_pool", "list", "stake", "tokens", "mint"}
             signed == {"owner"}
             given == add_validator_stake_account
  <1>1. DOMAIN roles = 1 .. 12 /\ Len(given) = 12
    BY DEF add_validator_stake_account
  <1>2. \A i \in 1 .. 12 :
           /\ given[i].role = roles[i]
           /\ roles[i] \in written => given[i].writable
           /\ roles[i] \in signed => given[i].signer \/ roles[i] \in FeePayer
    BY DEF add_validator_stake_account, R, Wr, S, WS, FeePayer
  <1> HIDE DEF roles, given, written, signed
  <1>3. Placed(given, Takes(roles, written, signed))
    BY <1>1, <1>2, TakenPlaced
  <1>4. QED BY <1>3 DEF roles, given, written, signed, process_add_validator_stake_account

\* The accounts of Remove.
LEMMA RemovePlaced ==
  Placed(remove_validator_stake_account, process_remove_validator_stake_account)
  <1> DEFINE roles == <<"stake_pool", "owner", "withdraw", "new_authority",
                        "list", "stake", "tokens", "mint", "clock",
                        "token_program", "stake_program">>
             written == {"stake_pool", "list", "stake", "tokens", "mint"}
             signed == {"owner"}
             given == remove_validator_stake_account
  <1>1. DOMAIN roles = 1 .. 11 /\ Len(given) = 11
    BY DEF remove_validator_stake_account
  <1>2. \A i \in 1 .. 11 :
           /\ given[i].role = roles[i]
           /\ roles[i] \in written => given[i].writable
           /\ roles[i] \in signed => given[i].signer \/ roles[i] \in FeePayer
    BY DEF remove_validator_stake_account, R, Wr, S, WS, FeePayer
  <1> HIDE DEF roles, given, written, signed
  <1>3. Placed(given, Takes(roles, written, signed))
    BY <1>1, <1>2, TakenPlaced
  <1>4. QED BY <1>3 DEF roles, given, written, signed, process_remove_validator_stake_account

\* The accounts of UpdateList.
LEMMA UpdateListPlaced ==
  Placed(update_list_balance, process_update_list_balance)
  <1> DEFINE roles == <<"list", "clock", "validator">>
             written == {"list"}
             signed == {}
             given == update_list_balance
  <1>1. DOMAIN roles = 1 .. 3 /\ Len(given) = 3
    BY DEF update_list_balance
  <1>2. \A i \in 1 .. 3 :
           /\ given[i].role = roles[i]
           /\ roles[i] \in written => given[i].writable
           /\ roles[i] \in signed => given[i].signer \/ roles[i] \in FeePayer
    BY DEF update_list_balance, R, Wr, S, WS, FeePayer
  <1> HIDE DEF roles, given, written, signed
  <1>3. Placed(given, Takes(roles, written, signed))
    BY <1>1, <1>2, TakenPlaced
  <1>4. QED BY <1>3 DEF roles, given, written, signed, process_update_list_balance

\* The accounts of UpdatePool.
LEMMA UpdatePoolPlaced ==
  Placed(update_pool_balance, process_update_pool_balance)
  <1> DEFINE roles == <<"stake_pool", "list", "clock">>
             written == {"stake_pool"}
             signed == {}
             given == update_pool_balance
  <1>1. DOMAIN roles = 1 .. 3 /\ Len(given) = 3
    BY DEF update_pool_balance
  <1>2. \A i \in 1 .. 3 :
           /\ given[i].role = roles[i]
           /\ roles[i] \in written => given[i].writable
           /\ roles[i] \in signed => given[i].signer \/ roles[i] \in FeePayer
    BY DEF update_pool_balance, R, Wr, S, WS, FeePayer
  <1> HIDE DEF roles, given, written, signed
  <1>3. Placed(given, Takes(roles, written, signed))
    BY <1>1, <1>2, TakenPlaced
  <1>4. QED BY <1>3 DEF roles, given, written, signed, process_update_pool_balance

\* The accounts of Deposit.
LEMMA DepositPlaced == Placed(deposit, process_deposit)
  <1> DEFINE roles == <<"stake_pool", "list", "deposit", "withdraw",
                        "stake_to_join", "stake", "tokens", "fee_account",
                        "mint", "clock", "stake_history", "token_program",
                        "stake_program">>
             written == {"stake_pool", "list", "stake_to_join", "stake", "tokens", "mint"}
             signed == {}
             given == deposit
  <1>1. DOMAIN roles = 1 .. 13 /\ Len(given) = 13
    BY DEF deposit
  <1>2. \A i \in 1 .. 13 :
           /\ given[i].role = roles[i]
           /\ roles[i] \in written => given[i].writable
           /\ roles[i] \in signed => given[i].signer \/ roles[i] \in FeePayer
    BY DEF deposit, R, Wr, S, WS, FeePayer
  <1> HIDE DEF roles, given, written, signed
  <1>3. Placed(given, Takes(roles, written, signed))
    BY <1>1, <1>2, TakenPlaced
  <1>4. QED BY <1>3 DEF roles, given, written, signed, process_deposit

\* The accounts of Withdraw.
LEMMA WithdrawPlaced == Placed(withdraw, process_withdraw)
  <1> DEFINE roles == <<"stake_pool", "list", "withdraw", "stake",
                        "stake_to_receive", "user", "tokens", "mint", "clock",
                        "token_program", "stake_program">>
             written == {"stake_pool", "list", "stake", "stake_to_receive", "tokens", "mint"}
             signed == {}
             given == withdraw
  <1>1. DOMAIN roles = 1 .. 11 /\ Len(given) = 11
    BY DEF withdraw
  <1>2. \A i \in 1 .. 11 :
           /\ given[i].role = roles[i]
           /\ roles[i] \in written => given[i].writable
           /\ roles[i] \in signed => given[i].signer \/ roles[i] \in FeePayer
    BY DEF withdraw, R, Wr, S, WS, FeePayer
  <1> HIDE DEF roles, given, written, signed
  <1>3. Placed(given, Takes(roles, written, signed))
    BY <1>1, <1>2, TakenPlaced
  <1>4. QED BY <1>3 DEF roles, given, written, signed, process_withdraw

\* The accounts of SetStaking.
LEMMA SetStakingPlaced ==
  Placed(set_staking_authority, process_set_staking_auth)
  <1> DEFINE roles == <<"stake_pool", "owner", "withdraw", "stake", "staker",
                        "clock", "stake_program">>
             written == {"stake"}
             signed == {"owner"}
             given == set_staking_authority
  <1>1. DOMAIN roles = 1 .. 7 /\ Len(given) = 7
    BY DEF set_staking_authority
  <1>2. \A i \in 1 .. 7 :
           /\ given[i].role = roles[i]
           /\ roles[i] \in written => given[i].writable
           /\ roles[i] \in signed => given[i].signer \/ roles[i] \in FeePayer
    BY DEF set_staking_authority, R, Wr, S, WS, FeePayer
  <1> HIDE DEF roles, given, written, signed
  <1>3. Placed(given, Takes(roles, written, signed))
    BY <1>1, <1>2, TakenPlaced
  <1>4. QED BY <1>3 DEF roles, given, written, signed, process_set_staking_auth

\* The accounts of SetOwner.
LEMMA SetOwnerPlaced == Placed(set_owner, process_set_owner)
  <1> DEFINE roles == <<"stake_pool", "owner", "new_owner", "fee_account">>
             written == {"stake_pool"}
             signed == {"owner"}
             given == set_owner
  <1>1. DOMAIN roles = 1 .. 4 /\ Len(given) = 4
    BY DEF set_owner
  <1>2. \A i \in 1 .. 4 :
           /\ given[i].role = roles[i]
           /\ roles[i] \in written => given[i].writable
           /\ roles[i] \in signed => given[i].signer \/ roles[i] \in FeePayer
    BY DEF set_owner, R, Wr, S, WS, FeePayer
  <1> HIDE DEF roles, given, written, signed
  <1>3. Placed(given, Takes(roles, written, signed))
    BY <1>1, <1>2, TakenPlaced
  <1>4. QED BY <1>3 DEF roles, given, written, signed, process_set_owner

\* The accounts of AddLiquidity.
LEMMA AddLiquidityPlaced ==
  Placed(instruction_add_liquidity, process_add_liquidity)
  <1> DEFINE roles == <<"liq_pool", "token_program", "metalp_mint",
                        "metalp_authority", "user_wsol", "user_authority",
                        "liq_wsol", "user_metalp">>
             written == {"metalp_mint", "user_wsol", "liq_wsol", "user_metalp"}
             signed == {"user_authority"}
             given == instruction_add_liquidity
  <1>1. DOMAIN roles = 1 .. 8 /\ Len(given) = 8
    BY DEF instruction_add_liquidity
  <1>2. \A i \in 1 .. 8 :
           /\ given[i].role = roles[i]
           /\ roles[i] \in written => given[i].writable
           /\ roles[i] \in signed => given[i].signer \/ roles[i] \in FeePayer
    BY DEF instruction_add_liquidity, R, Wr, S, WS, FeePayer
  <1> HIDE DEF roles, given, written, signed
  <1>3. Placed(given, Takes(roles, written, signed))
    BY <1>1, <1>2, TakenPlaced
  <1>4. QED BY <1>3 DEF roles, given, written, signed, process_add_liquidity

\* The accounts of Sell.
LEMMA SellPlaced == Placed(instruction_sell_stsol, process_sell_stsol)
  <1> DEFINE roles == <<"stake_pool", "liq_pool", "token_program", "liq_wsol",
                        "liq_stsol", "liq_authority", "user_wsol",
                        "user_stsol", "user_authority">>
             written == {"liq_wsol", "liq_stsol", "user_wsol", "user_stsol"}
             signed == {"user_authority"}
             given == instruction_sell_stsol
  <1>1. DOMAIN roles = 1 .. 9 /\ Len(given) = 9
    BY DEF instruction_sell_stsol
  <1>2. \A i \in 1 .. 9 :
           /\ given[i].role = roles[i]
           /\ roles[i] \in written => given[i].writable
           /\ roles[i] \in signed => given[i].signer \/ roles[i] \in FeePayer
    BY DEF instruction_sell_stsol, R, Wr, S, WS, FeePayer
  <1> HIDE DEF roles, given, written, signed
  <1>3. Placed(given, Takes(roles, written, signed))
    BY <1>1, <1>2, TakenPlaced
  <1>4. QED BY <1>3 DEF roles, given, written, signed, process_sell_stsol

\* All handlers of the pool do.
LEMMA PoolPlaced ==
  ASSUME NEW op \in DOMAIN PoolTag
  PROVE  Placed(PoolConstructor[op], PoolHandler[op])
  <1>1. op \in {"Initialize", "CreateValidatorStakeAccount", "AddValidatorStakeAccount",
               "RemoveValidatorStakeAccount", "UpdateListBalance", "UpdatePoolBalance",
               "Deposit", "Withdraw", "SetStakingAuthority", "SetOwner", "AddLiquidity",
               "SellstSOL"}
    BY DEF PoolTag
  <1>2. QED BY <1>1, InitializePlaced, CreatePlaced, AddPlaced, RemovePlaced,
               UpdateListPlaced, UpdatePoolPlaced, DepositPlaced, WithdrawPlaced,
               SetStakingPlaced, SetOwnerPlaced, AddLiquidityPlaced, SellPlaced
            DEF PoolConstructor, PoolHandler

\* The sequence of both.
LEMMA MetaConcat ==
  ASSUME NEW s \in Seq(Meta), NEW t \in Seq(Meta)
  PROVE  /\ s \o t \in Seq(Meta) /\ Len(s \o t) = Len(s) + Len(t)
         /\ Len(s) \in Nat /\ Len(t) \in Nat
         /\ \A i \in 1 .. Len(s) : (s \o t)[i] = s[i]
         /\ \A i \in 1 .. Len(t) : (s \o t)[Len(s) + i] = t[i]
  <1>1. Len(s) \in Nat /\ Len(t) \in Nat
    BY LenProperties
  <1>2. /\ s \o t \in Seq(Meta) /\ Len(s \o t) = Len(s) + Len(t)
        /\ \A i \in 1 .. Len(s) + Len(t) : (s \o t)[i] =
             IF i <= Len(s) THEN s[i] ELSE t[i - Len(s)]
    BY ConcatProperties
  <1>3. ASSUME NEW i \in 1 .. Len(s) PROVE (s \o t)[i] = s[i]
    <2>1. i \in 1 .. Len(s) + Len(t) /\ i <= Len(s)
      BY <1>1
    <2>2. QED BY <1>2, <2>1
  <1>4. ASSUME NEW i \in 1 .. Len(t) PROVE (s \o t)[Len(s) + i] = t[i]
    <2>1. /\ Len(s) + i \in 1 .. Len(s) + Len(t) /\ ~(Len(s) + i <= Len(s))
          /\ (Len(s) + i) - Len(s) = i
      BY <1>1
    <2>2. QED BY <1>2, <2>1
  <1>5. QED BY <1>1, <1>2, <1>3, <1>4

\* Two lists of accounts after each other.
LEMMA PlacedConcat ==
  ASSUME NEW g1 \in Seq(Meta), NEW t1 \in Seq(Meta), Len(g1) = Len(t1),
         NEW g2 \in Seq(Meta), NEW t2 \in Seq(Meta),
         Placed(g1, t1), Placed(g2, t2)
  PROVE  Placed(g1 \o g2, t1 \o t2)
  <1> DEFINE g == g1 \o g2
             t == t1 \o t2
  <1>1. /\ g \in Seq(Meta) /\ Len(g) = Len(g1) + Len(g2)
        /\ Len(g1) \in Nat /\ Len(g2) \in Nat
        /\ \A i \in 1 .. Len(g1) : g[i] = g1[i]
        /\ \A i \in 1 .. Len(g2) : g[Len(g1) + i] = g2[i]
    BY MetaConcat
  <1>2. /\ t \in Seq(Meta) /\ Len(t) = Len(t1) + Len(t2)
        /\ Len(t1) \in Nat /\ Len(t2) \in Nat
        /\ \A i \in 1 .. Len(t1) : t[i] = t1[i]
        /\ \A i \in 1 .. Len(t2) : t[Len(t1) + i] = t2[i]
    BY MetaConcat
  <1>3. DOMAIN t1 = 1 .. Len(t1) /\ DOMAIN t2 = 1 .. Len(t2)
    BY LenProperties
  <1> HIDE DEF g, t
  <1>4. DOMAIN t = 1 .. Len(t1) + Len(t2)
    BY <1>2, LenProperties
  <1>5. Len(t) <= Len(g)
    BY <1>1, <1>2 DEF Placed
  <1>6. ASSUME NEW i \in DOMAIN t PROVE Serves(g[i], t[i])
    <2>1. CASE i <= Len(t1)
      <3>1. i \in 1 .. Len(t1) /\ i \in 1 .. Len(g1)
        BY <1>1, <1>2, <1>4, <2>1
      <3>2. Serves(g1[i], t1[i])
        BY <1>3, <3>1 DEF Placed
      <3>3. QED BY <1>1, <1>2, <3>1, <3>2
    <2>2. CASE ~(i <= Len(t1))
      <3> DEFINE j == i - Len(t1)
      <3>1. j \in 1 .. Len(t2) /\ i = Len(t1) + j
        BY <1>2, <1>4, <2>2
      <3> HIDE DEF j
      <3>2. Serves(g2[j], t2[j])
        BY <1>3, <3>1 DEF Placed
      <3>3. Len(t2) <= Len(g2)
        BY DEF Placed
      <3>4. j \in 1 .. Len(g2)
        BY <1>1, <1>2, <3>1, <3>3
      <3>5. g[i] = g2[j] /\ t[i] = t2[j]
        BY <1>1, <1>2, <3>1, <3>4
      <3>6. QED BY <3>2, <3>5
    <2>3. QED BY <2>1, <2>2
  <1>7. Placed(g, t)
    BY <1>5, <1>6 DEF Placed
  <1>8. QED BY <1>7 DEF g, t

\* n signers.
LEMMA SignersFacts ==
  ASSUME NEW n \in Nat
  PROVE  /\ Signers(n) \in Seq(Meta) /\ Len(Signers(n)) = n
         /\ \A i \in 1 .. n : Signers(n)[i] = S("signer")
  <1>1. S("signer") \in Meta
    BY DEF S, Meta, Roles
  <1> DEFINE s == Signers(n)
  <1>2. s \in [1 .. n -> Meta] /\ \A i \in 1 .. n : s[i] = S("signer")
    BY <1>1 DEF Signers
  <1> HIDE DEF s
  <1>3. s \in Seq(Meta) /\ Len(s) = n
    BY <1>2, SeqDef
  <1>4. QED BY <1>2, <1>3 DEF s

\* The authority and its signers, as validate_owner takes them.
LEMMA AuthorityFacts ==
  ASSUME NEW n \in Nat
  PROVE  /\ Authority(n) \in Seq(Meta) /\ Len(Authority(n)) = 1 + n
         /\ \A i \in 1 .. n : Authority(n)[1 + i] = S("signer")
         /\ validate_owner(n) \in Seq(Meta) /\ Len(validate_owner(n)) = 1 + n
         /\ Placed(Authority(n), validate_owner(n))
  <1> DEFINE first == [role |-> "authority", writable |-> FALSE, signer |-> n = 0]
             s == Signers(n)
             a == <<first>>
             x == Authority(n)
  <1>1. first \in Meta
    BY DEF Meta, Roles
  <1>2. first.role = "authority" /\ first.writable = FALSE /\ first.signer = (n = 0)
    OBVIOUS
  <1>3. x = a \o s
    BY DEF Authority
  <1>4. s \in Seq(Meta) /\ Len(s) = n /\ \A i \in 1 .. n : s[i] = S("signer")
    BY SignersFacts
  <1> HIDE DEF first, s, x
  <1>5. a \in Seq(Meta) /\ Len(a) = 1 /\ a[1] = first
    BY <1>1
  <1> HIDE DEF a
  <1>6. /\ x \in Seq(Meta) /\ Len(x) = 1 + n /\ x[1] = first
        /\ \A i \in 1 .. n : x[1 + i] = S("signer")
    <2>1. /\ a \o s \in Seq(Meta) /\ Len(a \o s) = Len(a) + Len(s)
          /\ \A i \in 1 .. Len(a) : (a \o s)[i] = a[i]
          /\ \A i \in 1 .. Len(s) : (a \o s)[Len(a) + i] = s[i]
      BY <1>4, <1>5, MetaConcat
    <2>2. 1 \in 1 .. Len(a)
      BY <1>5
    <2>3. QED BY <1>3, <1>4, <1>5, <2>1, <2>2
  <1> DEFINE v == validate_owner(n)
  <1>7. CASE n = 0
    <2> DEFINE w == S("authority")
    <2>1. v = <<w>>
      BY <1>7 DEF validate_owner
    <2>2. w \in Meta /\ w.role = "authority" /\ w.writable = FALSE /\ w.signer = TRUE
      BY DEF S, Meta, Roles
    <2> HIDE DEF v, w
    <2>3. v \in Seq(Meta) /\ Len(v) = 1 /\ v[1] = w /\ DOMAIN v = {1}
      BY <2>1, <2>2
    <2>4. Serves(x[1], v[1])
      BY <1>2, <1>6, <1>7, <2>2, <2>3 DEF Serves
    <2>5. Placed(x, v)
      BY <1>6, <1>7, <2>3, <2>4 DEF Placed
    <2>6. QED BY <1>6, <1>7, <2>3, <2>5 DEF x, v
  <1>8. CASE n # 0
    <2> DEFINE w == R("authority")
               b == <<w>>
    <2>1. v = b \o s
      BY <1>8 DEF validate_owner, s
    <2>2. w \in Meta /\ w.role = "authority" /\ w.writable = FALSE /\ w.signer = FALSE
      BY DEF R, Meta, Roles
    <2> HIDE DEF v, w
    <2>3. b \in Seq(Meta) /\ Len(b) = 1 /\ b[1] = w /\ DOMAIN b = {1}
      BY <2>2
    <2> HIDE DEF b
    <2>4. Serves(a[1], b[1])
      BY <1>2, <1>5, <2>2, <2>3 DEF Serves
    <2>5. Placed(a, b)
      BY <1>5, <2>3, <2>4 DEF Placed
    <2>6. Placed(s, s)
      BY <1>4 DEF Placed, Serves
    <2>7. Placed(a \o s, b \o s)
      BY <1>4, <1>5, <2>3, <2>5, <2>6, PlacedConcat
    <2>8. b \o s \in Seq(Meta) /\ Len(b \o s) = Len(b) + Len(s)
      BY <1>4, <2>3, MetaConcat
    <2>9. v \in Seq(Meta) /\ Len(v) = 1 + n /\ Placed(x, v)
      BY <1>3, <1>4, <2>1, <2>3, <2>7, <2>8
    <2>10. QED BY <1>6, <2>9 DEF x, v
  <1>9. QED BY <1>7, <1>8

\* A handler that takes some accounts and then validates the owner.
LEMMA AuthorizedPlaced ==
  ASSUME NEW n \in Nat, NEW k \in Nat, NEW roles, DOMAIN roles = 1 .. k,
         \A i \in 1 .. k : roles[i] \in Roles,
         NEW written, NEW pre \in Seq(Meta), Len(pre) = k,
         \A i \in 1 .. k :
           pre[i].role = roles[i] /\ (roles[i] \in written => pre[i].writable)
  PROVE  Placed(pre \o Authority(n),
                Takes(roles, written, {}) \o validate_owner(n))
  <1> DEFINE t == Takes(roles, written, {})
  <1>1. t \in Seq(Meta) /\ Len(t) = k
    BY TakesFacts
  <1>2. Placed(pre, t)
    <2>1. \A i \in 1 .. k :
            /\ pre[i].role = roles[i]
            /\ roles[i] \in written => pre[i].writable
            /\ roles[i] \in {} => pre[i].signer \/ roles[i] \in FeePayer
      OBVIOUS
    <2>2. QED BY <2>1, TakenPlaced
  <1> HIDE DEF t
  <1>3. Placed(pre \o Authority(n), t \o validate_owner(n))
    BY <1>1, <1>2, AuthorityFacts, PlacedConcat
  <1>4. QED BY <1>3 DEF t

\* Each such handler finds the accounts of its constructor.
LEMMA TransferPlaced ==
  ASSUME NEW n \in Nat
  PROVE  Placed(transfer(n),
                process_transfer(FALSE, n))
  <1> DEFINE roles == <<"source", "destination">>
             written == {"source", "destination"}
             pre == <<Wr("source"), Wr("destination")>>
  <1>1. DOMAIN roles = 1 .. 2 /\ Len(pre) = 2 /\ pre \in Seq(Meta)
    BY DEF Wr, Meta, Roles
  <1>2. /\ \A i \in 1 .. 2 : roles[i] \in Roles
        /\ \A i \in 1 .. 2 :
             pre[i].role = roles[i] /\ (roles[i] \in written => pre[i].writable)
    BY DEF Wr, Roles
  <1>3. /\ transfer(n) = pre \o Authority(n)
        /\ process_transfer(FALSE, n) =
             Takes(roles, written, {}) \o validate_owner(n)
    BY DEF transfer, process_transfer
  <1> HIDE DEF roles, written, pre
  <1>4. Placed(pre \o Authority(n),
               Takes(roles, written, {}) \o validate_owner(n))
    BY <1>1, <1>2, AuthorizedPlaced
  <1>5. QED BY <1>3, <1>4

\* The accounts of TransferChecked.
LEMMA TransferCheckedPlaced ==
  ASSUME NEW n \in Nat
  PROVE  Placed(transfer_checked(n),
                process_transfer(TRUE, n))
  <1> DEFINE roles == <<"source", "mint", "destination">>
             written == {"source", "destination"}
             pre == <<Wr("source"), R("mint"), Wr("destination")>>
  <1>1. DOMAIN roles = 1 .. 3 /\ Len(pre) = 3 /\ pre \in Seq(Meta)
    BY DEF R, Wr, Meta, Roles
  <1>2. /\ \A i \in 1 .. 3 : roles[i] \in Roles
        /\ \A i \in 1 .. 3 :
             pre[i].role = roles[i] /\ (roles[i] \in written => pre[i].writable)
    BY DEF R, Wr, Roles
  <1>3. /\ transfer_checked(n) = pre \o Authority(n)
        /\ process_transfer(TRUE, n) =
             Takes(roles, written, {}) \o validate_owner(n)
    BY DEF transfer_checked, process_transfer
  <1> HIDE DEF roles, written, pre
  <1>4. Placed(pre \o Authority(n),
               Takes(roles, written, {}) \o validate_owner(n))
    BY <1>1, <1>2, AuthorizedPlaced
  <1>5. QED BY <1>3, <1>4

\* The accounts of Approve.
LEMMA ApprovePlaced ==
  ASSUME NEW n \in Nat
  PROVE  Placed(approve(n),
                process_approve(FALSE, n))
  <1> DEFINE roles == <<"source", "delegate">>
             written == {"source"}
             pre == <<Wr("source"), R("delegate")>>
  <1>1. DOMAIN roles = 1 .. 2 /\ Len(pre) = 2 /\ pre \in Seq(Meta)
    BY DEF R, Wr, Meta, Roles
  <1>2. /\ \A i \in 1 .. 2 : roles[i] \in Roles
        /\ \A i \in 1 .. 2 :
             pre[i].role = roles[i] /\ (roles[i] \in written => pre[i].writable)
    BY DEF R, Wr, Roles
  <1>3. /\ approve(n) = pre \o Authority(n)
        /\ process_approve(FALSE, n) =
             Takes(roles, written, {}) \o validate_owner(n)
    BY DEF approve, process_approve
  <1> HIDE DEF roles, written, pre
  <1>4. Placed(pre \o Authority(n),
               Takes(roles, written, {}) \o validate_owner(n))
    BY <1>1, <1>2, AuthorizedPlaced
  <1>5. QED BY <1>3, <1>4

\* The accounts of ApproveChecked.
LEMMA ApproveCheckedPlaced ==
  ASSUME NEW n \in Nat
  PROVE  Placed(approve_checked(n),
                process_approve(TRUE, n))
  <1> DEFINE roles == <<"source", "mint", "delegate">>
             written == {"source"}
             pre == <<Wr("source"), R("mint"), R("delegate")>>
  <1>1. DOMAIN roles = 1 .. 3 /\ Len(pre) = 3 /\ pre \in Seq(Meta)
    BY DEF R, Wr, Meta, Roles
  <1>2. /\ \A i \in 1 .. 3 : roles[i] \in Roles
        /\ \A i \in 1 .. 3 :
             pre[i].role = roles[i] /\ (roles[i] \in written => pre[i].writable)
    BY DEF R, Wr, Roles
  <1>3. /\ approve_checked(n) = pre \o Authority(n)
        /\ process_approve(TRUE, n) =
             Takes(roles, written, {}) \o validate_owner(n)
    BY DEF approve_checked, process_approve
  <1> HIDE DEF roles, written, pre
  <1>4. Placed(pre \o Authority(n),
               Takes(roles, written, {}) \o validate_owner(n))
    BY <1>1, <1>2, AuthorizedPlaced
  <1>5. QED BY <1>3, <1>4

\* The accounts of MintTo.
LEMMA MintToPlaced ==
  ASSUME NEW n \in Nat
  PROVE  Placed(mint_to(n),
                process_mint_to(n))
  <1> DEFINE roles == <<"mint", "account">>
             written == {"mint", "account"}
             pre == <<Wr("mint"), Wr("account")>>
  <1>1. DOMAIN roles = 1 .. 2 /\ Len(pre) = 2 /\ pre \in Seq(Meta)
    BY DEF Wr, Meta, Roles
  <1>2. /\ \A i \in 1 .. 2 : roles[i] \in Roles
        /\ \A i \in 1 .. 2 :
             pre[i].role = roles[i] /\ (roles[i] \in written => pre[i].writable)
    BY DEF Wr, Roles
  <1>3. /\ mint_to(n) = pre \o Authority(n)
        /\ process_mint_to(n) =
             Takes(roles, written, {}) \o validate_owner(n)
    BY DEF mint_to, process_mint_to
  <1> HIDE DEF roles, written, pre
  <1>4. Placed(pre \o Authority(n),
               Takes(roles, written, {}) \o validate_owner(n))
    BY <1>1, <1>2, AuthorizedPlaced
  <1>5. QED BY <1>3, <1>4

\* The accounts of MintToChecked.
LEMMA MintToCheckedPlaced ==
  ASSUME NEW n \in Nat
  PROVE  Placed(mint_to_checked(n),
                process_mint_to(n))
  <1> DEFINE roles == <<"mint", "account">>
             written == {"mint", "account"}
             pre == <<Wr("mint"), Wr("account")>>
  <1>1. DOMAIN roles = 1 .. 2 /\ Len(pre) = 2 /\ pre \in Seq(Meta)
    BY DEF Wr, Meta, Roles
  <1>2. /\ \A i \in 1 .. 2 : roles[i] \in Roles
        /\ \A i \in 1 .. 2 :
             pre[i].role = roles[i] /\ (roles[i] \in written => pre[i].writable)
    BY DEF Wr, Roles
  <1>3. /\ mint_to_checked(n) = pre \o Authority(n)
        /\ process_mint_to(n) =
             Takes(roles, written, {}) \o validate_owner(n)
    BY DEF mint_to_checked, process_mint_to
  <1> HIDE DEF roles, written, pre
  <1>4. Placed(pre \o Authority(n),
               Takes(roles, written, {}) \o validate_owner(n))
    BY <1>1, <1>2, AuthorizedPlaced
  <1>5. QED BY <1>3, <1>4

\* The accounts of Burn.
LEMMA BurnPlaced ==
  ASSUME NEW n \in Nat
  PROVE  Placed(burn(n),
                process_burn(n))
  <1> DEFINE roles == <<"account", "mint">>
             written == {"mint", "account"}
             pre == <<Wr("account"), Wr("mint")>>
  <1>1. DOMAIN roles = 1 .. 2 /\ Len(pre) = 2 /\ pre \in Seq(Meta)
    BY DEF Wr, Meta, Roles
  <1>2. /\ \A i \in 1 .. 2 : roles[i] \in Roles
        /\ \A i \in 1 .. 2 :
             pre[i].role = roles[i] /\ (roles[i] \in written => pre[i].writable)
    BY DEF Wr, Roles
  <1>3. /\ burn(n) = pre \o Authority(n)
        /\ process_burn(n) =
             Takes(roles, written, {}) \o validate_owner(n)
    BY DEF burn, process_burn
  <1> HIDE DEF roles, written, pre
  <1>4. Placed(pre \o Authority(n),
               Takes(roles, written, {}) \o validate_owner(n))
    BY <1>1, <1>2, AuthorizedPlaced
  <1>5. QED BY <1>3, <1>4

\* The accounts of BurnChecked.
LEMMA BurnCheckedPlaced ==
  ASSUME NEW n \in Nat
  PROVE  Placed(burn_checked(n),
                process_burn(n))
  <1> DEFINE roles == <<"account", "mint">>
             written == {"mint", "account"}
             pre == <<Wr("account"), Wr("mint")>>
  <1>1. DOMAIN roles = 1 .. 2 /\ Len(pre) = 2 /\ pre \in Seq(Meta)
    BY DEF Wr, Meta, Roles
  <1>2. /\ \A i \in 1 .. 2 : roles[i] \in Roles
        /\ \A i \in 1 .. 2 :
             pre[i].role = roles[i] /\ (roles[i] \in written => pre[i].writable)
    BY DEF Wr, Roles
  <1>3. /\ burn_checked(n) = pre \o Authority(n)
        /\ process_burn(n) =
             Takes(roles, written, {}) \o validate_owner(n)
    BY DEF burn_checked, process_burn
  <1> HIDE DEF roles, written, pre
  <1>4. Placed(pre \o Authority(n),
               Takes(roles, written, {}) \o validate_owner(n))
    BY <1>1, <1>2, AuthorizedPlaced
  <1>5. QED BY <1>3, <1>4

\* The accounts of Freeze.
LEMMA FreezePlaced ==
  ASSUME NEW n \in Nat
  PROVE  Placed(freeze_account(n),
                process_toggle_freeze_account(n))
  <1> DEFINE roles == <<"account", "mint">>
             written == {"account"}
             pre == <<Wr("account"), R("mint")>>
  <1>1. DOMAIN roles = 1 .. 2 /\ Len(pre) = 2 /\ pre \in Seq(Meta)
    BY DEF R, Wr, Meta, Roles
  <1>2. /\ \A i \in 1 .. 2 : roles[i] \in Roles
        /\ \A i \in 1 .. 2 :
             pre[i].role = roles[i] /\ (roles[i] \in written => pre[i].writable)
    BY DEF R, Wr, Roles
  <1>3. /\ freeze_account(n) = pre \o Authority(n)
        /\ process_toggle_freeze_account(n) =
             Takes(roles, written, {}) \o validate_owner(n)
    BY DEF freeze_account, process_toggle_freeze_account
  <1> HIDE DEF roles, written, pre
  <1>4. Placed(pre \o Authority(n),
               Takes(roles, written, {}) \o validate_owner(n))
    BY <1>1, <1>2, AuthorizedPlaced
  <1>5. QED BY <1>3, <1>4

\* The accounts of Thaw.
LEMMA ThawPlaced ==
  ASSUME NEW n \in Nat
  PROVE  Placed(thaw_account(n),
                process_toggle_freeze_account(n))
  <1> DEFINE roles == <<"account", "mint">>
             written == {"account"}
             pre == <<Wr("account"), R("mint")>>
  <1>1. DOMAIN roles = 1 .. 2 /\ Len(pre) = 2 /\ pre \in Seq(Meta)
    BY DEF R, Wr, Meta, Roles
  <1>2. /\ \A i \in 1 .. 2 : roles[i] \in Roles
        /\ \A i \in 1 .. 2 :
             pre[i].role = roles[i] /\ (roles[i] \in written => pre[i].writable)
    BY DEF R, Wr, Roles
  <1>3. /\ thaw_account(n) = pre \o Authority(n)
        /\ process_toggle_freeze_account(n) =
             Takes(roles, written, {}) \o validate_owner(n)
    BY DEF thaw_account, process_toggle_freeze_account
  <1> HIDE DEF roles, written, pre
  <1>4. Placed(pre \o Authority(n),
               Takes(roles, written, {}) \o validate_owner(n))
    BY <1>1, <1>2, AuthorizedPlaced
  <1>5. QED BY <1>3, <1>4

\* The accounts of Revoke.
LEMMA RevokePlaced ==
  ASSUME NEW n \in Nat
  PROVE  Placed(revoke(n),
                Takes(<<"source">>, {"source"}, {}) \o validate_owner(n))
  <1> DEFINE roles == <<"source">>
             written == {"source"}
             pre == <<Wr("source")>>
  <1>1. DOMAIN roles = 1 .. 1 /\ Len(pre) = 1 /\ pre \in Seq(Meta)
    BY DEF Wr, Meta, Roles
  <1>2. /\ \A i \in 1 .. 1 : roles[i] \in Roles
        /\ \A i \in 1 .. 1 :
             pre[i].role = roles[i] /\ (roles[i] \in written => pre[i].writable)
    BY DEF Wr, Roles
  <1>3. /\ revoke(n) = pre \o Authority(n)
        /\ Takes(<<"source">>, {"source"}, {}) \o validate_owner(n) =
             Takes(roles, written, {}) \o validate_owner(n)
    BY DEF revoke
  <1> HIDE DEF roles, written, pre
  <1>4. Placed(pre \o Authority(n),
               Takes(roles, written, {}) \o validate_owner(n))
    BY <1>1, <1>2, AuthorizedPlaced
  <1>5. QED BY <1>3, <1>4

\* The accounts of SetAuthority.
LEMMA SetAuthorityPlaced ==
  ASSUME NEW n \in Nat
  PROVE  Placed(set_authority(n),
                Takes(<<"owned">>, {"owned"}, {}) \o validate_owner(n))
  <1> DEFINE roles == <<"owned">>
             written == {"owned"}
             pre == <<Wr("owned")>>
  <1>1. DOMAIN roles = 1 .. 1 /\ Len(pre) = 1 /\ pre \in Seq(Meta)
    BY DEF Wr, Meta, Roles
  <1>2. /\ \A i \in 1 .. 1 : roles[i] \in Roles
        /\ \A i \in 1 .. 1 :
             pre[i].role = roles[i] /\ (roles[i] \in written => pre[i].writable)
    BY DEF Wr, Roles
  <1>3. /\ set_authority(n) = pre \o Authority(n)
        /\ Takes(<<"owned">>, {"owned"}, {}) \o validate_owner(n) =
             Takes(roles, written, {}) \o validate_owner(n)
    BY DEF set_authority
  <1> HIDE DEF roles, written, pre
  <1>4. Placed(pre \o Authority(n),
               Takes(roles, written, {}) \o validate_owner(n))
    BY <1>1, <1>2, AuthorizedPlaced
  <1>5. QED BY <1>3, <1>4

\* The accounts of Close.
LEMMA ClosePlaced ==
  ASSUME NEW n \in Nat
  PROVE  Placed(close_account(n),
                Takes(<<"account", "destination">>, {"account", "destination"}, {})
                     \o validate_owner(n))
  <1> DEFINE roles == <<"account", "destination">>
             written == {"account", "destination"}
             pre == <<Wr("account"), Wr("destination")>>
  <1>1. DOMAIN roles = 1 .. 2 /\ Len(pre) = 2 /\ pre \in Seq(Meta)
    BY DEF Wr, Meta, Roles
  <1>2. /\ \A i \in 1 .. 2 : roles[i] \in Roles
        /\ \A i \in 1 .. 2 :
             pre[i].role = roles[i] /\ (roles[i] \in written => pre[i].writable)
    BY DEF Wr, Roles
  <1>3. /\ close_account(n) = pre \o Authority(n)
        /\ Takes(<<"account", "destination">>, {"account", "destination"}, {})
             \o validate_owner(n) =
             Takes(roles, written, {}) \o validate_owner(n)
    BY DEF close_account
  <1> HIDE DEF roles, written, pre
  <1>4. Placed(pre \o Authority(n),
               Takes(roles, written, {}) \o validate_owner(n))
    BY <1>1, <1>2, AuthorizedPlaced
  <1>5. QED BY <1>3, <1>4

\* So do those without an authority.
LEMMA MintPlaced ==
  Placed(initialize_mint, Takes(<<"mint", "rent">>, {"mint"}, {}))
  <1> DEFINE roles == <<"mint", "rent">>
             written == {"mint"}
             given == initialize_mint
  <1>1. DOMAIN roles = 1 .. 2 /\ Len(given) = 2
    BY DEF initialize_mint
  <1>2. \A i \in 1 .. 2 :
           /\ given[i].role = roles[i]
           /\ roles[i] \in written => given[i].writable
           /\ roles[i] \in {} => given[i].signer \/ roles[i] \in FeePayer
    BY DEF initialize_mint, R, Wr
  <1> HIDE DEF roles, given, written
  <1>3. Placed(given, Takes(roles, written, {}))
    BY <1>1, <1>2, TakenPlaced
  <1>4. QED BY <1>3 DEF roles, given, written

\* The accounts of Account.
LEMMA AccountPlaced ==
  Placed(initialize_account,
         Takes(<<"account", "mint", "owner", "rent">>, {"account"}, {}))
  <1> DEFINE roles == <<"account", "mint", "owner", "rent">>
             written == {"account"}
             given == initialize_account
  <1>1. DOMAIN roles = 1 .. 4 /\ Len(given) = 4
    BY DEF initialize_account
  <1>2. \A i \in 1 .. 4 :
           /\ given[i].role = roles[i]
           /\ roles[i] \in written => given[i].writable
           /\ roles[i] \in {} => given[i].signer \/ roles[i] \in FeePayer
    BY DEF initialize_account, R, Wr
  <1> HIDE DEF roles, given, written
  <1>3. Placed(given, Takes(roles, written, {}))
    BY <1>1, <1>2, TakenPlaced
  <1>4. QED BY <1>3 DEF roles, given, written

\* The accounts of Account2.
LEMMA Account2Placed ==
  Placed(initialize_account2, Takes(<<"account", "mint", "rent">>, {"account"}, {}))
  <1> DEFINE roles == <<"account", "mint", "rent">>
             written == {"account"}
             given == initialize_account2
  <1>1. DOMAIN roles = 1 .. 3 /\ Len(given) = 3
    BY DEF initialize_account2
  <1>2. \A i \in 1 .. 3 :
           /\ given[i].role = roles[i]
           /\ roles[i] \in written => given[i].writable
           /\ roles[i] \in {} => given[i].signer \/ roles[i] \in FeePayer
    BY DEF initialize_account2, R, Wr
  <1> HIDE DEF roles, given, written
  <1>3. Placed(given, Takes(roles, written, {}))
    BY <1>1, <1>2, TakenPlaced
  <1>4. QED BY <1>3 DEF roles, given, written

\* The keys of a multisig follow its account and the rent.
LEMMA MultisigPlaced ==
  ASSUME NEW n \in Nat
  PROVE  Placed(initialize_multisig(n), process_initialize_multisig(n))
  <1> DEFINE roles == <<"multisig", "rent">>
             written == {"multisig"}
             pre == <<Wr("multisig"), R("rent")>>
             keys == [i \in 1 .. n |-> R("signer")]
             t == Takes(roles, written, {})
  <1>1. DOMAIN roles = 1 .. 2 /\ Len(pre) = 2 /\ pre \in Seq(Meta)
    BY DEF R, Wr, Meta, Roles
  <1>2. /\ \A i \in 1 .. 2 : roles[i] \in Roles
        /\ \A i \in 1 .. 2 :
           /\ pre[i].role = roles[i]
           /\ roles[i] \in written => pre[i].writable
           /\ roles[i] \in {} => pre[i].signer \/ roles[i] \in FeePayer
    BY DEF R, Wr, Roles
  <1>3. initialize_multisig(n) = pre \o keys /\ process_initialize_multisig(n) = t \o keys
    BY DEF initialize_multisig, process_initialize_multisig
  <1>4. keys \in [1 .. n -> Meta]
    <2>1. R("signer") \in Meta
      BY DEF R, Meta, Roles
    <2>2. QED BY <2>1
  <1> HIDE DEF roles, written, pre, keys
  <1>5. t \in Seq(Meta) /\ Len(t) = 2
    BY <1>1, <1>2, TakesFacts
  <1>6. Placed(pre, t)
    BY <1>1, <1>2, TakenPlaced
  <1> HIDE DEF t
  <1>7. keys \in Seq(Meta) /\ Len(keys) = n
    BY <1>4, SeqDef
  <1>8. Placed(keys, keys)
    BY <1>7 DEF Placed, Serves
  <1>9. Placed(pre \o keys, t \o keys)
    BY <1>1, <1>5, <1>6, <1>7, <1>8, PlacedConcat
  <1>10. QED BY <1>3, <1>9

\* The constructor and the handler of every instruction.
LEMMA TokenTables ==
  ASSUME NEW n \in Nat
  PROVE  LET c == TokenConstructor(n)
             h == TokenHandler(n)
         IN /\ c["InitializeMint"] = initialize_mint
            /\ c["InitializeAccount"] = initialize_account
            /\ c["InitializeAccount2"] = initialize_account2
            /\ c["InitializeMultisig"] = initialize_multisig(n)
            /\ c["Transfer"] = transfer(n) /\ c["Approve"] = approve(n)
            /\ c["Revoke"] = revoke(n) /\ c["SetAuthority"] = set_authority(n)
            /\ c["MintTo"] = mint_to(n) /\ c["Burn"] = burn(n)
            /\ c["CloseAccount"] = close_account(n)
            /\ c["FreezeAccount"] = freeze_account(n)
            /\ c["ThawAccount"] = thaw_account(n)
            /\ c["TransferChecked"] = transfer_checked(n)
            /\ c["ApproveChecked"] = approve_checked(n)
            /\ c["MintToChecked"] = mint_to_checked(n)
            /\ c["BurnChecked"] = burn_checked(n)
            /\ h["InitializeMint"] = Takes(<<"mint", "rent">>, {"mint"}, {})
            /\ h["InitializeAccount"] =
                 Takes(<<"account", "mint", "owner", "rent">>, {"account"}, {})
            /\ h["InitializeAccount2"] =
                 Takes(<<"account", "mint", "rent">>, {"account"}, {})
            /\ h["InitializeMultisig"] = process_initialize_multisig(n)
            /\ h["Transfer"] = process_transfer(FALSE, n)
            /\ h["TransferChecked"] = process_transfer(TRUE, n)
            /\ h["Approve"] = process_approve(FALSE, n)
            /\ h["ApproveChecked"] = process_approve(TRUE, n)
            /\ h["Revoke"] = Takes(<<"source">>, {"source"}, {}) \o validate_owner(n)
            /\ h["SetAuthority"] = Takes(<<"owned">>, {"owned"}, {}) \o validate_owner(n)
            /\ h["MintTo"] = process_mint_to(n) /\ h["MintToChecked"] = process_mint_to(n)
            /\ h["Burn"] = process_burn(n) /\ h["BurnChecked"] = process_burn(n)
            /\ h["CloseAccount"] =
                 Takes(<<"account", "destination">>, {"account", "destination"}, {})
                   \o validate_owner(n)
            /\ h["FreezeAccount"] = process_toggle_freeze_account(n)
            /\ h["ThawAccount"] = process_toggle_freeze_account(n)
  BY DEF TokenConstructor, TokenHandler

\* All handlers of the token program find their accounts.
LEMMA TokenPlaced ==
  ASSUME NEW n \in Nat, NEW ix \in TokenInstructions
  PROVE  Placed(TokenConstructor(n)[ix.op], TokenHandler(n)[ix.op])
  <1> DEFINE Ok(op) == Placed(TokenConstructor(n)[op], TokenHandler(n)[op])
  <1>1. /\ Ok("InitializeMint") /\ Ok("InitializeAccount") /\ Ok("InitializeAccount2")
        /\ Ok("InitializeMultisig")
    BY TokenTables, MintPlaced, AccountPlaced, Account2Placed, MultisigPlaced
  <1>2. /\ Ok("SetAuthority") /\ Ok("Revoke") /\ Ok("CloseAccount")
        /\ Ok("FreezeAccount") /\ Ok("ThawAccount")
    BY TokenTables, SetAuthorityPlaced, RevokePlaced, ClosePlaced, FreezePlaced, ThawPlaced
  <1>3. /\ Ok("Transfer") /\ Ok("Approve") /\ Ok("MintTo") /\ Ok("Burn")
    BY TokenTables, TransferPlaced, ApprovePlaced, MintToPlaced, BurnPlaced
  <1>4. /\ Ok("TransferChecked") /\ Ok("ApproveChecked") /\ Ok("MintToChecked")
        /\ Ok("BurnChecked")
    BY TokenTables, TransferCheckedPlaced, ApproveCheckedPlaced, MintToCheckedPlaced,
       BurnCheckedPlaced
  <1> HIDE DEF Ok
  <1>5. CASE ix \notin AuthorizedInstructions
    <2>1. ix.op \in {"InitializeMint", "InitializeAccount", "InitializeAccount2",
                     "InitializeMultisig"}
      BY <1>5 DEF TokenInstructions, OpenInstructions, MultisigInstructions
    <2>2. Ok(ix.op)
      BY <1>1, <2>1
    <2>3. QED BY <1>5, <2>2 DEF Ok
  <1>6. CASE ix \in AuthorizedInstructions
    <2>1. ix.op \in {"SetAuthority", "Revoke", "CloseAccount", "FreezeAccount",
                     "ThawAccount", "Transfer", "Approve", "MintTo", "Burn",
                     "TransferChecked", "ApproveChecked", "MintToChecked",
                     "BurnChecked"}
      BY <1>6, TokenTags DEF AuthorizedInstructions
    <2>2. Ok(ix.op)
      BY <1>2, <1>3, <1>4, <2>1
    <2>3. QED BY <2>2 DEF Ok
  <1>7. QED BY <1>5, <1>6

\* The handlers of both programs find every account where the constructors
\* put it, writable and signed as they need it, for every number of signers.
THEOREM AccountsServe == Spec => []AccountsInPlace
  <1>1. ASSUME NEW m, Genuine(m) PROVE Placed(m.accounts, Handler(m))
    <2>1. CASE m.program = "pool"
      <3>1. m.sent.op \in DOMAIN PoolTag
        BY <1>1, <2>1, SerializeFacts DEF Genuine
      <3>2. m.accounts = PoolConstructor[m.sent.op] /\ Handler(m) = PoolHandler[m.sent.op]
        BY <1>1, <2>1 DEF Genuine, Constructed, Handler
      <3>3. QED BY <3>1, <3>2, PoolPlaced
    <2>2. CASE m.program = "token"
      <3>1. m.sent \in TokenInstructions /\ m.signers \in Nat
        BY <1>1, <2>2, CodecAssumption DEF Genuine
      <3>2. /\ m.accounts = TokenConstructor(m.signers)[m.sent.op]
            /\ Handler(m) = TokenHandler(m.signers)[m.sent.op]
        BY <1>1, <2>2 DEF Genuine, Constructed, Handler
      <3>3. QED BY <3>1, <3>2, TokenPlaced
    <2>3. QED BY <1>1, <2>1, <2>2 DEF Genuine
  <1>2. Init => MessageInv
    BY DEF Init, MessageInv
  <1>3. MessageInv /\ [Next]_vars => MessageInv'
    BY MessageStep
  <1>4. MessageInv => AccountsInPlace
    BY <1>1 DEF MessageInv, AccountsInPlace, Placed, Serves
  <1>5. QED BY <1>2, <1>3, <1>4, PTL DEF Spec

-----------------------------------------------------------------------------
(***************************************************************************)
(* The validator stake list.                                               *)
(***************************************************************************)

\* A product with a larger factor is larger by at least the other factor.
LEMMA NextMultiple ==
  ASSUME NEW M \in Nat, NEW p \in Int, NEW q \in Int, p < q
  PROVE  M * p + M <= M * q
  <1> DEFINE d == q - p - 1
  <1>1. d \in Nat /\ q = p + 1 + d
    OBVIOUS
  <1> HIDE DEF d
  <1>2. M * d >= 0
    BY <1>1
  <1>3. M * (p + 1 + d) = M * p + M + M * d
    BY <1>1
  <1>4. QED BY <1>1, <1>2, <1>3

\* A quotient is determined.
LEMMA QuotientUnique ==
  ASSUME NEW M \in Nat \ {0}, NEW q \in Int, NEW r \in 0 .. M - 1
  PROVE  (M * q + r) \div M = q
  <1> DEFINE a == M * q + r
             p == a \div M
             s == a % M
  <1>1. a \in Int
    OBVIOUS
  <1> HIDE DEF a
  <1>2. a = M * p + s /\ s \in 0 .. M - 1 /\ p \in Int
    BY <1>1, DivMod
  <1> HIDE DEF p, s
  <1>3. M * q + r = M * p + s
    BY <1>2 DEF a
  <1>4. M * q \in Int /\ M * p \in Int
    BY <1>2
  <1> DEFINE u == M * q
             v == M * p
  <1>5. ~(q < p)
    <2>1. SUFFICES ASSUME q < p PROVE FALSE
      OBVIOUS
    <2>2. u + M <= v
      BY <1>2, <2>1, NextMultiple
    <2> HIDE DEF u, v
    <2>3. QED BY <1>2, <1>3, <1>4, <2>2 DEF u, v
  <1>6. ~(p < q)
    <2>1. SUFFICES ASSUME p < q PROVE FALSE
      OBVIOUS
    <2>2. v + M <= u
      BY <1>2, <2>1, NextMultiple
    <2> HIDE DEF u, v
    <2>3. QED BY <1>2, <1>3, <1>4, <2>2 DEF u, v
  <1>7. p = q
    BY <1>2, <1>5, <1>6
  <1>8. QED BY <1>7 DEF p, a

\* The sizes of a record and of the account.
LEMMA Widths ==
  /\ InfoLen \in Nat \ {0} /\ InfoLen = KeyLen + 2 * W /\ KeyLen \in Nat /\ W \in Nat
  /\ HEADER_LEN = 3 /\ LEN = 3 + InfoLen * MAX_VALIDATOR_STAKE_ACCOUNTS /\ LEN \in Nat
  /\ LEN >= 3 /\ MAX_VALIDATOR_STAKE_ACCOUNTS \in Nat
  /\ MAX_VALIDATOR_STAKE_ACCOUNTS < Base * Base
  <1>1. InfoLen \in Nat \ {0} /\ InfoLen = KeyLen + 2 * W /\ KeyLen \in Nat /\ W \in Nat
    BY CodecAssumption DEF InfoLen
  <1>2. MAX_VALIDATOR_STAKE_ACCOUNTS \in Nat /\ MAX_VALIDATOR_STAKE_ACCOUNTS < Base * Base
    <2> DEFINE b == Base * Base
    <2>1. b \in Int
      BY CodecAssumption
    <2>2. MAX_VALIDATOR_STAKE_ACCOUNTS \in 1 .. b - 1
      BY CodecAssumption
    <2> HIDE DEF b
    <2>3. MAX_VALIDATOR_STAKE_ACCOUNTS \in Nat /\ MAX_VALIDATOR_STAKE_ACCOUNTS < b
      BY <2>1, <2>2
    <2>4. QED BY <2>3 DEF b
  <1>3. LEN = 3 + InfoLen * MAX_VALIDATOR_STAKE_ACCOUNTS
    BY DEF LEN, HEADER_LEN
  <1>4. InfoLen * MAX_VALIDATOR_STAKE_ACCOUNTS \in Nat
    BY <1>1, <1>2
  <1>5. QED BY <1>1, <1>2, <1>3, <1>4 DEF HEADER_LEN

\* Where a byte of a record is, and which byte of which record is where.
LEMMA InfoPlaces ==
  ASSUME NEW n \in 0 .. MAX_VALIDATOR_STAKE_ACCOUNTS
  PROVE  /\ InfoStart(n + 1) \in Nat /\ InfoStart(n + 1) <= LEN
         /\ \A k \in 1 .. n : \A j \in 1 .. InfoLen :
              LET i == InfoStart(k) + j
              IN /\ i \in 1 .. LEN /\ ~(i <= HEADER_LEN) /\ ~(i > InfoStart(n + 1))
                 /\ 1 + (i - HEADER_LEN - 1) \div InfoLen = k
                 /\ i - InfoStart(k) = j
         /\ \A i \in 1 .. LEN : ~(i <= HEADER_LEN) /\ ~(i > InfoStart(n + 1)) =>
              LET k == 1 + (i - HEADER_LEN - 1) \div InfoLen
              IN k \in 1 .. n /\ i - InfoStart(k) \in 1 .. InfoLen
         /\ \A k \in 1 .. n : /\ InfoStart(k) \in Nat
                              /\ InfoStart(k + 1) = InfoStart(k) + InfoLen
  <1> DEFINE M == InfoLen
             MAX == MAX_VALIDATOR_STAKE_ACCOUNTS
  <1>1. /\ M \in Nat \ {0} /\ MAX \in Nat /\ HEADER_LEN = 3 /\ LEN = 3 + M * MAX
        /\ \A k \in Int : InfoStart(k) = 3 + M * (k - 1)
    BY Widths DEF InfoStart, HEADER_LEN
  <1> HIDE DEF M, MAX
  <1>2. n \in Nat /\ n <= MAX
    BY <1>1 DEF MAX
  <1>3. M * n \in Nat /\ M * MAX \in Nat /\ M * n <= M * MAX
    <2>1. M * n \in Nat /\ M * MAX \in Nat
      BY <1>1, <1>2
    <2>2. CASE n = MAX
      BY <2>1, <2>2
    <2>3. CASE n < MAX
      <3>1. M * n + M <= M * MAX
        BY <1>1, <1>2, <2>3, NextMultiple
      <3> DEFINE u == M * n
                 v == M * MAX
      <3> HIDE DEF u, v
      <3>2. QED BY <1>1, <2>1, <3>1 DEF u, v
    <2>4. QED BY <1>1, <1>2, <2>2, <2>3
  <1>4. InfoStart(n + 1) = 3 + M * n
    BY <1>1, <1>2
  <1>5. ASSUME NEW k \in 1 .. n
        PROVE  /\ M * (k - 1) \in Nat /\ M * (k - 1) + M = M * k /\ M * k <= M * n
               /\ M * k \in Nat
    <2>1. k \in Nat /\ k - 1 \in Nat
      BY <1>2
    <2>2. M * (k - 1) \in Nat /\ M * (k - 1) + M = M * k /\ M * k \in Nat
      BY <1>1, <2>1
    <2>3. CASE k = n
      BY <1>3, <2>2, <2>3
    <2>4. CASE k < n
      <3>1. M * k + M <= M * n
        BY <1>1, <1>2, <2>1, <2>4, NextMultiple
      <3> DEFINE u == M * k
                 v == M * n
      <3> HIDE DEF u, v
      <3>2. QED BY <1>1, <1>3, <2>2, <3>1 DEF u, v
    <2>5. QED BY <1>2, <2>1, <2>2, <2>3, <2>4
  <1>6. ASSUME NEW k \in 1 .. n, NEW j \in 1 .. M
        PROVE  LET i == InfoStart(k) + j
               IN /\ i \in 1 .. LEN /\ ~(i <= HEADER_LEN) /\ ~(i > InfoStart(n + 1))
                  /\ 1 + (i - HEADER_LEN - 1) \div M = k
                  /\ i - InfoStart(k) = j
    <2> DEFINE i == InfoStart(k) + j
               p == M * (k - 1)
    <2>1. k \in Int /\ k - 1 \in Int /\ p \in Nat /\ p + M <= M * n
      <3>1. p \in Nat /\ p + M = M * k /\ M * k <= M * n
        BY <1>5
      <3>2. QED BY <1>2, <3>1
    <2>2. InfoStart(k) = 3 + p
      BY <1>1, <2>1
    <2>3. j - 1 \in 0 .. M - 1 /\ j \in Int /\ M \in Int
      BY <1>1
    <2>4. (p + (j - 1)) \div M = k - 1
      BY <1>1, <2>1, <2>3, QuotientUnique
    <2> HIDE DEF p
    <2> DEFINE u == M * n
               v == M * MAX
    <2>5. u \in Nat /\ v \in Nat /\ u <= v /\ p + M <= u /\ LEN = 3 + v
          /\ InfoStart(n + 1) = 3 + u
      BY <1>1, <1>3, <1>4, <2>1
    <2> HIDE DEF u, v
    <2>6. i = 3 + p + j /\ i - 3 - 1 = p + (j - 1)
      BY <2>1, <2>2, <2>3
    <2>7. i \in 1 .. LEN /\ ~(i <= 3) /\ ~(i > InfoStart(n + 1)) /\ i - InfoStart(k) = j
      BY <2>1, <2>2, <2>3, <2>5, <2>6
    <2>8. (i - HEADER_LEN - 1) \div M = k - 1
      BY <1>1, <2>4, <2>6
    <2>9. 1 + (i - HEADER_LEN - 1) \div M = k
      BY <2>1, <2>8
    <2>10. QED BY <1>1, <2>7, <2>9
  <1>7. ASSUME NEW i \in 1 .. LEN, ~(i <= HEADER_LEN), ~(i > InfoStart(n + 1))
        PROVE  LET k == 1 + (i - HEADER_LEN - 1) \div M
               IN k \in 1 .. n /\ i - InfoStart(k) \in 1 .. M
    <2> DEFINE a == i - HEADER_LEN - 1
               q == a \div M
               r == a % M
               u == M * n
    <2>1. u \in Nat /\ i \in Int /\ i >= 4 /\ i <= 3 + u /\ a = i - 4 /\ a \in Nat
      <3>1. LEN \in Nat
        BY Widths
      <3>2. QED BY <1>1, <1>3, <1>4, <1>7, <3>1
    <2> HIDE DEF a
    <2>2. a = M * q + r /\ r \in 0 .. M - 1 /\ q \in Int
      BY <1>1, <2>1, DivMod
    <2>3. q \in Nat
      BY <1>1, <2>1, DivFacts
    <2> HIDE DEF q, r
    <2> DEFINE p == M * q
    <2>4. p \in Nat
      BY <1>1, <2>3
    <2>5. ~(n < q) /\ n # q
      <3>1. ASSUME n < q PROVE u + M <= p
        BY <1>1, <1>2, <2>2, <3>1, NextMultiple
      <3>2. n = q => u = p
        OBVIOUS
      <3> HIDE DEF u, p
      <3>3. p <= a /\ a < u
        <4>1. a = p + r
          BY <2>2 DEF p
        <4>2. QED BY <2>1, <2>2, <2>4, <4>1
      <3>4. QED BY <1>1, <2>1, <2>4, <3>1, <3>2, <3>3
    <2>6. 1 + q \in 1 .. n
      BY <1>2, <2>3, <2>5
    <2>7. InfoStart(1 + q) = 3 + p
      <3>1. InfoStart(1 + q) = 3 + M * ((1 + q) - 1) /\ (1 + q) - 1 = q
        BY <1>1, <2>2
      <3>2. QED BY <3>1
    <2>8. a = p + r
      BY <2>2
    <2> HIDE DEF p, u
    <2>9. i - InfoStart(1 + q) \in 1 .. M
      BY <1>1, <2>1, <2>2, <2>4, <2>7, <2>8
    <2>10. QED BY <2>6, <2>9 DEF q, a
  <1>8. ASSUME NEW k \in 1 .. n
        PROVE  InfoStart(k) \in Nat /\ InfoStart(k + 1) = InfoStart(k) + M
    <2>1. k \in Int /\ k + 1 \in Int /\ (k + 1) - 1 = k
      BY <1>2
    <2>2. InfoStart(k) = 3 + M * (k - 1) /\ InfoStart(k + 1) = 3 + M * k
      BY <1>1, <2>1
    <2> DEFINE u == M * (k - 1)
               v == M * k
    <2>3. u \in Nat /\ u + M = v
      BY <1>5
    <2> HIDE DEF u, v
    <2>4. QED BY <1>1, <2>2, <2>3 DEF u, v
  <1>9. InfoStart(n + 1) \in Nat /\ InfoStart(n + 1) <= LEN
    <2> DEFINE u == M * n
               v == M * MAX
    <2>1. u \in Nat /\ v \in Nat /\ u <= v /\ LEN = 3 + v /\ InfoStart(n + 1) = 3 + u
      BY <1>1, <1>3, <1>4
    <2> HIDE DEF u, v
    <2>2. QED BY <2>1
  <1>10. QED BY <1>6, <1>7, <1>8, <1>9 DEF M

Rec == [validator_account : Keys, balance : Balances, last_update_epoch : Balances]

\* The bytes of a record.
LEMMA InfoBytes ==
  ASSUME NEW r \in Rec
  PROVE  LET b == serialize_info(r)
         IN /\ b \in Seq(Byte) /\ Len(b) = InfoLen
            /\ Stands(b, 0, r.validator_account, KeyLen)
            /\ Stands(b, KeyLen, to_le_bytes(r.balance, W), W)
            /\ Stands(b, KeyLen + W, to_le_bytes(r.last_update_epoch, W), W)
  <1> DEFINE k == r.validator_account
             x == to_le_bytes(r.balance, W)
             y == to_le_bytes(r.last_update_epoch, W)
             kx == k \o x
             b == serialize_info(r)
  <1>1. b = kx \o y
    BY DEF serialize_info
  <1>2. k \in Keys /\ r.balance \in Nat /\ r.last_update_epoch \in Nat
        /\ KeyLen \in Nat /\ W \in Nat
    BY ValuesFit DEF Rec
  <1>3. k \in [1 .. KeyLen -> Byte] /\ x \in [1 .. W -> Byte] /\ y \in [1 .. W -> Byte]
    BY <1>2, ValuesFit, BytesType
  <1> HIDE DEF k, x, y, b
  <1>4. /\ k \in Seq(Byte) /\ Len(k) = KeyLen /\ x \in Seq(Byte) /\ Len(x) = W
        /\ y \in Seq(Byte) /\ Len(y) = W
    BY <1>2, <1>3, FixedSeq
  <1>5. /\ kx \in Seq(Byte) /\ Len(kx) = KeyLen + W
        /\ \A i \in 1 .. KeyLen : kx[i] = k[i]
        /\ Stands(kx, KeyLen, x, W)
    <2>1. /\ kx \in Seq(Byte) /\ Len(kx) = Len(k) + Len(x)
          /\ \A i \in 1 .. Len(k) : kx[i] = k[i]
          /\ Stands(kx, Len(k), x, Len(x))
      BY <1>4, ConcatStands
    <2>2. QED BY <1>4, <2>1
  <1> HIDE DEF kx
  <1>6. Stands(kx, 0, k, KeyLen)
    <2>1. \A i \in 1 .. KeyLen : 0 + i = i
      BY <1>2
    <2>2. QED BY <1>5, <2>1 DEF Stands
  <1>7. /\ kx \o y \in Seq(Byte) /\ Len(kx \o y) = Len(kx) + Len(y)
        /\ Stands(kx \o y, Len(kx), y, Len(y))
    BY <1>4, <1>5, ConcatStands
  <1>8. 0 + KeyLen <= Len(kx) /\ KeyLen + W <= Len(kx) /\ Len(kx) + Len(y) = InfoLen
    BY <1>2, <1>4, <1>5, Widths
  <1>9. Stands(kx \o y, 0, k, KeyLen) /\ Stands(kx \o y, KeyLen, x, W)
    BY <1>2, <1>4, <1>5, <1>6, <1>8, HeadStands
  <1>10. /\ b \in Seq(Byte) /\ Len(b) = InfoLen /\ Stands(b, 0, k, KeyLen)
         /\ Stands(b, KeyLen, x, W) /\ Stands(b, KeyLen + W, y, W)
    BY <1>1, <1>4, <1>5, <1>7, <1>8, <1>9
  <1>11. QED BY <1>10 DEF b, k, x, y

\* The end of a sequence, and its beginning.
LEMMA EndsReadBack ==
  ASSUME NEW s \in Seq(Byte), NEW a \in Nat, NEW n \in Nat, a + n <= Len(s),
         NEW part \in [1 .. n -> Byte], Stands(s, a, part, n)
  PROVE  /\ a + n = Len(s) => After(s, a) = part
         /\ a = 0 => First(s, n) = part
  <1>1. Len(s) \in Nat /\ a <= Len(s) /\ part \in Seq(Byte) /\ Len(part) = n
    BY LenProperties, FixedSeq
  <1>2. ASSUME a + n = Len(s) PROVE After(s, a) = part
    <2> DEFINE t == After(s, a)
    <2>1. /\ t \in Seq(Byte) /\ Len(t) = Len(s) - a
          /\ \A i \in 1 .. Len(s) - a : t[i] = s[a + i]
      BY <1>1, AfterFacts
    <2> HIDE DEF t
    <2>2. Len(t) = n /\ Len(s) - a = n
      BY <1>1, <1>2, <2>1
    <2>3. \A i \in 1 .. Len(t) : t[i] = part[i]
      BY <2>1, <2>2 DEF Stands
    <2>4. t = part
      BY <1>1, <2>1, <2>2, <2>3, SeqEqual
    <2>5. QED BY <2>4 DEF t
  <1>3. ASSUME a = 0 PROVE First(s, n) = part
    <2> DEFINE t == First(s, n)
    <2>1. n <= Len(s)
      BY <1>1, <1>3
    <2>2. t \in Seq(Byte) /\ Len(t) = n /\ \A i \in 1 .. n : t[i] = s[i]
      BY <2>1, FirstFacts
    <2> HIDE DEF t
    <2>3. \A i \in 1 .. n : 0 + i = i
      OBVIOUS
    <2>4. \A i \in 1 .. n : s[i] = part[i]
      BY <1>3, <2>3 DEF Stands
    <2>5. t = part
      BY <1>1, <2>2, <2>4, SeqEqual
    <2>6. QED BY <2>5 DEF t
  <1>4. QED BY <1>2, <1>3

\* A record is read back.
LEMMA InfoReadBack ==
  ASSUME NEW r \in Rec
  PROVE  deserialize_info(serialize_info(r)) = r
  <1> DEFINE b == serialize_info(r)
             x == r.balance
             y == r.last_update_epoch
  <1>1. /\ b \in Seq(Byte) /\ Len(b) = InfoLen
        /\ Stands(b, 0, r.validator_account, KeyLen)
        /\ Stands(b, KeyLen, to_le_bytes(x, W), W)
        /\ Stands(b, KeyLen + W, to_le_bytes(y, W), W)
    BY InfoBytes
  <1> HIDE DEF b
  <1>2. /\ r.validator_account \in [1 .. KeyLen -> Byte]
        /\ x \in Nat /\ x < Weight[W] /\ y \in Nat /\ y < Weight[W]
        /\ KeyLen \in Nat /\ W \in Nat /\ KeyLen + W \in Nat
    BY ValuesFit DEF Rec
  <1>3. /\ 0 + KeyLen <= Len(b) /\ KeyLen + W <= Len(b) /\ (KeyLen + W) + W = Len(b)
        /\ (KeyLen + W) + W <= Len(b) /\ 0 \in Nat
    BY <1>1, <1>2, Widths
  <1>4. First(b, KeyLen) = r.validator_account
    BY <1>1, <1>2, <1>3, EndsReadBack
  <1>5. from_le_bytes(First(After(b, KeyLen), W)) = x
    BY <1>1, <1>2, <1>3, NumberReadBack
  <1>6. After(b, KeyLen + W) = to_le_bytes(y, W)
    BY <1>1, <1>2, <1>3, BytesType, EndsReadBack
  <1>7. from_le_bytes(After(b, KeyLen + W)) = y
    BY <1>2, <1>6, BytesReadBack
  <1>8. r = [validator_account |-> r.validator_account, balance |-> x,
             last_update_epoch |-> y]
    BY DEF Rec
  <1>9. deserialize_info(b) = [validator_account |-> r.validator_account, balance |-> x,
                               last_update_epoch |-> y]
    BY <1>4, <1>5, <1>7 DEF deserialize_info
  <1>10. QED BY <1>8, <1>9 DEF b

\* An initialized list.
Stored(l) == l = [version |-> 1, validators |-> l.validators] /\ l.validators \in Seq(Rec)

\* Slices of an account.
LEMMA SubSeqFacts ==
  ASSUME NEW s \in [1 .. LEN -> Byte], NEW a \in Nat, NEW n \in Nat, a + n <= LEN,
         NEW part \in Seq(Byte), Len(part) = n, Stands(s, a, part, n)
  PROVE  SubSeq(s, a + 1, a + n) = part
  <1> DEFINE t == SubSeq(s, a + 1, a + n)
  <1>1. a + 1 \in Int /\ a + n \in Int /\ LEN \in Nat
    BY Widths
  <1>2. \A i \in a + 1 .. a + n : s[i] \in Byte
    BY <1>1
  <1>3. /\ t \in Seq(Byte)
        /\ Len(t) = IF a + 1 <= a + n THEN (a + n) - (a + 1) + 1 ELSE 0
        /\ \A i \in 1 .. (a + n) - (a + 1) + 1 : t[i] = s[(a + 1) + i - 1]
    BY <1>1, <1>2, SubSeqProperties
  <1> HIDE DEF t
  <1>4. Len(t) = n /\ (a + n) - (a + 1) + 1 = n
    BY <1>3
  <1>5. ASSUME NEW i \in 1 .. n PROVE t[i] = part[i]
    <2>1. (a + 1) + i - 1 = a + i
      OBVIOUS
    <2>2. QED BY <1>3, <1>4, <2>1 DEF Stands
  <1>6. t = part
    BY <1>3, <1>4, <1>5, SeqEqual
  <1>7. QED BY <1>6 DEF t

\* The count fits its two bytes.
LEMMA TwoBytes == Weight[2] = Base * Base /\ 2 \in Nat
  <1>1. Weight[0 + 1] = Base * Weight[0] /\ Weight[1 + 1] = Base * Weight[1]
        /\ Weight[0] = 1
    BY WeightFacts
  <1>2. 0 + 1 = 1 /\ 1 + 1 = 2
    OBVIOUS
  <1>3. Weight[1] = Base
    BY <1>1, <1>2, CodecAssumption
  <1>4. QED BY <1>1, <1>2, <1>3

\* A list is read back from the account it was written into, whatever the
\* account held before.
LEMMA ListReadBack ==
  ASSUME NEW l, Stored(l), CanSerialize(l), NEW output \in [1 .. LEN -> Byte]
  PROVE  /\ serialize_list(l, output) \in [1 .. LEN -> Byte]
         /\ deserialize_list(serialize_list(l, output)) = l
  <1> DEFINE v == l.validators
             n == Len(v)
             count == to_le_bytes(n, 2)
             one == <<l.version>>
             header == one \o count
             info(k) == serialize_info(v[k])
             acc == serialize_list(l, output)
  <1>1. v \in Seq(Rec) /\ l.version = 1 /\ l = [version |-> 1, validators |-> v]
    BY DEF Stored
  <1>2. n \in Nat /\ n \in 0 .. MAX_VALIDATOR_STAKE_ACCOUNTS /\ n < Weight[2]
    <2>1. n \in Nat /\ n <= MAX_VALIDATOR_STAKE_ACCOUNTS
      BY <1>1, LenProperties DEF CanSerialize
    <2> DEFINE b == Base * Base
    <2>2. Weight[2] = b /\ MAX_VALIDATOR_STAKE_ACCOUNTS < b /\ b \in Int
          /\ MAX_VALIDATOR_STAKE_ACCOUNTS \in Nat
      BY TwoBytes, Widths, CodecAssumption
    <2> HIDE DEF b, n
    <2>3. QED BY <2>1, <2>2
  <1>3. \A k \in 1 .. n : v[k] \in Rec
    BY <1>1, ElementOfSeq
  <1>4. count \in [1 .. 2 -> Byte] /\ count \in Seq(Byte) /\ Len(count) = 2
    BY <1>2, TwoBytes, BytesType, FixedSeq
  <1>5. acc = [i \in 1 .. LEN |->
                IF i <= HEADER_LEN THEN header[i]
                ELSE IF i > InfoStart(n + 1) THEN output[i]
                ELSE info(1 + (i - HEADER_LEN - 1) \div InfoLen)
                       [i - InfoStart(1 + (i - HEADER_LEN - 1) \div InfoLen)]]
    <2>1. acc = [i \in 1 .. LEN |->
                  IF i <= HEADER_LEN THEN header[i]
                  ELSE IF i > InfoStart(n + 1) THEN output[i]
                  ELSE [k \in 1 .. n |-> serialize_info(v[k])]
                         [1 + (i - HEADER_LEN - 1) \div InfoLen]
                           [i - InfoStart(1 + (i - HEADER_LEN - 1) \div InfoLen)]]
      BY DEF serialize_list
    <2>2. ASSUME NEW i \in 1 .. LEN, ~(i <= HEADER_LEN), ~(i > InfoStart(n + 1))
          PROVE  [k \in 1 .. n |-> serialize_info(v[k])]
                         [1 + (i - HEADER_LEN - 1) \div InfoLen]
                   = info(1 + (i - HEADER_LEN - 1) \div InfoLen)
      <3> DEFINE k == 1 + (i - HEADER_LEN - 1) \div InfoLen
      <3>1. k \in 1 .. n
        BY <1>2, <2>2, InfoPlaces
      <3> HIDE DEF k, n, v
      <3>2. [kk \in 1 .. n |-> serialize_info(v[kk])][k] = serialize_info(v[k])
        BY <3>1
      <3>3. QED BY <3>2 DEF k
    <2> HIDE DEF acc, header, n, v
    <2>3. QED BY <2>1, <2>2
  <1> HIDE DEF acc
  <1>6. header \in Seq(Byte) /\ Len(header) = 3 /\ header[1] = 1 /\ Stands(header, 1, count, 2)
    <2>1. 1 \in Byte
      BY ValuesFit DEF Byte
    <2>2. one \in Seq(Byte) /\ Len(one) = 1 /\ one[1] = 1
      BY <1>1, <2>1, FewBytes
    <2> HIDE DEF one, count
    <2>3. /\ header \in Seq(Byte) /\ Len(header) = Len(one) + Len(count)
          /\ \A i \in 1 .. Len(one) : header[i] = one[i]
          /\ Stands(header, Len(one), count, Len(count))
      BY <1>4, <2>2, ConcatStands
    <2>4. 1 \in 1 .. Len(one)
      BY <2>2
    <2>5. QED BY <1>4, <2>2, <2>3, <2>4
  <1> HIDE DEF header, count, n, v
  <1>7. \A k \in 1 .. n : info(k) \in Seq(Byte) /\ Len(info(k)) = InfoLen
    BY <1>3, InfoBytes
  <1>8. LEN \in Nat /\ LEN >= 3 /\ HEADER_LEN = 3 /\ InfoLen \in Nat
    BY Widths
  <1>9. acc \in [1 .. LEN -> Byte]
    <2>1. ASSUME NEW i \in 1 .. LEN PROVE acc[i] \in Byte
      <3>1. CASE i <= HEADER_LEN
        <4>1. acc[i] = header[i] /\ i \in 1 .. Len(header)
          BY <1>5, <1>6, <1>8, <3>1
        <4>2. QED BY <1>6, <4>1, ElementOfSeq
      <3>2. CASE ~(i <= HEADER_LEN) /\ i > InfoStart(n + 1)
        BY <1>5, <3>2
      <3>3. CASE ~(i <= HEADER_LEN) /\ ~(i > InfoStart(n + 1))
        <4> DEFINE k == 1 + (i - HEADER_LEN - 1) \div InfoLen
                   j == i - InfoStart(k)
        <4>1. k \in 1 .. n /\ j \in 1 .. InfoLen
          BY <1>2, <3>3, InfoPlaces
        <4>2. acc[i] = info(k)[j]
          BY <1>5, <3>3
        <4> HIDE DEF k, j
        <4>3. info(k) \in Seq(Byte) /\ j \in 1 .. Len(info(k))
          BY <1>7, <4>1
        <4>4. QED BY <4>2, <4>3, ElementOfSeq
      <3>4. QED BY <3>1, <3>2, <3>3
    <2>2. QED BY <1>5, <2>1
  <1>10. acc[1] = 1 /\ Stands(acc, 1, count, 2)
    <2>1. \A i \in 1 .. 3 : acc[i] = header[i]
      BY <1>5, <1>8
    <2>2. QED BY <1>6, <2>1 DEF Stands
  <1>11. ASSUME NEW k \in 1 .. n PROVE Stands(acc, InfoStart(k), info(k), InfoLen)
    <2> SUFFICES ASSUME NEW j \in 1 .. InfoLen PROVE acc[InfoStart(k) + j] = info(k)[j]
      BY DEF Stands
    <2> DEFINE i == InfoStart(k) + j
    <2>1. /\ i \in 1 .. LEN /\ ~(i <= HEADER_LEN) /\ ~(i > InfoStart(n + 1))
          /\ 1 + (i - HEADER_LEN - 1) \div InfoLen = k /\ i - InfoStart(k) = j
      <3>1. \A kk \in 1 .. n : \A jj \in 1 .. InfoLen :
              LET ii == InfoStart(kk) + jj
              IN /\ ii \in 1 .. LEN /\ ~(ii <= HEADER_LEN) /\ ~(ii > InfoStart(n + 1))
                 /\ 1 + (ii - HEADER_LEN - 1) \div InfoLen = kk
                 /\ ii - InfoStart(kk) = jj
        BY <1>2, InfoPlaces, Zenon
      <3>2. QED BY <3>1, Zenon
    <2> HIDE DEF i
    <2>2. acc[i] = info(k)[j]
      BY <1>5, <2>1
    <2>3. QED BY <2>2 DEF i
  <1>12. from_le_bytes(SubSeq(acc, 2, 3)) = n
    <2>1. SubSeq(acc, 1 + 1, 1 + 2) = count
      <3>1. 1 \in Nat /\ 2 \in Nat /\ 1 + 2 <= LEN
        BY <1>8
      <3>2. QED BY <1>4, <1>9, <1>10, <3>1, SubSeqFacts
    <2>2. SubSeq(acc, 2, 3) = count
      BY <2>1
    <2>3. QED BY <1>2, <2>2, TwoBytes, BytesReadBack DEF count
  <1>13. ASSUME NEW k \in 1 .. n
         PROVE  deserialize_info(SubSeq(acc, InfoStart(k) + 1, InfoStart(k + 1))) = v[k]
    <2>1. InfoStart(k) \in Nat /\ InfoStart(k + 1) = InfoStart(k) + InfoLen
      BY <1>2, InfoPlaces
    <2>2. InfoStart(k) + InfoLen <= LEN
      <3>1. InfoLen \in 1 .. InfoLen
        BY Widths
      <3>2. InfoStart(k) + InfoLen \in 1 .. LEN
        BY <1>2, <3>1, InfoPlaces
      <3>3. QED BY <1>8, <3>2
    <2>3. SubSeq(acc, InfoStart(k) + 1, InfoStart(k) + InfoLen) = info(k)
      BY <1>7, <1>8, <1>9, <1>11, <2>1, <2>2, SubSeqFacts
    <2>4. QED BY <1>3, <2>1, <2>3, InfoReadBack
  <1>14. deserialize_list(acc) =
           [version |-> acc[1],
            validators |-> [k \in 1 .. n |->
              deserialize_info(SubSeq(acc, InfoStart(k) + 1, InfoStart(k + 1)))]]
    <2>1. acc[1] # 0 /\ ~(n > MAX_VALIDATOR_STAKE_ACCOUNTS)
      BY <1>2, <1>10, Widths
    <2>2. QED BY <1>12, <2>1 DEF deserialize_list
  <1>15. [k \in 1 .. n |->
            deserialize_info(SubSeq(acc, InfoStart(k) + 1, InfoStart(k + 1)))] = v
    <2>1. v = [k \in 1 .. n |-> v[k]]
      BY <1>1, LenProperties DEF n
    <2>2. QED BY <1>13, <2>1
  <1>16. deserialize_list(acc) = [version |-> 1, validators |-> v]
    BY <1>10, <1>14, <1>15
  <1>17. QED BY <1>1, <1>9, <1>16 DEF acc

\* The recursion of the fold in Retained.
KeepRule(v, k, h) ==
  h = [d \in SUBSET (DOMAIN v) |->
         IF d = {} THEN <<>>
         ELSE LET x == Seqs!Max(d)
              IN IF v[x].validator_account # k THEN Append(h[d \ {x}], v[x])
                 ELSE h[d \ {x}]]

KeepTable(v, k) == CHOOSE h : KeepRule(v, k, h)

\* Retained is the last value of the recursion of its fold.
LEMMA RetainedUnfold ==
  ASSUME NEW l, NEW k, Position(l, k) # {}
  PROVE  Retained(l, k) =
           [l EXCEPT !.validators = KeepTable(l.validators, k)[DOMAIN l.validators]]
  BY DEF Retained, Seqs!FoldLeft, Seqs!MapThenFoldSet, KeepTable, KeepRule

\* What is kept are records.
LEMMA KeptRecords ==
  ASSUME NEW v \in Seq(Rec), NEW k
  PROVE  KeepTable(v, k)[DOMAIN v] \in Seq(Rec)
  <1> DEFINE D == DOMAIN v
             V == Seq(Rec)
             more(x, s) == IF v[x].validator_account # k THEN Append(s, v[x]) ELSE s
             ch == [d \in SUBSET D |-> Seqs!Max(d)]
             g == [p \in D \X V |-> more(p[1], p[2])]
             H == KeepTable(v, k)
  <1>1. D = 1 .. Len(v) /\ Len(v) \in Nat /\ IsFiniteSet(D)
    BY LenProperties, FS_Interval
  <1>2. <<>> \in V
    OBVIOUS
  <1>3. \A d \in SUBSET D : d # {} => ch[d] \in d /\ ch[d] = Seqs!Max(d)
    <2> SUFFICES ASSUME NEW d \in SUBSET D, d # {} PROVE Seqs!Max(d) \in d
      OBVIOUS
    <2>1. \E x \in d : \A y \in d : x >= y
      BY <1>1, LargestPlace
    <2>2. QED BY <2>1 DEF Seqs!Max
  <1>4. ASSUME NEW x \in D, NEW s \in V PROVE more(x, s) \in V
    <2>1. v[x] \in Rec
      BY <1>1, ElementOfSeq
    <2>2. QED BY <2>1, AppendProperties
  <1>5. \A x \in D, s \in V : g[<<x, s>>] = more(x, s) /\ g[<<x, s>>] \in V
    BY <1>4
  <1>6. PICK h \in [SUBSET D -> V] : FoldRule(D, <<>>, ch, g, h)
    <2> HIDE DEF ch, g, D, V
    <2>1. QED BY <1>1, <1>2, <1>3, <1>5, FoldExists
  <1>7. KeepRule(v, k, h)
    <2>1. ASSUME NEW d \in SUBSET D, d # {}
          PROVE  h[d] = more(Seqs!Max(d), h[d \ {Seqs!Max(d)}])
      <3>1. ch[d] \in D /\ ch[d] = Seqs!Max(d)
        BY <1>3, <2>1
      <3> HIDE DEF ch, g, D, V, more
      <3>2. d \ {ch[d]} \in SUBSET D /\ h[d \ {ch[d]}] \in V
        BY <1>6
      <3>3. h[d] = more(ch[d], h[d \ {ch[d]}])
        BY <1>5, <1>6, <2>1, <3>1, <3>2 DEF FoldRule
      <3>4. QED BY <3>1, <3>3
    <2>2. h[{}] = <<>> /\ DOMAIN h = SUBSET D
      BY <1>6 DEF FoldRule
    <2>3. QED BY <1>6, <2>1, <2>2 DEF KeepRule
  <1>8. KeepRule(v, k, H)
    BY <1>7 DEF KeepTable
  <1> HIDE DEF H
  <1>9. H[{}] = <<>>
    BY <1>8 DEF KeepRule
  <1>10. ASSUME NEW d \in SUBSET D, d # {}
         PROVE  \E x \in d : H[d] = more(x, H[d \ {x}])
    <2>1. Seqs!Max(d) \in d
      BY <1>3, <1>10
    <2>2. H[d] = more(Seqs!Max(d), H[d \ {Seqs!Max(d)}])
      BY <1>8, <1>10 DEF KeepRule
    <2> HIDE DEF more
    <2>3. QED BY <2>1, <2>2
  <1> DEFINE G == {d \in SUBSET D : H[d] \in V}
  <1>11. ASSUME NEW d \in SUBSET D, d # {}, \A x \in d : d \ {x} \in G
         PROVE  d \in G
    <2> HIDE DEF more, D, V
    <2>1. PICK x \in d : H[d] = more(x, H[d \ {x}])
      BY <1>10, <1>11
    <2>2. H[d \ {x}] \in V /\ x \in D
      BY <1>11
    <2>3. H[d] \in V
      BY <1>4, <2>1, <2>2
    <2>4. QED BY <2>3
  <1>12. {} \in G
    BY <1>2, <1>9
  <1>13. \A d \in SUBSET D : d \in G
    <2> HIDE DEF G, D
    <2>1. QED BY <1>1, <1>11, <1>12, SubsetInduction
  <1>14. QED BY <1>13 DEF H

NoList == [version |-> 0, validators |-> <<>>]

\* A list with other records.
LEMMA OtherRecords ==
  ASSUME NEW l, Stored(l), NEW s \in Seq(Rec)
  PROVE  Stored([l EXCEPT !.validators = s])
  <1> DEFINE n == [l EXCEPT !.validators = s]
  <1>1. n = [version |-> 1, validators |-> s]
    BY DEF Stored
  <1> HIDE DEF n
  <1>2. Stored(n)
    BY <1>1 DEF Stored
  <1>3. QED BY <1>2 DEF n

\* Whatever a handler makes of the list is a list of records.
LEMMA ChangedRecords ==
  ASSUME NEW l, l = NoList \/ Stored(l), NEW k \in Keys, NEW n \in Balances,
         NEW e \in Balances, NEW op, Changed(op, l, k, n, e) # Rejected
  PROVE  Stored(Changed(op, l, k, n, e))
  <1> DEFINE v == l.validators
  <1>1. ASSUME Position(l, k) # {} PROVE Stored(l)
    <2>1. l # NoList
      BY <1>1 DEF Position, NoList
    <2>2. QED BY <2>1
  <1>2. ASSUME Stored(l)
        PROVE  /\ v \in Seq(Rec) /\ DOMAIN v = 1 .. Len(v) /\ Len(v) \in Nat
               /\ \A i \in DOMAIN v : v[i] \in Rec
    <2>1. v \in Seq(Rec)
      BY <1>2 DEF Stored
    <2>2. QED BY <2>1, LenProperties, ElementOfSeq
  <1>3. CASE op = "Initialize"
    <2>1. Changed(op, l, k, n, e) = [version |-> 1, validators |-> <<>>]
      BY <1>3 DEF Changed, Cleared
    <2>2. QED BY <2>1 DEF Stored
  <1>4. CASE op = "AddValidatorStakeAccount"
    <2> DEFINE r == [validator_account |-> k, balance |-> n, last_update_epoch |-> e]
    <2>1. l.version # 0
      BY <1>4 DEF Changed, Pushed
    <2>2. Changed(op, l, k, n, e) = [l EXCEPT !.validators = Append(v, r)]
      BY <1>4 DEF Changed, Pushed
    <2>3. Stored(l)
      BY <2>1 DEF NoList
    <2>4. r \in Rec
      BY DEF Rec
    <2>5. Append(v, r) \in Seq(Rec)
      BY <1>2, <2>3, <2>4, AppendProperties
    <2>6. QED BY <2>2, <2>3, <2>5, OtherRecords
  <1>5. CASE op = "RemoveValidatorStakeAccount"
    <2>1. Changed(op, l, k, n, e) = Retained(l, k) /\ Position(l, k) # {}
      BY <1>5 DEF Changed, Retained
    <2>2. Stored(l)
      BY <1>1, <2>1
    <2>3. KeepTable(v, k)[DOMAIN v] \in Seq(Rec)
      BY <1>2, <2>2, KeptRecords
    <2>4. Retained(l, k) = [l EXCEPT !.validators = KeepTable(v, k)[DOMAIN v]]
      BY <2>1, RetainedUnfold
    <2>5. QED BY <2>1, <2>2, <2>3, <2>4, OtherRecords
  <1>6. CASE op = "UpdateListBalance"
    <2> DEFINE stale == {i \in Position(l, k) : v[i].last_update_epoch < e}
               s == [i \in DOMAIN v |->
                       IF i \in stale
                       THEN [v[i] EXCEPT !.balance = n, !.last_update_epoch = e] ELSE v[i]]
    <2>1. Changed(op, l, k, n, e) = [l EXCEPT !.validators = s] /\ stale # {}
      BY <1>6 DEF Changed, Updated
    <2>2. Stored(l)
      BY <1>1, <2>1
    <2>3. ASSUME NEW i \in DOMAIN v
          PROVE  [v[i] EXCEPT !.balance = n, !.last_update_epoch = e] \in Rec
      BY <1>2, <2>2 DEF Rec
    <2>4. s \in [1 .. Len(v) -> Rec]
      <3> HIDE DEF stale, v
      <3>1. QED BY <1>2, <2>2, <2>3
    <2>5. s \in Seq(Rec)
      <3> HIDE DEF s, v
      <3>1. QED BY <1>2, <2>2, <2>4, SeqDef
    <2> HIDE DEF s, stale
    <2>6. Stored([l EXCEPT !.validators = s])
      BY <2>2, <2>5, OtherRecords
    <2>7. QED BY <2>1, <2>6
  <1>7. CASE op \in {"Deposit", "Withdraw"}
    <2> DEFINE s == [i \in DOMAIN v |->
                       IF i \in Position(l, k) THEN [v[i] EXCEPT !.balance = n] ELSE v[i]]
    <2>1. Changed(op, l, k, n, e) = [l EXCEPT !.validators = s] /\ Position(l, k) # {}
      BY <1>7 DEF Changed, Rebalanced
    <2>2. Stored(l)
      BY <1>1, <2>1
    <2>3. ASSUME NEW i \in DOMAIN v PROVE [v[i] EXCEPT !.balance = n] \in Rec
      BY <1>2, <2>2 DEF Rec
    <2>4. s \in [1 .. Len(v) -> Rec]
      <3> HIDE DEF v
      <3>1. QED BY <1>2, <2>2, <2>3
    <2>5. s \in Seq(Rec)
      <3> HIDE DEF s, v
      <3>1. QED BY <1>2, <2>2, <2>4, SeqDef
    <2>6. QED BY <2>1, <2>2, <2>5, OtherRecords
  <1>8. op \in {"Initialize", "AddValidatorStakeAccount", "RemoveValidatorStakeAccount",
                "UpdateListBalance", "Deposit", "Withdraw"}
    BY DEF Changed
  <1>9. QED BY <1>3, <1>4, <1>5, <1>6, <1>7, <1>8

\* The account holds the list.
ListInv ==
  /\ account \in [1 .. LEN -> Byte]
  /\ list = NoList \/ Stored(list)
  /\ deserialize_list(account) = list

\* Every step keeps the list readable.
LEMMA ListStep ==
  ASSUME ListInv, [Next]_vars
  PROVE  ListInv'
  <1>1. CASE ProcessPool
    <2>1. PICK k \in Keys, n \in Balances, e \in Balances :
            LET op == Decoded(message).op
                new == Changed(op, deserialize_list(account), k, n, e)
            IN IF new # Rejected /\ CanSerialize(new)
               THEN /\ account' = serialize_list(new, account)
                    /\ list' = Changed(op, list, k, n, e)
               ELSE UNCHANGED <<account, list>>
      BY <1>1 DEF ProcessPool
    <2> DEFINE op == Decoded(message).op
               new == Changed(op, list, k, n, e)
    <2>2. deserialize_list(account) = list
      BY DEF ListInv
    <2>3. IF new # Rejected /\ CanSerialize(new)
          THEN account' = serialize_list(new, account) /\ list' = new
          ELSE UNCHANGED <<account, list>>
      BY <2>1, <2>2
    <2>4. CASE new # Rejected /\ CanSerialize(new)
      <3>1. Stored(new)
        BY <2>4, ChangedRecords DEF ListInv
      <3> HIDE DEF new
      <3>2. account \in [1 .. LEN -> Byte]
        BY DEF ListInv
      <3>3. /\ serialize_list(new, account) \in [1 .. LEN -> Byte]
            /\ deserialize_list(serialize_list(new, account)) = new
        BY <2>4, <3>1, <3>2, ListReadBack
      <3>4. account' = serialize_list(new, account) /\ list' = new
        BY <2>3, <2>4
      <3>5. /\ account' \in [1 .. LEN -> Byte] /\ Stored(list')
            /\ deserialize_list(account') = list'
        BY <3>1, <3>3, <3>4
      <3>6. QED BY <3>5 DEF ListInv, Stored
    <2>5. CASE ~(new # Rejected /\ CanSerialize(new))
      <3>1. UNCHANGED <<account, list>>
        BY <2>3, <2>5
      <3>2. QED BY <3>1 DEF ListInv, Stored
    <2>6. QED BY <2>4, <2>5
  <1>2. CASE ~ProcessPool
    <2>1. UNCHANGED <<account, list>>
      BY <1>2 DEF Next, vars, BuildPool, BuildToken, BuildMultisig, Reencode, ProcessToken
    <2>2. QED BY <2>1 DEF ListInv, Stored
  <1>3. QED BY <1>1, <1>2

\* For every number of validators and every width of keys and words the list
\* is read back as it was stored, through every order of Initialize, Add,
\* Remove, update, Deposit and Withdraw, whatever is behind its end.
THEOREM ListSurvives == Spec => []ListReadsBack
  <1>1. Init => ListInv
    <2> SUFFICES ASSUME Init PROVE ListInv
      OBVIOUS
    <2>1. 0 \in Byte /\ LEN \in Nat /\ LEN >= 3
      BY ValuesFit, Widths DEF Byte
    <2>2. account \in [1 .. LEN -> Byte] /\ account[1] = 0
      BY <2>1 DEF Init
    <2>3. deserialize_list(account) = NoList
      BY <2>2 DEF deserialize_list, NoList
    <2>4. list = NoList
      BY DEF Init, NoList
    <2>5. QED BY <2>2, <2>3, <2>4 DEF ListInv
  <1>2. ListInv /\ [Next]_vars => ListInv'
    BY ListStep
  <1>3. ListInv => ListReadsBack
    BY DEF ListInv, ListReadsBack
  <1>4. QED BY <1>1, <1>2, <1>3, PTL DEF Spec

=============================================================================
