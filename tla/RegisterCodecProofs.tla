------------------------ MODULE RegisterCodecProofs ------------------------
(***************************************************************************)
(* For every base of the bytes, every device and any register definitions: *)
(* a register is read as what its words mean, a value written is read      *)
(* back, and what is sent as an integer is one.                            *)
(***************************************************************************)
EXTENDS RegisterCodec, WellFoundedInduction, TLAPS

(***************************************************************************)
(* Recursive functions on 0 .. n.  Induction rests on the well-foundedness *)
(* of < on Nat, a first-order fact of the library.                         *)
(***************************************************************************)
LEMMA LeastNatural ==
  ASSUME NEW T \in SUBSET Nat, T # {}
  PROVE  \E n \in T : \A k \in T : n <= k
<1>1. PICK n \in T : \A k \in T : ~(<<k, n>> \in OpToRel(<, Nat))
  BY NatLessThanWellFounded, WFMin
<1>2. \A k \in T : ~(k < n)
  BY <1>1 DEF OpToRel
<1>3. QED
  BY <1>2

LEMMA Induction ==
  ASSUME NEW n \in Nat, NEW T, 0 \in T,
         \A k \in 1 .. n : k - 1 \in T => k \in T
  PROVE  \A k \in 0 .. n : k \in T
<1> SUFFICES ASSUME ~(\A k \in 0 .. n : k \in T)
             PROVE  FALSE
  OBVIOUS
<1> DEFINE missing == (0 .. n) \ T
<1>1. PICK k \in missing : \A l \in missing : k <= l
  <2>1. missing \in SUBSET Nat /\ missing # {}
    OBVIOUS
  <2> HIDE DEF missing
  <2>2. QED
    BY <2>1, LeastNatural
<1>2. k \in 1 .. n /\ k - 1 \in 0 .. n /\ k - 1 \notin missing
  BY <1>1
<1>3. QED
  BY <1>1, <1>2

(* A table that starts with b and whose entry k is what g makes of the     *)
(* entry before it.                                                        *)
Table(f, b, g, n) == f[0] = b /\ \A k \in 1 .. n : f[k] = g[<<f[k - 1], k>>]

LEMMA Recursion ==
  ASSUME NEW n \in Nat, NEW S, NEW b \in S, NEW g \in [S \X (1 .. n) -> S]
  PROVE  \E f \in [0 .. n -> S] : Table(f, b, g, n)
<1> DEFINE T == {k \in 0 .. n : \E f \in [0 .. n -> S] : Table(f, b, g, k)}
<1>1. 0 \in T
  <2>1. [i \in 0 .. n |-> b] \in [0 .. n -> S] /\ Table([i \in 0 .. n |-> b], b, g, 0)
    BY DEF Table
  <2>2. QED
    BY <2>1
<1>2. ASSUME NEW k \in 1 .. n, k - 1 \in T
      PROVE  k \in T
  <2>1. PICK f \in [0 .. n -> S] : Table(f, b, g, k - 1)
    BY <1>2
  <2>2. k \in 0 .. n /\ k - 1 \in 0 .. n /\ k # 0 /\ k - 1 # k /\ 0 \in 0 .. n
    OBVIOUS
  <2> DEFINE next == g[<<f[k - 1], k>>]
             h == [f EXCEPT ![k] = next]
  <2>3. next \in S
    <3>1. <<f[k - 1], k>> \in S \X (1 .. n)
      BY <2>1, <2>2
    <3>2. QED
      BY <3>1
  <2> HIDE DEF next
  <2>4. h \in [0 .. n -> S] /\ h[k] = next /\ \A i \in 0 .. n : i # k => h[i] = f[i]
    BY <2>1, <2>2, <2>3
  <2> HIDE DEF h
  <2>5. h[0] = b /\ h[k] = g[<<h[k - 1], k>>]
    BY <2>1, <2>2, <2>4 DEF next, Table
  <2>6. ASSUME NEW i \in 1 .. k
        PROVE  h[i] = g[<<h[i - 1], i>>]
    <3>1. CASE i = k
      BY <3>1, <2>5
    <3>2. CASE i # k
      <4>1. i \in 1 .. k - 1 /\ i \in 0 .. n /\ i - 1 \in 0 .. n /\ i - 1 # k
        BY <3>2
      <4>2. QED
        BY <3>2, <4>1, <2>1, <2>4 DEF Table
    <3>3. QED
      BY <3>1, <3>2
  <2>7. Table(h, b, g, k)
    BY <2>5, <2>6 DEF Table
  <2>8. QED
    BY <2>2, <2>4, <2>7
<1> HIDE DEF T
<1>3. n \in T
  BY <1>1, <1>2, Induction
<1>4. QED
  BY <1>3 DEF T

-----------------------------------------------------------------------------
(* Powers.                                                                 *)
PowerTable(p, b, n) ==
  /\ p \in [0 .. n -> Nat \ {0}] /\ p[0] = 1
  /\ \A k \in 1 .. n : p[k] = p[k - 1] * b

LEMMA PowerHasTable ==
  ASSUME NEW b \in Nat \ {0}, NEW n \in Nat
  PROVE  \E p : PowerTable(p, b, n) /\ Power(b, n) = p[n]
<1> DEFINE S == Nat \ {0}
           g == [t \in S \X (1 .. n) |-> t[1] * b]
           p == CHOOSE h : h = [k \in 0 .. n |-> IF k = 0 THEN 1 ELSE h[k - 1] * b]
<1>1. 1 \in S /\ g \in [S \X (1 .. n) -> S]
  <2>1. ASSUME NEW t \in S \X (1 .. n)
        PROVE  t[1] * b \in S
    <3>1. t[1] \in Nat \ {0}
      OBVIOUS
    <3>2. QED
      BY <3>1
  <2>2. QED
    BY <2>1
<1>2. \A c \in S : \A k \in 1 .. n : g[<<c, k>>] = c * b
  OBVIOUS
<1> HIDE DEF g
<1>3. PICK f \in [0 .. n -> S] : Table(f, 1, g, n)
  BY <1>1, Recursion
<1>4. \A k \in 1 .. n : f[k] = f[k - 1] * b
  <2> TAKE k \in 1 .. n
  <2>1. k - 1 \in 0 .. n
    OBVIOUS
  <2>2. f[k - 1] \in S
    BY <1>3, <2>1
  <2>3. QED
    BY <1>2, <1>3, <2>2 DEF Table
<1>5. f = [k \in 0 .. n |-> IF k = 0 THEN 1 ELSE f[k - 1] * b]
  <2>1. ASSUME NEW k \in 0 .. n
        PROVE  f[k] = IF k = 0 THEN 1 ELSE f[k - 1] * b
    <3>1. k = 0 \/ k \in 1 .. n
      OBVIOUS
    <3>2. QED
      BY <1>3, <1>4, <3>1 DEF Table
  <2>2. QED
    BY <1>3, <2>1
<1>6. p = [k \in 0 .. n |-> IF k = 0 THEN 1 ELSE p[k - 1] * b]
  BY <1>5
<1>7. Power(b, n) = p[n]
  BY DEF Power
<1> HIDE DEF p
<1>8. p[0] = 1 /\ \A k \in 1 .. n : p[k] = p[k - 1] * b
  <2>1. 0 \in 0 .. n /\ \A k \in 1 .. n : k \in 0 .. n /\ k # 0
    OBVIOUS
  <2>2. QED
    BY <1>6, <2>1
<1>9. \A k \in 0 .. n : p[k] \in S
  <2> DEFINE T == {k \in 0 .. n : p[k] \in S}
  <2>1. 0 \in T
    BY <1>8
  <2>2. ASSUME NEW k \in 1 .. n, k - 1 \in T
        PROVE  k \in T
    <3>1. p[k - 1] \in Nat \ {0} /\ p[k] = p[k - 1] * b /\ k \in 0 .. n
      BY <1>8, <2>2
    <3>2. QED
      BY <3>1
  <2> HIDE DEF T
  <2>3. \A k \in 0 .. n : k \in T
    BY <2>1, <2>2, Induction
  <2>4. QED
    BY <2>3 DEF T
<1>10. p \in [0 .. n -> S]
  BY <1>6, <1>9
<1>11. QED
  BY <1>7, <1>8, <1>10 DEF PowerTable

(* Two tables agree as far as both go.                                     *)
LEMMA PowerTablesAgree ==
  ASSUME NEW b \in Nat \ {0}, NEW n \in Nat, NEW m \in 0 .. n, NEW p, NEW q,
         PowerTable(p, b, n), PowerTable(q, b, m)
  PROVE  p[m] = q[m]
<1> DEFINE T == {k \in 0 .. m : p[k] = q[k]}
<1>1. 0 \in T
  BY DEF PowerTable
<1>2. ASSUME NEW k \in 1 .. m, k - 1 \in T
      PROVE  k \in T
  <2>1. k \in 1 .. n /\ k \in 0 .. m
    OBVIOUS
  <2>2. QED
    BY <1>2, <2>1 DEF PowerTable
<1> HIDE DEF T
<1>3. m \in T
  BY <1>1, <1>2, Induction
<1>4. QED
  BY <1>3 DEF T

LEMMA PowerSteps ==
  ASSUME NEW b \in Nat \ {0}
  PROVE  /\ Power(b, 0) = 1
         /\ \A n \in Nat : Power(b, n) \in Nat \ {0}
         /\ \A n \in Nat : Power(b, n + 1) = Power(b, n) * b
<1>1. Power(b, 0) = 1
  BY PowerHasTable DEF PowerTable
<1>2. ASSUME NEW n \in Nat
      PROVE  Power(b, n) \in Nat \ {0} /\ Power(b, n + 1) = Power(b, n) * b
  <2>1. PICK p : PowerTable(p, b, n) /\ Power(b, n) = p[n]
    BY PowerHasTable
  <2>2. PICK q : PowerTable(q, b, n + 1) /\ Power(b, n + 1) = q[n + 1]
    BY PowerHasTable
  <2>3. n \in 0 .. n + 1 /\ n + 1 \in 1 .. n + 1 /\ n + 1 \in Nat
    OBVIOUS
  <2>4. q[n] = p[n]
    BY <2>1, <2>2, <2>3, PowerTablesAgree
  <2>5. q[n + 1] = q[n] * b
    BY <2>2, <2>3 DEF PowerTable
  <2>6. p[n] \in Nat \ {0}
    BY <2>1 DEF PowerTable
  <2>7. QED
    BY <2>1, <2>2, <2>4, <2>5, <2>6
<1>3. QED
  BY <1>1, <1>2

-----------------------------------------------------------------------------
(* Numbers and their digits.                                               *)
NumberTable(v, base, d) ==
  /\ v \in [0 .. Len(d) -> Int] /\ v[0] = 0
  /\ \A k \in 1 .. Len(d) : v[k] = v[k - 1] * base + d[k]

LEMMA NumberHasTable ==
  ASSUME NEW base \in Int, NEW d \in Seq(Int)
  PROVE  \E v : NumberTable(v, base, d) /\ Number(base, d) = v[Len(d)]
<1> DEFINE n == Len(d)
           g == [t \in Int \X (1 .. n) |-> t[1] * base + d[t[2]]]
           v == CHOOSE h : h = [k \in 0 .. n |-> IF k = 0 THEN 0 ELSE h[k - 1] * base + d[k]]
<1>1. n \in Nat /\ \A k \in 1 .. n : d[k] \in Int
  OBVIOUS
<1>2. Number(base, d) = v[n]
  BY DEF Number
<1> HIDE DEF n
<1>3. g \in [Int \X (1 .. n) -> Int]
  <2>1. ASSUME NEW t \in Int \X (1 .. n)
        PROVE  t[1] * base + d[t[2]] \in Int
    <3>1. t[1] \in Int /\ d[t[2]] \in Int
      BY <1>1
    <3>2. QED
      BY <3>1
  <2>2. QED
    BY <2>1
<1>4. \A c \in Int : \A k \in 1 .. n : g[<<c, k>>] = c * base + d[k]
  OBVIOUS
<1> HIDE DEF g
<1>5. PICK f \in [0 .. n -> Int] : Table(f, 0, g, n)
  <2>1. 0 \in Int
    OBVIOUS
  <2>2. QED
    BY <1>1, <1>3, <2>1, Recursion, Zenon
<1>6. \A k \in 1 .. n : f[k] = f[k - 1] * base + d[k]
  <2> TAKE k \in 1 .. n
  <2>1. k - 1 \in 0 .. n
    BY <1>1
  <2>2. f[k - 1] \in Int
    BY <1>5, <2>1
  <2>3. QED
    BY <1>4, <1>5, <2>2 DEF Table
<1>7. f = [k \in 0 .. n |-> IF k = 0 THEN 0 ELSE f[k - 1] * base + d[k]]
  <2>1. ASSUME NEW k \in 0 .. n
        PROVE  f[k] = IF k = 0 THEN 0 ELSE f[k - 1] * base + d[k]
    <3>1. k = 0 \/ k \in 1 .. n
      BY <1>1
    <3>2. QED
      BY <1>5, <1>6, <3>1 DEF Table
  <2>2. QED
    BY <1>5, <2>1
<1>8. v = [k \in 0 .. n |-> IF k = 0 THEN 0 ELSE v[k - 1] * base + d[k]]
  BY <1>7
<1> HIDE DEF v
<1>9. v[0] = 0 /\ \A k \in 1 .. n : v[k] = v[k - 1] * base + d[k]
  <2>1. 0 \in 0 .. n /\ \A k \in 1 .. n : k \in 0 .. n /\ k # 0
    BY <1>1
  <2>2. QED
    BY <1>8, <2>1
<1>10. \A k \in 0 .. n : v[k] \in Int
  <2> DEFINE T == {k \in 0 .. n : v[k] \in Int}
  <2>1. 0 \in T
    BY <1>1, <1>9
  <2>2. ASSUME NEW k \in 1 .. n, k - 1 \in T
        PROVE  k \in T
    <3>1. /\ v[k - 1] \in Int /\ d[k] \in Int /\ k \in 0 .. n
          /\ v[k] = v[k - 1] * base + d[k]
      BY <1>1, <1>9, <2>2
    <3>2. QED
      BY <3>1
  <2> HIDE DEF T
  <2>3. \A k \in 0 .. n : k \in T
    BY <1>1, <2>1, <2>2, Induction
  <2>4. QED
    BY <2>3 DEF T
<1>11. v \in [0 .. n -> Int]
  BY <1>8, <1>10
<1>12. NumberTable(v, base, d)
  BY <1>9, <1>11 DEF NumberTable, n
<1>13. QED
  BY <1>2, <1>12 DEF n

LEMMA NumberType ==
  ASSUME NEW base \in Int, NEW d \in Seq(Int)
  PROVE  Number(base, d) \in Int
<1>1. PICK v : NumberTable(v, base, d) /\ Number(base, d) = v[Len(d)]
  BY NumberHasTable
<1>2. Len(d) \in 0 .. Len(d)
  OBVIOUS
<1>3. QED
  BY <1>1, <1>2 DEF NumberTable

(* Division by a base is exact up to a remainder below the base.           *)
LEMMA Division ==
  ASSUME NEW x \in Int, NEW b \in Nat \ {0}
  PROVE  /\ x \div b \in Int /\ x % b \in 0 .. b - 1
         /\ x = (x \div b) * b + (x % b)
<1>1. x \div b \in Int
  OBVIOUS
<1>2. x % b \in 0 .. b - 1
  OBVIOUS
<1>3. x = (x \div b) * b + (x % b)
  OBVIOUS
<1>4. QED
  BY <1>1, <1>2, <1>3

LEMMA DivisionTwice ==
  ASSUME NEW x \in Int, NEW b \in Nat \ {0}, NEW c \in Nat \ {0}
  PROVE  x \div (b * c) = (x \div b) \div c
OBVIOUS

LEMMA Bases == /\ ByteBase \in Nat \ {0, 1}
               /\ WordBase \in Nat \ {0, 1} /\ WordBase = ByteBase * ByteBase
               /\ \A w : w \in Words <=> w \in 0 .. WordBase - 1
               /\ Words \subseteq Int
<1>1. ByteBase \in Nat \ {0, 1}
  BY CodecAssumption
<1>2. ByteBase * ByteBase \in Nat /\ ByteBase * ByteBase > 1
  BY <1>1
<1>3. QED
  BY <1>1, <1>2 DEF WordBase, Words

LEMMA WordPowers ==
  /\ Power(WordBase, 0) = 1
  /\ \A k \in Nat : Power(WordBase, k) \in Nat \ {0}
  /\ \A k \in Nat : Power(WordBase, k + 1) = Power(WordBase, k) * WordBase
<1>1. WordBase \in Nat \ {0}
  BY Bases
<1>2. QED
  BY <1>1, PowerSteps

LEMMA DigitsAreWords ==
  ASSUME NEW n \in Nat, NEW x \in Int
  PROVE  /\ Digits(x, n) \in [1 .. n -> Words]
         /\ Digits(x, n) \in Seq(Words) /\ Len(Digits(x, n)) = n
<1>1. ASSUME NEW k \in 1 .. n
      PROVE  (x \div Power(WordBase, n - k)) % WordBase \in Words
  <2>1. Power(WordBase, n - k) \in Nat \ {0}
    <3>1. n - k \in Nat
      OBVIOUS
    <3>2. QED
      BY <3>1, WordPowers
  <2>2. x \div Power(WordBase, n - k) \in Int
    BY <2>1
  <2>3. (x \div Power(WordBase, n - k)) % WordBase \in 0 .. WordBase - 1
    BY <2>2, Bases, Division
  <2>4. QED
    BY <2>3, Bases
<1>2. Digits(x, n) \in [1 .. n -> Words]
  BY <1>1 DEF Digits
<1>3. QED
  BY <1>2

(* The words of a number that fits make the number again.                  *)
LEMMA DigitsMakeNumber ==
  ASSUME NEW n \in Nat, NEW x \in Nat, x < Power(WordBase, n)
  PROVE  Number(WordBase, Digits(x, n)) = x
<1> DEFINE W == WordBase
           d == Digits(x, n)
<1>1. W \in Nat \ {0}
  BY Bases
<1>2. /\ Power(W, 0) = 1
      /\ \A k \in Nat : Power(W, k) \in Nat \ {0}
      /\ \A k \in Nat : Power(W, k + 1) = Power(W, k) * W
  BY WordPowers
<1>4. d = [k \in 1 .. n |-> (x \div Power(W, n - k)) % W]
  BY DEF Digits
<1>5. d \in Seq(Words) /\ Len(d) = n
  BY DigitsAreWords
<1> HIDE DEF d
<1>6. Len(d) = n /\ d \in Seq(Int)
  BY <1>5, Bases
<1>7. PICK v : NumberTable(v, W, d) /\ Number(W, d) = v[n]
  BY <1>1, <1>6, NumberHasTable
<1> DEFINE T == {k \in 0 .. n : v[k] = x \div Power(W, n - k)}
<1>8. 0 \in T
  <2>1. Power(W, n - 0) = Power(W, n) /\ Power(W, n) \in Nat \ {0}
    BY <1>2
  <2>2. x \div Power(W, n) = 0
    <3>1. ASSUME NEW p \in Nat \ {0}, x < p
          PROVE  x \div p = 0
      BY <3>1
    <3>2. QED
      BY <2>1, <3>1
  <2>3. QED
    BY <1>7, <2>1, <2>2 DEF NumberTable
<1>9. ASSUME NEW k \in 1 .. n, k - 1 \in T
      PROVE  k \in T
  <2> DEFINE p == Power(W, n - k)
             q == x \div p
  <2>1. p \in Nat \ {0} /\ Power(W, n - (k - 1)) = p * W
    <3>1. n - k \in Nat /\ n - (k - 1) = (n - k) + 1
      OBVIOUS
    <3>2. QED
      BY <1>2, <3>1
  <2>2. v[k - 1] = x \div Power(W, n - (k - 1))
    BY <1>9
  <2>3. v[k] = v[k - 1] * W + d[k] /\ d[k] = q % W /\ k \in 0 .. n
    BY <1>4, <1>6, <1>7 DEF NumberTable
  <2> HIDE DEF p
  <2>4. q \in Int
    BY <2>1, Division
  <2>5. v[k - 1] = q \div W
    BY <1>1, <2>1, <2>2, DivisionTwice
  <2> HIDE DEF q
  <2>6. q = (q \div W) * W + (q % W)
    BY <1>1, <2>4, Division
  <2>7. v[k] = q
    BY <2>3, <2>5, <2>6
  <2>8. QED
    BY <2>3, <2>7 DEF q, p
<1> HIDE DEF T
<1>10. n \in T
  BY <1>8, <1>9, Induction
<1>11. v[n] = x \div Power(W, n - n)
  BY <1>10 DEF T
<1>12. v[n] = x
  <2>1. Power(W, n - n) = 1
    BY <1>2
  <2>2. x \div 1 = x
    OBVIOUS
  <2>3. QED
    BY <1>11, <2>1, <2>2
<1>13. QED
  BY <1>7, <1>12 DEF d

(* The bytes of words make the same number as the words.                   *)
LEMMA BytesMakeNumber ==
  ASSUME NEW ws \in Seq(Words)
  PROVE  /\ Bytes(ws) \in Seq(Int) /\ Len(Bytes(ws)) = 2 * Len(ws)
         /\ Number(ByteBase, Bytes(ws)) = Number(WordBase, ws)
<1> DEFINE n == Len(ws)
           b == Bytes(ws)
           B == ByteBase
<1>1. B \in Nat \ {0} /\ WordBase = B * B /\ WordBase \in Int
  BY Bases
<1>2. n \in Nat /\ (\A i \in 1 .. n : ws[i] \in Int) /\ ws \in Seq(Int)
  BY Bases
<1>3. \A i \in 1 .. n : ws[i] \div B \in Int /\ ws[i] % B \in Int
                        /\ ws[i] = (ws[i] \div B) * B + (ws[i] % B)
  <2> TAKE i \in 1 .. n
  <2>1. ws[i] \in Int
    BY <1>2
  <2>2. ws[i] \div B \in Int /\ ws[i] % B \in 0 .. B - 1
    BY <1>1, <2>1, Division
  <2>3. ws[i] = (ws[i] \div B) * B + (ws[i] % B)
    BY <1>1, <2>1, Division
  <2> HIDE DEF B
  <2>4. QED
    BY <2>2, <2>3
<1>4. b = [k \in 1 .. 2 * n |-> IF k % 2 = 1 THEN ws[(k + 1) \div 2] \div B
                                ELSE ws[k \div 2] % B]
  BY DEF Bytes
<1> HIDE DEF b, n
<1>5. \A i \in 1 .. n : b[2 * i - 1] = ws[i] \div B /\ b[2 * i] = ws[i] % B
  <2> TAKE i \in 1 .. n
  <2>1. /\ 2 * i - 1 \in 1 .. 2 * n /\ 2 * i \in 1 .. 2 * n
        /\ (2 * i - 1) % 2 = 1 /\ (2 * i) % 2 = 0
        /\ ((2 * i - 1) + 1) \div 2 = i /\ (2 * i) \div 2 = i
    BY <1>2
  <2>2. QED
    BY <1>4, <2>1
<1>6. b \in [1 .. 2 * n -> Int]
  <2>1. ASSUME NEW k \in 1 .. 2 * n
        PROVE  (IF k % 2 = 1 THEN ws[(k + 1) \div 2] \div B ELSE ws[k \div 2] % B) \in Int
    <3>1. CASE k % 2 = 1
      <4>1. (k + 1) \div 2 \in 1 .. n
        BY <1>2, <3>1
      <4>2. QED
        BY <1>3, <3>1, <4>1
    <3>2. CASE k % 2 # 1
      <4>1. k \div 2 \in 1 .. n
        BY <1>2, <3>2
      <4>2. QED
        BY <1>3, <3>2, <4>1
    <3>3. QED
      BY <3>1, <3>2
  <2>2. QED
    BY <1>4, <2>1
<1>7. b \in Seq(Int) /\ Len(b) = 2 * n
  <2>1. 2 * n \in Nat
    BY <1>2
  <2>2. QED
    BY <1>6, <2>1
<1>8. PICK u : NumberTable(u, B, b) /\ Number(B, b) = u[2 * n]
  BY <1>1, <1>7, NumberHasTable
<1>9. PICK v : NumberTable(v, WordBase, ws) /\ Number(WordBase, ws) = v[n]
  BY <1>1, <1>2, NumberHasTable DEF n
<1> DEFINE T == {i \in 0 .. n : u[2 * i] = v[i]}
<1>10. 0 \in T
  BY <1>2, <1>8, <1>9 DEF NumberTable
<1>11. ASSUME NEW i \in 1 .. n, i - 1 \in T
       PROVE  i \in T
  <2>1. /\ 2 * i - 1 \in 1 .. 2 * n /\ 2 * i \in 1 .. 2 * n
        /\ (2 * i - 1) - 1 = 2 * (i - 1) /\ 2 * i - 1 \in 0 .. 2 * n
        /\ 2 * (i - 1) \in 0 .. 2 * n /\ i - 1 \in 0 .. n /\ i \in 0 .. n
    BY <1>2
  <2>2. u[2 * i - 1] = u[2 * (i - 1)] * B + b[2 * i - 1]
    BY <1>7, <1>8, <2>1 DEF NumberTable
  <2>3. u[2 * i] = u[2 * i - 1] * B + b[2 * i]
    BY <1>7, <1>8, <2>1 DEF NumberTable
  <2>4. v[i] = v[i - 1] * WordBase + ws[i]
    BY <1>9 DEF NumberTable, n
  <2>5. u[2 * (i - 1)] = v[i - 1] /\ v[i - 1] \in Int
    BY <1>9, <1>11, <2>1 DEF NumberTable, n
  <2>6. ASSUME NEW a \in Int, NEW h \in Int, NEW l \in Int
        PROVE  (a * B + h) * B + l = a * (B * B) + (h * B + l)
    BY <1>1
  <2> DEFINE a == v[i - 1]
             h == ws[i] \div B
             l == ws[i] % B
  <2>7. a \in Int /\ h \in Int /\ l \in Int /\ ws[i] = h * B + l
    BY <1>3, <2>5
  <2>8. u[2 * i] = (a * B + h) * B + l
    BY <1>5, <2>2, <2>3, <2>5
  <2>9. v[i] = a * (B * B) + (h * B + l)
    BY <1>1, <2>4, <2>7
  <2> HIDE DEF a, h, l
  <2>10. u[2 * i] = v[i]
    BY <2>6, <2>7, <2>8, <2>9
  <2>11. QED
    BY <2>1, <2>10
<1> HIDE DEF T
<1>12. n \in T
  <2>1. n \in Nat
    BY <1>2
  <2>2. \A i \in 1 .. n : i - 1 \in T => i \in T
    BY <1>11
  <2>3. \A i \in 0 .. n : i \in T
    BY <1>10, <2>1, <2>2, Induction
  <2>4. QED
    BY <2>1, <2>3
<1>13. u[2 * n] = v[n]
  BY <1>12 DEF T
<1>14. QED
  BY <1>7, <1>8, <1>9, <1>13 DEF b, n

(* n words make a number below the n-th power of their base.               *)
LEMMA NumberBound ==
  ASSUME NEW d \in Seq(Words)
  PROVE  Number(WordBase, d) \in 0 .. Modulus(Len(d)) - 1
<1> DEFINE n == Len(d)
           W == WordBase
<1>1. n \in Nat /\ W \in Nat \ {0} /\ W \in Int /\ d \in Seq(Int)
  BY Bases
<1>2. \A k \in 1 .. n : d[k] \in 0 .. W - 1
  BY Bases
<1> HIDE DEF n
<1>3. PICK v : NumberTable(v, W, d) /\ Number(W, d) = v[n]
  BY <1>1, NumberHasTable DEF n
<1> DEFINE T == {k \in 0 .. n : v[k] \in 0 .. Power(W, k) - 1}
<1>4. 0 \in T
  <2>1. Power(W, 0) = 1
    BY WordPowers
  <2>2. v[0] = 0
    BY <1>3 DEF NumberTable
  <2>3. QED
    BY <1>1, <2>1, <2>2
<1>5. ASSUME NEW k \in 1 .. n, k - 1 \in T
      PROVE  k \in T
  <2> DEFINE p == Power(W, k - 1)
  <2>1. p \in Nat \ {0} /\ Power(W, k) = p * W
    <3>1. k - 1 \in Nat /\ k = (k - 1) + 1
      OBVIOUS
    <3>2. QED
      BY <3>1, WordPowers
  <2>2. v[k - 1] \in 0 .. p - 1 /\ v[k] = v[k - 1] * W + d[k]
    BY <1>3, <1>5 DEF NumberTable, n
  <2> HIDE DEF p
  <2>3. ASSUME NEW a \in 0 .. p - 1, NEW w \in 0 .. W - 1
        PROVE  a * W + w \in 0 .. p * W - 1
    <3>1. a * W \in Nat /\ p * W \in Nat /\ w \in Nat
      BY <1>1, <2>1
    <3>2. (a + 1) * W <= p * W
      BY <1>1, <2>1
    <3>3. (a + 1) * W = a * W + W
      BY <1>1, <2>1
    <3> HIDE DEF W
    <3>4. QED
      BY <1>1, <3>1, <3>2, <3>3
  <2>4. v[k] \in 0 .. Power(W, k) - 1
    BY <1>2, <2>1, <2>2, <2>3
  <2>5. QED
    BY <2>4
<1> HIDE DEF T
<1>6. n \in T
  <2>1. n \in Nat
    BY <1>1
  <2>2. \A k \in 1 .. n : k - 1 \in T => k \in T
    BY <1>5
  <2>3. \A k \in 0 .. n : k \in T
    BY <1>4, <2>1, <2>2, Induction
  <2>4. QED
    BY <2>1, <2>3
<1>7. QED
  BY <1>3, <1>6 DEF T, n, Modulus

-----------------------------------------------------------------------------
(* The words of one register.                                              *)
LEMMA FieldFacts ==
  ASSUME rr \in Fields
  PROVE  /\ rr.kind \in Kinds /\ rr.words \in 1 .. 4
         /\ rr.addr \in Nat /\ rr.offset \in Nat
         /\ StartAddr \in Nat /\ StartAddr + rr.words - 1 <= LastAddr
         /\ rr.addr + rr.words - 1 <= LastAddr
         /\ rr.sf \in Int /\ rr.div \in Nat /\ rr.mul \in Nat /\ rr.dec \in Nat
         /\ IF rr.kind = "float"
             THEN rr.words = 2 /\ rr.order \in {"abcd", "cdab", "badc"}
             ELSE rr.order \in {"high", "low"}
<1>1. rr \in Field
  BY CodecAssumption
<1>2. /\ rr.kind \in Kinds /\ rr.words \in 1 .. 4
      /\ rr.addr \in 0 .. LastAddr /\ rr.offset \in 0 .. LastAddr
      /\ rr.sf \in Int /\ rr.div \in Nat /\ rr.mul \in Nat /\ rr.dec \in Nat
  BY <1>1 DEF Field
<1>3. rr.addr + rr.offset + rr.words - 1 <= LastAddr
  BY CodecAssumption
<1>4. IF rr.kind = "float"
      THEN rr.words = 2 /\ rr.order \in {"abcd", "cdab", "badc"}
      ELSE rr.order \in {"high", "low"}
  BY CodecAssumption
<1>5. QED
  BY <1>2, <1>3, <1>4, CodecAssumption DEF StartAddr

LEMMA ReverseFacts ==
  ASSUME NEW ws \in Seq(Words)
  PROVE  /\ Reverse(ws) \in Seq(Words) /\ Len(Reverse(ws)) = Len(ws)
         /\ \A i \in 1 .. Len(ws) : Reverse(ws)[i] = ws[Len(ws) - i + 1]
         /\ Reverse(Reverse(ws)) = ws
<1>1. \A i \in 1 .. Len(ws) : Len(ws) - i + 1 \in 1 .. Len(ws)
  OBVIOUS
<1>2. /\ Reverse(ws) \in Seq(Words) /\ Len(Reverse(ws)) = Len(ws)
      /\ \A i \in 1 .. Len(ws) : Reverse(ws)[i] = ws[Len(ws) - i + 1]
  BY <1>1 DEF Reverse
<1>3. /\ Reverse(Reverse(ws)) \in Seq(Words)
      /\ Len(Reverse(Reverse(ws))) = Len(ws)
      /\ \A i \in 1 .. Len(ws) : Reverse(Reverse(ws))[i] = ws[i]
  <2> DEFINE rs == Reverse(ws)
  <2>1. /\ rs \in Seq(Words) /\ Len(rs) = Len(ws)
        /\ \A i \in 1 .. Len(ws) : rs[i] = ws[Len(ws) - i + 1]
    BY <1>2
  <2>2. Reverse(rs) = [i \in 1 .. Len(ws) |-> rs[Len(ws) - i + 1]]
    BY <2>1 DEF Reverse
  <2> HIDE DEF rs
  <2>3. \A i \in 1 .. Len(ws) : rs[Len(ws) - i + 1] = ws[i]
    BY <1>1, <2>1
  <2>4. \A i \in 1 .. Len(ws) : rs[Len(ws) - i + 1] \in Words
    BY <2>3
  <2>5. Reverse(rs) \in [1 .. Len(ws) -> Words]
    BY <2>2, <2>4
  <2>6. \A i \in 1 .. Len(ws) : Reverse(rs)[i] = ws[i]
    BY <2>2, <2>3
  <2>7. QED
    BY <2>5, <2>6 DEF rs
<1>4. QED
  BY <1>2, <1>3

(* The bytes of a type with the low word first are those of the words in   *)
(* reverse.                                                                *)
LEMMA LowBytes ==
  ASSUME NEW ws \in Seq(Words)
  PROVE  [k \in 1 .. 2 * Len(ws) |->
            Bytes(ws)[2 * Len(ws) + 2 * ((k + 1) % 2) - k]] = Bytes(Reverse(ws))
<1> DEFINE n == Len(ws)
           rs == Reverse(ws)
<1>1. /\ n \in Nat /\ Len(rs) = n
      /\ \A i \in 1 .. n : rs[i] = ws[n - i + 1]
  BY ReverseFacts
<1>2. Bytes(rs) = [k \in 1 .. 2 * n |-> IF k % 2 = 1 THEN rs[(k + 1) \div 2] \div ByteBase
                                         ELSE rs[k \div 2] % ByteBase]
  BY <1>1 DEF Bytes
<1>3. Bytes(ws) = [k \in 1 .. 2 * n |-> IF k % 2 = 1 THEN ws[(k + 1) \div 2] \div ByteBase
                                         ELSE ws[k \div 2] % ByteBase]
  BY DEF Bytes
<1> HIDE DEF rs, n
<1>4. ASSUME NEW k \in 1 .. 2 * n
      PROVE  Bytes(ws)[2 * n + 2 * ((k + 1) % 2) - k] = Bytes(rs)[k]
  <2>1. CASE k % 2 = 1
    <3> DEFINE i == (k + 1) \div 2
               j == 2 * n + 2 * ((k + 1) % 2) - k
    <3>1. /\ i \in 1 .. n /\ j \in 1 .. 2 * n /\ j % 2 = 1
          /\ (j + 1) \div 2 = n - i + 1
      BY <1>1, <2>1
    <3> HIDE DEF i, j
    <3>2. Bytes(ws)[j] = ws[n - i + 1] \div ByteBase
      BY <1>3, <3>1
    <3>3. Bytes(rs)[k] = ws[n - i + 1] \div ByteBase
      BY <1>1, <1>2, <2>1, <3>1 DEF i
    <3>4. QED
      BY <3>2, <3>3 DEF j
  <2>2. CASE k % 2 # 1
    <3> DEFINE i == k \div 2
               j == 2 * n + 2 * ((k + 1) % 2) - k
    <3>1. /\ i \in 1 .. n /\ j \in 1 .. 2 * n /\ j % 2 # 1
          /\ j \div 2 = n - i + 1
      BY <1>1, <2>2
    <3> HIDE DEF i, j
    <3>2. Bytes(ws)[j] = ws[n - i + 1] % ByteBase
      BY <1>3, <3>1
    <3>3. Bytes(rs)[k] = ws[n - i + 1] % ByteBase
      BY <1>1, <1>2, <2>2, <3>1 DEF i
    <3>4. QED
      BY <3>2, <3>3 DEF j
  <2>3. QED
    BY <2>1, <2>2
<1>5. QED
  BY <1>2, <1>4 DEF n, rs

-----------------------------------------------------------------------------
(* Reading.                                                                *)
LEMMA ElementsOf ==
  ASSUME NEW S, NEW s \in Seq(S)
  PROVE  \A k \in 1 .. Len(s) : s[k] \in S
OBVIOUS

LEMMA ModulusType ==
  ASSUME NEW n \in Nat
  PROVE  Modulus(n) \in Nat \ {0}
BY WordPowers DEF Modulus

LEMMA SignedType ==
  ASSUME NEW u \in Int, NEW n \in Nat
  PROVE  Signed(u, n) \in Int
BY ModulusType DEF Signed

(* The words in the order of their weight.                                 *)
HighFirst(ws) == IF rr.order = "low" THEN Reverse(ws) ELSE ws

LEMMA HighFirstWords ==
  ASSUME rr \in Fields, NEW ws \in [1 .. rr.words -> Words]
  PROVE  /\ rr.words \in 1 .. 4
         /\ ws \in Seq(Words) /\ Len(ws) = rr.words
         /\ HighFirst(ws) \in Seq(Words) /\ Len(HighFirst(ws)) = rr.words
<1>1. rr.words \in 1 .. 4
  BY FieldFacts
<1>2. ws \in Seq(Words) /\ Len(ws) = rr.words
  BY <1>1
<1>3. QED
  BY <1>1, <1>2, ReverseFacts DEF HighFirst

(* The four bytes of two words.                                            *)
LEMMA FourBytes ==
  ASSUME NEW ws \in Seq(Words), Len(ws) = 2
  PROVE  /\ Bytes(ws)[1] = ws[1] \div ByteBase /\ Bytes(ws)[2] = ws[1] % ByteBase
         /\ Bytes(ws)[3] = ws[2] \div ByteBase /\ Bytes(ws)[4] = ws[2] % ByteBase
         /\ \A k \in 1 .. 4 : Bytes(ws)[k] \in Int
<1>2. Bytes(ws) \in Seq(Int) /\ Len(Bytes(ws)) = 4
  <2>1. Bytes(ws) \in Seq(Int) /\ Len(Bytes(ws)) = 2 * Len(ws)
    BY BytesMakeNumber
  <2>2. QED
    BY <2>1
<1>3. \A k \in 1 .. 4 : Bytes(ws)[k] = IF k % 2 = 1 THEN ws[(k + 1) \div 2] \div ByteBase
                                       ELSE ws[k \div 2] % ByteBase
  BY DEF Bytes
<1>4. /\ (1 + 1) \div 2 = 1 /\ 2 \div 2 = 1 /\ (3 + 1) \div 2 = 2 /\ 4 \div 2 = 2
      /\ 1 % 2 = 1 /\ 2 % 2 = 0 /\ 3 % 2 = 1 /\ 4 % 2 = 0
  OBVIOUS
<1>5. \A k \in 1 .. 4 : Bytes(ws)[k] \in Int
  BY <1>2, ElementsOf
<1>6. QED
  BY <1>3, <1>4, <1>5

(* The accessors of m-data.c give the bytes the places their type names.   *)
LEMMA FloatIsMeaning ==
  ASSUME rr \in Fields, rr.kind = "float", NEW ws \in [1 .. rr.words -> Words]
  PROVE  RawValue(ws) = Meaning(rr, ws) /\ RawValue(ws) \in Int
<1> DEFINE b == Bytes(ws)
           placed == [k \in 1 .. 4 |-> b[Place[rr.order][k]]]
<1>1. rr.words = 2 /\ rr.order \in {"abcd", "cdab", "badc"}
  BY FieldFacts
<1>2. /\ b[1] = ws[1] \div ByteBase /\ b[2] = ws[1] % ByteBase
      /\ b[3] = ws[2] \div ByteBase /\ b[4] = ws[2] % ByteBase
      /\ \A k \in 1 .. 4 : b[k] \in Int
  <2>1. ws \in Seq(Words) /\ Len(ws) = 2
    BY <1>1, HighFirstWords
  <2>2. QED
    BY <2>1, FourBytes
<1>3. Meaning(rr, ws) = Number(ByteBase, placed)
  BY <1>1 DEF Meaning
<1> HIDE DEF b
<1>4. placed = CASE rr.order = "abcd" -> <<b[1], b[2], b[3], b[4]>>
                 [] rr.order = "cdab" -> <<b[3], b[4], b[1], b[2]>>
                 [] rr.order = "badc" -> <<b[2], b[1], b[4], b[3]>>
  <2>1. CASE rr.order = "abcd"
    BY <2>1 DEF Place
  <2>2. CASE rr.order = "cdab"
    BY <2>2 DEF Place
  <2>3. CASE rr.order = "badc"
    BY <2>3 DEF Place
  <2>4. QED
    BY <1>1, <2>1, <2>2, <2>3
<1>5. placed \in Seq(Int)
  BY <1>1, <1>2, <1>4
<1> HIDE DEF placed
<1>6. GetFloat(rr.order, ws) = Number(ByteBase, placed)
  BY <1>2, <1>4 DEF GetFloat
<1>7. RawValue(ws) = Number(ByteBase, placed)
  BY <1>6 DEF RawValue
<1>8. Number(ByteBase, placed) \in Int
  BY <1>5, Bases, NumberType
<1>9. QED
  BY <1>3, <1>7, <1>8

LEMMA RawType ==
  ASSUME rr \in Fields, NEW ws \in [1 .. rr.words -> Words]
  PROVE  RawValue(ws) \in Int
<1> DEFINE d == HighFirst(ws)
           top == IF 2 * d[1] >= WordBase THEN WordBase - 1 ELSE WordBase \div 2 - 1
<1>1. rr.words \in 1 .. 4 /\ d \in Seq(Words) /\ Len(d) = rr.words
  BY HighFirstWords
<1>2. d \in Seq(Int) /\ WordBase \in Int
  BY <1>1, Bases
<1>3. Number(WordBase, d) \in Int
  BY <1>2, NumberType
<1>4. Signed(Number(WordBase, d), rr.words) \in Int
  <2>1. rr.words \in Nat
    BY <1>1
  <2>2. QED
    BY <1>3, <2>1, SignedType
<1>5. Signed(Number(WordBase, <<top>> \o Tail(d)), 4) \in Int
  <2>1. top \in Int
    BY <1>2
  <2> HIDE DEF top
  <2>2. Tail(d) \in Seq(Int)
    BY <1>1, <1>2
  <2>3. <<top>> \o Tail(d) \in Seq(Int)
    BY <2>1, <2>2
  <2>4. QED
    BY <1>2, <2>3, NumberType, SignedType
<1>6. CASE rr.kind = "float"
  BY <1>6, FloatIsMeaning
<1>7. CASE rr.kind # "float"
  <2>1. \/ RawValue(ws) = Signed(Number(WordBase, d), rr.words)
        \/ RawValue(ws) = Signed(Number(WordBase, <<top>> \o Tail(d)), 4)
        \/ RawValue(ws) = Number(WordBase, d)
    BY <1>7 DEF RawValue, HighFirst
  <2> HIDE DEF d, top
  <2>2. QED
    BY <1>3, <1>4, <1>5, <2>1
<1>8. QED
  BY <1>6, <1>7

(* Except for the broken types the conversion gives what the words mean.   *)
LEMMA RawIsMeaning ==
  ASSUME rr \in Fields, NEW ws \in [1 .. rr.words -> Words],
         ~Broken(Meaning(rr, ws))
  PROVE  RawValue(ws) = Meaning(rr, ws)
<1> DEFINE d == HighFirst(ws)
           n == rr.words
           u == Number(WordBase, d)
<1>1. n \in 1 .. 4 /\ d \in Seq(Words) /\ Len(d) = n /\ ws \in Seq(Words) /\ Len(ws) = n
  BY HighFirstWords
<1>2. rr.kind \in {"int", "uint", "float"}
  BY FieldFacts DEF Kinds
<1>3. CASE rr.kind = "float"
  BY <1>3, FloatIsMeaning
<1>4. CASE rr.kind # "float"
  <2>1. rr.order \in {"high", "low"}
    BY <1>4, FieldFacts
  <2>2. Meaning(rr, ws) = IF rr.kind = "int" THEN Signed(u, n) ELSE u
    <3>1. CASE rr.order = "high"
      <4>1. Number(ByteBase, Bytes(ws)) = u
        BY <1>1, <3>1, BytesMakeNumber DEF HighFirst
      <4>2. QED
        BY <3>1, <4>1 DEF Meaning
    <3>2. CASE rr.order = "low"
      <4>1. Number(ByteBase, Bytes(Reverse(ws))) = u
        BY <1>1, <3>2, BytesMakeNumber DEF HighFirst
      <4>2. [k \in 1 .. 2 * n |-> Bytes(ws)[2 * n + 2 * ((k + 1) % 2) - k]]
              = Bytes(Reverse(ws))
        BY <1>1, LowBytes
      <4>3. QED
        BY <3>2, <4>1, <4>2 DEF Meaning
    <3>3. QED
      BY <2>1, <3>1, <3>2
  <2>3. u \in 0 .. Modulus(n) - 1 /\ Modulus(n) \in Nat
    <3>1. n \in Nat
      BY <1>1
    <3>2. Modulus(n) \in Nat
      BY <3>1, ModulusType
    <3>3. Number(WordBase, d) \in 0 .. Modulus(Len(d)) - 1
      BY <1>1, NumberBound
    <3>4. QED
      BY <1>1, <3>2, <3>3
  <2>4. CASE rr.kind = "int" /\ n # 3
    BY <2>2, <2>4 DEF RawValue, HighFirst
  <2>5. CASE rr.kind = "int" /\ n = 3
    <3>1. RawValue(ws) = u
      BY <2>5 DEF RawValue, HighFirst
    <3>2. ~(Meaning(rr, ws) < 0)
      BY <2>5 DEF Broken
    <3> HIDE DEF u
    <3>3. Signed(u, n) = u
      BY <2>2, <2>3, <2>5, <3>2 DEF Signed
    <3>4. QED
      BY <2>2, <2>5, <3>1, <3>3
  <2>6. CASE rr.kind = "uint"
    <3>1. n # 4
      BY <2>6 DEF Broken
    <3>2. RawValue(ws) = u
      BY <2>6, <3>1 DEF RawValue, HighFirst
    <3>3. QED
      BY <2>2, <2>6, <3>2
  <2>7. QED
    BY <1>2, <1>4, <2>4, <2>5, <2>6
<1>5. QED
  BY <1>3, <1>4

-----------------------------------------------------------------------------
(* Writing.                                                                *)

(* Two bytes make a word.                                                  *)
LEMMA BytesMakeWord ==
  ASSUME NEW h \in 0 .. ByteBase - 1, NEW l \in 0 .. ByteBase - 1
  PROVE  ByteBase * h + l \in Words
<1>1. ByteBase \in Nat \ {0}
  BY Bases
<1>2. ByteBase * h \in Nat /\ ByteBase * ByteBase \in Nat
  BY <1>1
<1>3. ByteBase * (h + 1) <= ByteBase * ByteBase
  BY <1>1
<1>4. ByteBase * (h + 1) = ByteBase * h + ByteBase
  BY <1>1
<1>5. ByteBase * h + l \in 0 .. ByteBase * ByteBase - 1
  BY <1>1, <1>2, <1>3, <1>4
<1>6. QED
  BY <1>5, Bases

LEMMA WordHasBytes ==
  ASSUME NEW w \in Words
  PROVE  w \div ByteBase \in 0 .. ByteBase - 1 /\ w % ByteBase \in 0 .. ByteBase - 1
<1>1. ByteBase \in Nat \ {0} /\ w \in 0 .. ByteBase * ByteBase - 1
  BY Bases
<1>2. w \div ByteBase \in 0 .. ByteBase - 1
  BY <1>1
<1>3. w % ByteBase \in 0 .. ByteBase - 1
  BY <1>1
<1>4. QED
  BY <1>2, <1>3

LEMMA FloatWords ==
  ASSUME NEW v \in Int, NEW ws \in SetFloat(v)
  PROVE  ws \in [1 .. 2 -> Words]
<1> DEFINE ds == Digits(v % Modulus(2), 2)
           b == Bytes(ds)
<1>1. v % Modulus(2) \in Int
  <2>1. Modulus(2) \in Nat \ {0}
    BY ModulusType
  <2>2. QED
    BY <2>1
<1>2. ds \in Seq(Words) /\ Len(ds) = 2
  BY <1>1, DigitsAreWords
<1>3. \A k \in 1 .. 4 : b[k] \in 0 .. ByteBase - 1
  <2>1. /\ ds[1] \div ByteBase \in 0 .. ByteBase - 1 /\ ds[1] % ByteBase \in 0 .. ByteBase - 1
        /\ ds[2] \div ByteBase \in 0 .. ByteBase - 1 /\ ds[2] % ByteBase \in 0 .. ByteBase - 1
    BY <1>2, WordHasBytes
  <2>2. /\ b[1] = ds[1] \div ByteBase /\ b[2] = ds[1] % ByteBase
        /\ b[3] = ds[2] \div ByteBase /\ b[4] = ds[2] % ByteBase
    BY <1>2, FourBytes
  <2> HIDE DEF b, ds
  <2>3. QED
    BY <2>1, <2>2
<1>4. PICK p \in {<<1, 2, 3, 4>>, <<3, 4, 1, 2>>, <<2, 1, 4, 3>>, <<4, 3, 2, 1>>} :
        ws = [k \in 1 .. 2 |-> ByteBase * b[p[2 * k - 1]] + b[p[2 * k]]]
  BY DEF SetFloat
<1>5. \A k \in 1 .. 2 : p[2 * k - 1] \in 1 .. 4 /\ p[2 * k] \in 1 .. 4
  BY <1>4
<1> HIDE DEF b
<1>6. \A k \in 1 .. 2 : ByteBase * b[p[2 * k - 1]] + b[p[2 * k]] \in Words
  BY <1>3, <1>5, BytesMakeWord
<1>7. QED
  BY <1>4, <1>6

(* The words a write sends.                                                *)
LEMMA WordsToWrite ==
  ASSUME rr \in Fields, NEW v \in Int, NEW ws \in CreateModbusRegWriteBuff(v)
  PROVE  ws \in [1 .. rr.words -> Words]
<1> DEFINE n == rr.words
<1>1. n \in 1 .. 4 /\ n \in Nat
  BY FieldFacts
<1>2. CASE rr.kind = "float"
  <2>1. ws \in SetFloat(v) /\ n = 2
    BY <1>2, FieldFacts DEF CreateModbusRegWriteBuff
  <2>2. QED
    BY <2>1, FloatWords
<1>3. CASE rr.kind # "float"
  <2> DEFINE sign == Modulus(3) \div 2
             low == v % Modulus(n)
  <2>1. Modulus(n) \in Nat \ {0} /\ Modulus(3) \in Nat \ {0}
    BY <1>1, ModulusType
  <2>2. low \in Int /\ sign \in Int /\ \A x \in Undefined(v) : x \in Int
    BY <2>1 DEF Undefined
  <2>3. PICK x \in CASE n = 3 /\ v >= 0 -> {low}
                     [] n = 3 /\ rr.kind = "int" -> {IF low < sign THEN low + sign ELSE low}
                     [] InRange(v) -> {low}
                     [] OTHER -> Undefined(v) :
              ws = IF rr.order = "low" THEN Reverse(Digits(x, n)) ELSE Digits(x, n)
    BY <1>3 DEF CreateModbusRegWriteBuff
  <2> HIDE DEF low, sign
  <2>4. x \in Int
    BY <2>2, <2>3
  <2>5. Digits(x, n) \in Seq(Words) /\ Len(Digits(x, n)) = n
    BY <1>1, <2>4, DigitsAreWords
  <2>6. ws \in Seq(Words) /\ Len(ws) = n
    BY <2>3, <2>5, ReverseFacts
  <2>7. QED
    BY <2>6
<1>4. QED
  BY <1>2, <1>3

(* What a write of a value in range sends is read as that value.           *)
LEMMA WrittenIsRead ==
  ASSUME rr \in Fields, rr.kind # "float", NEW v \in Int, InRange(v), ~Broken(v),
         NEW ws \in CreateModbusRegWriteBuff(v)
  PROVE  RawValue(ws) = v
<1> DEFINE n == rr.words
           m == Modulus(n)
           low == v % m
<1>1. n \in 1 .. 4 /\ n \in Nat /\ rr.kind \in {"int", "uint"} /\ m \in Nat \ {0}
  <2>1. n \in 1 .. 4 /\ rr.kind \in {"int", "uint", "float"}
    BY FieldFacts DEF Kinds
  <2>2. n \in Nat
    BY <2>1
  <2>3. QED
    BY <2>1, <2>2, ModulusType
<1>2. IF rr.kind = "int" THEN -m <= 2 * v /\ 2 * v < m ELSE 0 <= v /\ v < m
  BY DEF InRange
<1>3. (rr.kind = "int" /\ n = 3 => v >= 0) /\ (rr.kind = "uint" => n # 4)
  BY DEF Broken
<1>4. ws = IF rr.order = "low" THEN Reverse(Digits(low, n)) ELSE Digits(low, n)
  <2>1. n = 3 => v >= 0
    BY <1>1, <1>2, <1>3
  <2>2. QED
    BY <2>1 DEF CreateModbusRegWriteBuff
<1> HIDE DEF m
<1>5. low \in 0 .. m - 1 /\ low = IF v < 0 THEN v + m ELSE v
  <2>1. CASE v >= 0
    <3>1. v < m
      BY <1>1, <1>2, <2>1
    <3>2. v % m = v
      BY <1>1, <2>1, <3>1
    <3>3. QED
      BY <1>1, <2>1, <3>1, <3>2
  <2>2. CASE v < 0
    <3>1. -m <= v
      BY <1>1, <1>2, <2>2
    <3>2. v % m = v + m
      BY <1>1, <2>2, <3>1
    <3>3. QED
      BY <1>1, <2>2, <3>1, <3>2
  <2>3. QED
    BY <2>1, <2>2
<1> HIDE DEF low
<1>6. Digits(low, n) \in Seq(Words) /\ Len(Digits(low, n)) = n
  BY <1>1, <1>5, DigitsAreWords
<1>7. HighFirst(ws) = Digits(low, n)
  BY <1>4, <1>6, ReverseFacts DEF HighFirst
<1>8. Number(WordBase, HighFirst(ws)) = low
  BY <1>1, <1>5, <1>7, DigitsMakeNumber DEF m, Modulus
<1>9. CASE rr.kind = "int" /\ n # 3
  <2>1. RawValue(ws) = Signed(low, n)
    BY <1>8, <1>9 DEF RawValue, HighFirst
  <2>2. Signed(low, n) = IF 2 * low >= m THEN low - m ELSE low
    BY DEF Signed, m
  <2>3. QED
    BY <1>1, <1>2, <1>5, <1>9, <2>1, <2>2
<1>10. CASE rr.kind = "uint" \/ n = 3
  <2>1. RawValue(ws) = low
    BY <1>1, <1>3, <1>8, <1>10 DEF RawValue, HighFirst
  <2>2. v >= 0
    BY <1>1, <1>2, <1>3, <1>10
  <2>3. QED
    BY <1>5, <2>1, <2>2
<1>11. QED
  BY <1>1, <1>9, <1>10

-----------------------------------------------------------------------------
(* The scaling.                                                            *)
LEMMA ScalingType ==
  ASSUME rr \in Fields, NEW raw \in Int
  PROVE  /\ ApplyDevider(raw) \in Seq(Int) /\ Len(ApplyDevider(raw)) = 2
         /\ ApplyDevider(raw)[2] > 0
         /\ IsInt /\ rr.force = "none" => ApplyDevider(raw)[2] = 1
<1> DEFINE up == Power(10, IF rr.sf > 0 THEN rr.sf ELSE 0)
           down == Power(10, IF rr.sf < 0 THEN -rr.sf ELSE 0)
           mul == IF rr.mul # 0 THEN rr.mul ELSE 1
           div == IF rr.div # 0 THEN rr.div ELSE 1
<1>1. rr.sf \in Int /\ mul \in Nat \ {0} /\ div \in Nat \ {0}
  BY FieldFacts
<1>2. /\ (IF rr.sf > 0 THEN rr.sf ELSE 0) \in Nat
      /\ (IF rr.sf < 0 THEN -rr.sf ELSE 0) \in Nat
  BY <1>1
<1>3. up \in Nat \ {0} /\ down \in Nat \ {0}
  <2>1. \A n \in Nat : Power(10, n) \in Nat \ {0}
    <3>1. 10 \in Nat \ {0}
      OBVIOUS
    <3>2. QED
      BY <3>1, PowerSteps
  <2>2. QED
    BY <1>2, <2>1
<1>4. IsInt /\ rr.force = "none" => down = 1 /\ div = 1
  <2>1. IsInt /\ rr.force = "none" => rr.sf >= 0 /\ rr.div = 0
    BY DEF IsInt
  <2>2. Power(10, 0) = 1
    <3>1. 10 \in Nat \ {0}
      OBVIOUS
    <3>2. QED
      BY <3>1, PowerSteps
  <2>3. QED
    BY <1>1, <2>1, <2>2
<1>5. ApplyDevider(raw) = <<raw * up * mul, down * div>>
  BY DEF ApplyDevider
<1> HIDE DEF up, down, mul, div
<1>6. raw * up * mul \in Int
  <2>1. raw * up \in Int
    BY <1>3
  <2>2. QED
    BY <1>1, <2>1
<1>7. down * div \in Nat \ {0}
  BY <1>1, <1>3
<1>8. QED
  BY <1>4, <1>5, <1>6, <1>7

LEMMA SameFractionReflexive ==
  ASSUME NEW p \in Seq(Int), Len(p) = 2
  PROVE  SameFraction(p, p)
<1>1. p[1] \in Int /\ p[2] \in Int
  <2>1. 1 \in 1 .. Len(p) /\ 2 \in 1 .. Len(p)
    OBVIOUS
  <2>2. QED
    BY <2>1, ElementsOf
<1>2. QED
  BY <1>1 DEF SameFraction

-----------------------------------------------------------------------------
(* The invariant.                                                          *)
IInv == TypeOK /\ CodecInv

(* Words are stored from an address on.                                    *)
LEMMA ChangedWords ==
  ASSUME rr \in Fields, NEW mem \in [0 .. LastAddr -> Words],
         NEW addr \in Nat, addr + rr.words - 1 <= LastAddr,
         NEW ws \in [1 .. rr.words -> Words]
  PROVE  /\ Changed(mem, addr, ws) \in [0 .. LastAddr -> Words]
         /\ ws = [k \in 1 .. rr.words |-> Changed(mem, addr, ws)[addr + k - 1]]
<1> DEFINE n == rr.words
           new == Changed(mem, addr, ws)
<1>1. n \in 1 .. 4 /\ Len(ws) = n /\ LastAddr \in Nat
  BY HighFirstWords, CodecAssumption
<1>2. new = [a \in 0 .. LastAddr |-> IF a \in addr .. addr + n - 1
                                     THEN ws[a - addr + 1] ELSE mem[a]]
  BY <1>1 DEF Changed
<1> HIDE DEF n, new
<1>3. \A a \in addr .. addr + n - 1 : a - addr + 1 \in 1 .. n
  BY <1>1
<1>4. new \in [0 .. LastAddr -> Words]
  BY <1>2, <1>3 DEF n
<1>5. ASSUME NEW k \in 1 .. n
      PROVE  new[addr + k - 1] = ws[k]
  <2>1. /\ addr + k - 1 \in 0 .. LastAddr /\ addr + k - 1 \in addr .. addr + n - 1
        /\ (addr + k - 1) - addr + 1 = k
    BY <1>1 DEF n
  <2>2. QED
    BY <1>2, <2>1
<1>6. ws = [k \in 1 .. n |-> ws[k]]
  BY DEF n
<1>7. QED
  BY <1>4, <1>5, <1>6 DEF n, new

LEMMA DeviceWordsType ==
  ASSUME TypeOK
  PROVE  DeviceWords \in [1 .. rr.words -> Words]
<1>1. rr \in Fields /\ device \in [0 .. LastAddr -> Words]
  BY DEF TypeOK
<1>2. \A k \in 1 .. rr.words : StartAddr + k - 1 \in 0 .. LastAddr
  <2>1. /\ StartAddr \in Nat /\ rr.words \in 1 .. 4 /\ LastAddr \in Nat
        /\ StartAddr + rr.words - 1 <= LastAddr
    BY <1>1, FieldFacts, CodecAssumption
  <2>2. QED
    BY <2>1
<1>3. QED
  BY <1>1, <1>2 DEF DeviceWords

LEMMA InitInvariant == Init => IInv
<1> SUFFICES ASSUME Init
             PROVE  IInv
  OBVIOUS
<1>1. rr \in Fields
  BY DEF Init
<1>2. PICK ws \in [1 .. rr.words -> Words] :
        device = Changed([a \in 0 .. LastAddr |-> 1], StartAddr, ws)
  BY DEF Init
<1>3. [a \in 0 .. LastAddr |-> 1] \in [0 .. LastAddr -> Words]
  <2>1. 1 \in Words
    BY Bases
  <2>2. QED
    BY <2>1
<1>4. device \in [0 .. LastAddr -> Words]
  <2>1. StartAddr \in Nat /\ StartAddr + rr.words - 1 <= LastAddr
    BY <1>1, FieldFacts
  <2>2. QED
    BY <1>1, <1>2, <1>3, <2>1, ChangedWords
<1>5. fvalue \in Seq(Int) /\ Len(fvalue) = 2 /\ fvalue[2] > 0
  BY DEF Init
<1>6. isInt \in BOOLEAN /\ fresh = FALSE /\ written = <<>>
  BY DEF Init, Nothing
<1>7. TypeOK
  BY <1>1, <1>4, <1>5, <1>6 DEF TypeOK, Nothing
<1>8. CodecInv
  BY <1>6 DEF CodecInv, Nothing
<1>9. QED
  BY <1>7, <1>8 DEF IInv

LEMMA ReadKeeps ==
  ASSUME IInv, NEW s \in 0 .. LastAddr, NEW e \in 0 .. LastAddr, GetRegisterValue(s, e)
  PROVE  IInv'
<1>1. TypeOK /\ CodecInv /\ rr \in Fields
  BY DEF IInv, TypeOK
<1>2. UNCHANGED <<rr, device, written>> /\ fresh' = TRUE /\ isInt' = IsInt
  BY DEF GetRegisterValue
<1>3. Buffer(s) = DeviceWords
  <2>1. \A k \in 1 .. rr.words : s + (StartAddr - s) + k - 1 = StartAddr + k - 1
    BY <1>1, FieldFacts
  <2>2. QED
    BY <2>1 DEF Buffer, DeviceWords
<1>4. fvalue' = ApplyDevider(RawValue(DeviceWords))
  BY <1>3 DEF GetRegisterValue
<1>5. RawValue(DeviceWords) \in Int
  BY <1>1, DeviceWordsType, RawType
<1>6. TypeOK'
  <2>1. fvalue' \in Seq(Int) /\ Len(fvalue') = 2 /\ fvalue'[2] > 0
    BY <1>1, <1>4, <1>5, ScalingType
  <2>2. isInt' \in BOOLEAN
    BY <1>2 DEF IsInt
  <2>3. QED
    BY <1>1, <1>2, <2>1, <2>2 DEF TypeOK
<1>7. fvalue' = ApplyDevider(RawValue(DeviceWords))' /\ isInt' = IsInt'
  BY <1>2, <1>4 DEF ApplyDevider, RawValue, GetFloat, DeviceWords, StartAddr, IsInt
<1>8. /\ written' # Nothing => InRange(written[1])'
      /\ written' # Nothing /\ rr'.offset = 0 =>
           DeviceWords' \in CreateModbusRegWriteBuff(written[1])'
  BY <1>1, <1>2 DEF CodecInv, InRange, CreateModbusRegWriteBuff, Undefined, SetFloat,
                    DeviceWords, StartAddr
<1>9. QED
  BY <1>6, <1>7, <1>8 DEF IInv, CodecInv

LEMMA DeviceKeeps ==
  ASSUME IInv, NEW c \in Words, DeviceSets([k \in 1 .. rr.words |-> c])
  PROVE  IInv'
<1>1. TypeOK /\ rr \in Fields /\ device \in [0 .. LastAddr -> Words]
  BY DEF IInv, TypeOK
<1>2. device' \in [0 .. LastAddr -> Words]
  <2>1. [k \in 1 .. rr.words |-> c] \in [1 .. rr.words -> Words]
    OBVIOUS
  <2>2. StartAddr \in Nat /\ StartAddr + rr.words - 1 <= LastAddr
    BY <1>1, FieldFacts
  <2>3. QED
    BY <1>1, <2>1, <2>2, ChangedWords DEF DeviceSets
<1>3. /\ UNCHANGED <<rr, fvalue, isInt>>
      /\ fresh' = FALSE /\ written' = <<>>
  BY DEF DeviceSets, Nothing
<1>4. TypeOK'
  BY <1>1, <1>2, <1>3 DEF TypeOK, Nothing
<1>5. CodecInv'
  BY <1>3 DEF CodecInv, Nothing
<1>6. QED
  BY <1>4, <1>5 DEF IInv

LEMMA WriteKeeps ==
  ASSUME IInv, NEW v \in Int, WriteRegister(v)
  PROVE  IInv'
<1>1. TypeOK /\ rr \in Fields /\ device \in [0 .. LastAddr -> Words]
  BY DEF IInv, TypeOK
<1>2. PICK ws \in CreateModbusRegWriteBuff(v) : device' = Changed(device, rr.addr, ws)
  BY DEF WriteRegister
<1>3. /\ UNCHANGED <<rr, fvalue, isInt>> /\ fresh' = FALSE
      /\ written' = IF InRange(v) THEN <<v>> ELSE Nothing
  BY DEF WriteRegister
<1>4. ws \in [1 .. rr.words -> Words]
  BY <1>1, WordsToWrite
<1>5. /\ device' \in [0 .. LastAddr -> Words]
      /\ ws = [k \in 1 .. rr.words |-> device'[rr.addr + k - 1]]
  <2>1. rr.addr \in Nat /\ rr.addr + rr.words - 1 <= LastAddr
    BY <1>1, FieldFacts
  <2>2. QED
    BY <1>1, <1>2, <1>4, <2>1, ChangedWords
<1>6. written' = Nothing \/ (written' \in Seq(Int) /\ Len(written') = 1)
  BY <1>3
<1>7. TypeOK'
  BY <1>1, <1>3, <1>5, <1>6 DEF TypeOK, Nothing
<1>8. written' # Nothing => InRange(v) /\ written'[1] = v
  BY <1>3
<1>9. written' # Nothing => InRange(written[1])'
  BY <1>3, <1>8 DEF InRange
<1>10. rr.offset = 0 => DeviceWords' = ws
  <2>1. rr.offset = 0 => StartAddr = rr.addr
    BY <1>1, FieldFacts DEF StartAddr
  <2>2. DeviceWords' = [k \in 1 .. rr.words |-> device'[StartAddr + k - 1]]
    BY <1>3 DEF DeviceWords, StartAddr
  <2>3. QED
    BY <1>5, <2>1, <2>2
<1>11. written' # Nothing /\ rr'.offset = 0 =>
         DeviceWords' \in CreateModbusRegWriteBuff(written[1])'
  <2> SUFFICES ASSUME written' # Nothing, rr'.offset = 0
               PROVE  DeviceWords' \in CreateModbusRegWriteBuff(written[1])'
    OBVIOUS
  <2>1. DeviceWords' \in CreateModbusRegWriteBuff(v)
    BY <1>2, <1>3, <1>10
  <2>2. CreateModbusRegWriteBuff(written[1])' = CreateModbusRegWriteBuff(v)
    <3>1. rr' = rr /\ written'[1] = v
      BY <1>3, <1>8
    <3>2. InRange(written[1])' <=> InRange(v)
      BY <3>1 DEF InRange
    <3>3. Undefined(written[1])' = Undefined(v)
      BY <3>1 DEF Undefined
    <3>4. SetFloat(written[1])' = SetFloat(v)
      BY <3>1 DEF SetFloat
    <3>5. QED
      BY <3>1, <3>2, <3>3, <3>4 DEF CreateModbusRegWriteBuff
  <2>3. QED
    BY <2>1, <2>2
<1>12. CodecInv'
  BY <1>3, <1>9, <1>11 DEF CodecInv
<1>13. QED
  BY <1>7, <1>12 DEF IInv

LEMMA StepInvariant == IInv /\ [Next]_vars => IInv'
<1> SUFFICES ASSUME IInv, [Next]_vars
             PROVE  IInv'
  OBVIOUS
<1>1. ASSUME NEW s \in 0 .. LastAddr, NEW e \in 0 .. LastAddr, GetRegisterValue(s, e)
      PROVE  IInv'
  BY <1>1, ReadKeeps
<1>2. ASSUME NEW c \in Words, DeviceSets([k \in 1 .. rr.words |-> c])
      PROVE  IInv'
  BY <1>2, DeviceKeeps
<1>3. ASSUME NEW v \in Edges(rr.words), WriteRegister(v)
      PROVE  IInv'
  <2>1. v \in Int
    <3>1. rr.words \in Nat
      BY FieldFacts DEF IInv, TypeOK
    <3>2. Modulus(rr.words) \in Nat
      BY <3>1, ModulusType
    <3>3. QED
      BY <3>2 DEF Edges
  <2>2. QED
    BY <1>3, <2>1, WriteKeeps
<1>4. CASE UNCHANGED vars
  <2>1. UNCHANGED <<rr, device, fvalue, isInt, fresh, written>>
    BY <1>4 DEF vars
  <2>2. TypeOK'
    BY <2>1 DEF IInv, TypeOK
  <2>3. fresh' => fvalue' = ApplyDevider(RawValue(DeviceWords))' /\ isInt' = IsInt'
    BY <2>1 DEF IInv, CodecInv, ApplyDevider, RawValue, GetFloat, DeviceWords, StartAddr, IsInt
  <2>4. /\ written' # Nothing => InRange(written[1])'
        /\ written' # Nothing /\ rr'.offset = 0 =>
             DeviceWords' \in CreateModbusRegWriteBuff(written[1])'
    BY <2>1 DEF IInv, CodecInv, InRange, CreateModbusRegWriteBuff, Undefined, SetFloat,
                DeviceWords, StartAddr
  <2>5. QED
    BY <2>2, <2>3, <2>4 DEF IInv, CodecInv
<1>5. QED
  BY <1>1, <1>2, <1>3, <1>4 DEF Next

LEMMA Invariance == Spec => []IInv
BY InitInvariant, StepInvariant, PTL DEF Spec

(* The device has words, the value is a fraction with a positive           *)
(* denominator.                                                            *)
THEOREM TypeCorrect == Spec => []TypeOK
BY Invariance, PTL DEF IInv

(* For words of any size: getRegisterValue and applyDevider give the value *)
(* the words of a register mean, wherever in the block they are.           *)
THEOREM ValuesAreRead == Spec => []ReadsDeviceValue
<1>1. IInv => ReadsDeviceValue
  <2> SUFFICES ASSUME IInv, fresh, ~Broken(Meaning(rr, DeviceWords))
               PROVE  SameFraction(fvalue, ApplyDevider(Meaning(rr, DeviceWords)))
    BY DEF ReadsDeviceValue
  <2>1. rr \in Fields /\ DeviceWords \in [1 .. rr.words -> Words]
    BY DeviceWordsType DEF IInv, TypeOK
  <2>2. RawValue(DeviceWords) = Meaning(rr, DeviceWords)
    BY <2>1, RawIsMeaning
  <2>3. fvalue = ApplyDevider(Meaning(rr, DeviceWords))
    BY <2>2 DEF IInv, CodecInv
  <2>4. fvalue \in Seq(Int) /\ Len(fvalue) = 2
    BY DEF IInv, TypeOK
  <2>5. QED
    BY <2>3, <2>4, SameFractionReflexive
<1>2. QED
  BY <1>1, Invariance, PTL

(* createModbusRegWriteBuff and getRegisterValue are inverse to each other *)
(* on the values an integer type can hold.                                 *)
THEOREM WritesAreReadBack == Spec => []ReadBack
<1>1. IInv => ReadBack
  <2> SUFFICES ASSUME IInv, fresh, written # Nothing, rr.kind # "float",
                      rr.offset = 0, ~Broken(written[1])
               PROVE  SameFraction(fvalue, ApplyDevider(written[1]))
    BY DEF ReadBack
  <2>1. rr \in Fields /\ written[1] \in Int
    <3>1. written \in Seq(Int) /\ Len(written) = 1
      BY DEF IInv, TypeOK
    <3>2. 1 \in 1 .. Len(written)
      BY <3>1
    <3>3. QED
      BY <3>1, <3>2, ElementsOf DEF IInv, TypeOK
  <2>2. InRange(written[1]) /\ DeviceWords \in CreateModbusRegWriteBuff(written[1])
    BY DEF IInv, CodecInv
  <2>3. RawValue(DeviceWords) = written[1]
    BY <2>1, <2>2, WrittenIsRead
  <2>4. fvalue = ApplyDevider(written[1])
    BY <2>3 DEF IInv, CodecInv
  <2>5. fvalue \in Seq(Int) /\ Len(fvalue) = 2
    BY DEF IInv, TypeOK
  <2>6. QED
    BY <2>4, <2>5, SameFractionReflexive
<1>2. QED
  BY <1>1, Invariance, PTL

(* isInt of getRegisterValue and applyDevider is set only for whole        *)
(* numbers, unless forced.                                                 *)
THEOREM IntegersAreSentWhole == Spec => []IntegersAreWhole
<1>1. IInv => IntegersAreWhole
  <2> SUFFICES ASSUME IInv, fresh, isInt, rr.force = "none"
               PROVE  fvalue[1] % fvalue[2] = 0
    BY DEF IntegersAreWhole
  <2>1. rr \in Fields /\ RawValue(DeviceWords) \in Int
    BY DeviceWordsType, RawType DEF IInv, TypeOK
  <2>2. fvalue = ApplyDevider(RawValue(DeviceWords)) /\ IsInt
    BY DEF IInv, CodecInv
  <2>3. fvalue[2] = 1
    BY <2>1, <2>2, ScalingType
  <2>4. fvalue[1] \in Int
    <3>1. fvalue \in Seq(Int) /\ 1 \in 1 .. Len(fvalue)
      BY DEF IInv, TypeOK
    <3>2. QED
      BY <3>1, ElementsOf
  <2>5. QED
    BY <2>3, <2>4
<1>2. QED
  BY <1>1, Invariance, PTL
=============================================================================
