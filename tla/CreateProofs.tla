----------------------------- MODULE CreateProofs -----------------------------
(***************************************************************************)
(* Proofs about parchive create, for every command line, all sizes of      *)
(* files and any width of the counts: the options are read as they say,    *)
(* the block size is the best there is, no set is written that has more    *)
(* blocks than there are constants; and the recovery files hold the blocks *)
(* there are, none twice, none left out and none out of range, no file is  *)
(* larger than -l allows, and the archive comes last.                      *)
(***************************************************************************)
EXTENDS CommandLine, Induction, SequenceTheorems, FiniteSetTheorems

-----------------------------------------------------------------------------
(* Sums of sequences. *)

\* The partial sums are what their recursive equation says.
LEMMA SumsFacts ==
    ASSUME NEW s \in Seq(Nat)
    PROVE  /\ Sums[s] \in [0 .. Len(s) -> Nat]
           /\ Sums[s][0] = 0
           /\ \A k \in 1 .. Len(s) : Sums[s][k] = Sums[s][k - 1] + s[k]
           /\ SumOf(s) = Sums[s][Len(s)] /\ SumOf(s) \in Nat
<1> DEFINE F == [p \in Nat \X Nat |-> IF p[1] \in 1 .. Len(s) THEN p[2] + s[p[1]] ELSE 0]
           Eq(f) == f = [k \in 0 .. Len(s) |-> IF k = 0 THEN 0 ELSE f[k - 1] + s[k]]
<1>1. F \in StepOn(Nat) /\ \A k \in 1 .. Len(s), x \in Nat : F[<<k, x>>] = x + s[k]
  BY DEF StepOn
<1> HIDE DEF F
<1>2. PICK g : DefinedBy(Nat, 0, F, g)
  <2>1. 0 \in Nat
    OBVIOUS
  <2> QED
    BY <1>1, <2>1, Recursion
<1>3. Eq([k \in 0 .. Len(s) |-> g[k]])
  <2>1. g[0] = 0
    BY <1>2 DEF DefinedBy
  <2>2. ASSUME NEW k \in 1 .. Len(s) PROVE g[k] = g[k - 1] + s[k]
    <3>1. k \in Nat \ {0} /\ k - 1 \in 0 .. Len(s)
      OBVIOUS
    <3> QED
      BY <1>1, <1>2, <3>1 DEF DefinedBy
  <2> QED
    BY <2>1, <2>2
<1>4. Sums[s] = CHOOSE f : Eq(f)
  BY DEF Sums
<1>5. Eq(Sums[s])
  <2> HIDE DEF Eq
  <2> QED
    BY <1>3, <1>4
<1> DEFINE f == Sums[s]  n == Len(s)
<1>6. /\ f = [k \in 0 .. n |-> f[k]]
      /\ f[0] = 0
      /\ \A k \in 1 .. n : f[k] = f[k - 1] + s[k] /\ s[k] \in Nat
  <2>1. n \in Nat /\ \A k \in 1 .. n : s[k] \in Nat
    OBVIOUS
  <2>2. f = [k \in 0 .. n |-> IF k = 0 THEN 0 ELSE f[k - 1] + s[k]]
    <3>1. Eq(f)
      <4> HIDE DEF Eq
      <4> QED
        BY <1>5
    <3> HIDE DEF f
    <3> QED
      BY <3>1
  <2> HIDE DEF f, n, Eq
  <2>3. 0 \in 0 .. n /\ \A k \in 1 .. n : k \in 0 .. n /\ k # 0
    BY <2>1
  <2>4. \A k \in 0 .. n : f[k] = IF k = 0 THEN 0 ELSE f[k - 1] + s[k]
    BY <2>2
  <2>5. f = [k \in 0 .. n |-> f[k]]
    BY <2>2
  <2>6. f[0] = 0 /\ \A k \in 1 .. n : f[k] = f[k - 1] + s[k]
    BY <2>3, <2>4
  <2> QED
    BY <2>1, <2>5, <2>6
<1>7. n \in Nat /\ f[n] = SumOf(s)
  BY DEF SumOf
<1> HIDE DEF Eq, f, n
<1>8. \A k \in 0 .. n : f[k] \in Nat
  <2>1. ASSUME NEW k \in 1 .. n, f[k - 1] \in Nat PROVE f[k] \in Nat
    <3>1. f[k] = f[k - 1] + s[k] /\ s[k] \in Nat
      BY <1>6
    <3> QED
      BY <2>1, <3>1
  <2>2. f[0] \in Nat
    BY <1>6
  <2> DEFINE N == Nat
  <2>3. f[0] \in N /\ \A k \in 1 .. n : f[k - 1] \in N => f[k] \in N
    BY <2>1, <2>2
  <2> HIDE DEF N
  <2>4. \A k \in 0 .. n : f[k] \in N
    BY <1>7, <2>3, StaysIn
  <2> QED
    BY <2>4 DEF N
<1>9. f \in [0 .. n -> Nat] /\ f[n] \in Nat
  BY <1>6, <1>7, <1>8
<1> QED
  BY <1>6, <1>7, <1>9 DEF f, n

\* What holds between the members of two sequences holds between their sums.
LEMMA SumBound ==
    ASSUME NEW s \in Seq(Nat), NEW t \in Seq(Nat), Len(s) = Len(t),
           NEW c \in Nat, NEW d \in Nat, NEW a \in Nat, NEW b \in Nat,
           \A k \in 1 .. Len(s) : c * s[k] + b <= d * t[k] + a
    PROVE  c * SumOf(s) + b * Len(s) <= d * SumOf(t) + a * Len(s)
<1> DEFINE n == Len(s)
           P == { k \in Nat : k <= n => c * Sums[s][k] + b * k <= d * Sums[t][k] + a * k }
<1>1. n \in Nat
  OBVIOUS
<1>2. 0 \in P
  <2>1. Sums[s][0] = 0 /\ Sums[t][0] = 0
    BY SumsFacts
  <2> QED
    BY <2>1
<1>3. ASSUME NEW k \in Nat, k \in P PROVE k + 1 \in P
  <2> SUFFICES ASSUME k + 1 <= n
               PROVE  c * Sums[s][k + 1] + b * (k + 1) <= d * Sums[t][k + 1] + a * (k + 1)
    OBVIOUS
  <2> DEFINE x == Sums[s][k]  y == Sums[t][k]
  <2>1. k + 1 \in 1 .. n /\ (k + 1) - 1 = k /\ k \in 0 .. n
    OBVIOUS
  <2>2. x \in Nat /\ y \in Nat /\ s[k + 1] \in Nat /\ t[k + 1] \in Nat
    <3>1. Sums[s] \in [0 .. n -> Nat] /\ Sums[t] \in [0 .. n -> Nat]
      BY SumsFacts
    <3>2. s[k + 1] \in Nat /\ t[k + 1] \in Nat
      BY <2>1, ElementOfSeq
    <3> HIDE DEF n
    <3> QED
      BY <2>1, <3>1, <3>2
  <2>3. Sums[s][k + 1] = x + s[k + 1] /\ Sums[t][k + 1] = y + t[k + 1]
    BY <2>1, SumsFacts
  <2>4. c * x + b * k <= d * y + a * k
    BY <1>3
  <2>5. c * s[k + 1] + b <= d * t[k + 1] + a
    BY <2>1
  <2> HIDE DEF x, y
  <2>6. ASSUME NEW u \in Nat, NEW v \in Nat, c * u + b <= d * v + a
        PROVE  c * (x + u) + b * (k + 1) <= d * (y + v) + a * (k + 1)
    BY <2>2, <2>4, <2>6
  <2> QED
    BY <2>2, <2>3, <2>5, <2>6
<1> HIDE DEF P
<1>4. Nat \subseteq P
  BY <1>2, <1>3, NatSetInduction
<1>5. n \in P
  BY <1>1, <1>4
<1> QED
  BY <1>1, <1>5, SumsFacts DEF P

\* A sum of positive numbers one of which is at least two.
LEMMA SumOfMore ==
    ASSUME NEW s \in Seq(Nat), \A k \in 1 .. Len(s) : s[k] >= 1,
           NEW j \in 1 .. Len(s), s[j] >= 2
    PROVE  SumOf(s) > Len(s)
<1> DEFINE n == Len(s)
           P == { k \in Nat : k <= n => Sums[s][k] >= k + (IF k >= j THEN 1 ELSE 0) }
<1>1. n \in Nat
  OBVIOUS
<1>2. 0 \in P
  <2>1. Sums[s][0] = 0
    BY SumsFacts
  <2> QED
    BY <2>1
<1>3. ASSUME NEW k \in Nat, k \in P PROVE k + 1 \in P
  <2> SUFFICES ASSUME k + 1 <= n
               PROVE  Sums[s][k + 1] >= (k + 1) + (IF k + 1 >= j THEN 1 ELSE 0)
    OBVIOUS
  <2>1. k + 1 \in 1 .. n /\ (k + 1) - 1 = k /\ k \in 0 .. n
    OBVIOUS
  <2>2. Sums[s][k] \in Nat /\ s[k + 1] \in Nat /\ Sums[s][k + 1] = Sums[s][k] + s[k + 1]
    <3>1. Sums[s] \in [0 .. n -> Nat] /\ Sums[s][k + 1] = Sums[s][(k + 1) - 1] + s[k + 1]
      BY <2>1, SumsFacts
    <3>2. s[k + 1] \in Nat
      BY <2>1, ElementOfSeq
    <3> HIDE DEF n
    <3> QED
      BY <2>1, <3>1, <3>2
  <2>3. Sums[s][k] >= k + (IF k >= j THEN 1 ELSE 0) /\ s[k + 1] >= 1
    BY <1>3, <2>1
  <2> QED
    BY <2>1, <2>2, <2>3
<1> HIDE DEF P
<1>4. n \in P
  BY <1>1, <1>2, <1>3, NatSetInduction
<1>5. SumOf(s) >= n + 1 /\ SumOf(s) \in Nat
  BY <1>1, <1>4, SumsFacts DEF P
<1> QED
  BY <1>1, <1>5

-----------------------------------------------------------------------------
(* Rounding up. *)

\* What the provers have to be told about products.
LEMMA Times ==
    ASSUME NEW c \in Nat, NEW a \in Nat, NEW b \in Nat, a <= b
    PROVE  c * a <= c * b /\ c * a \in Nat /\ c * b \in Nat
<1>1. PICK d \in Nat : b = a + d
  <2>1. b - a \in Nat /\ b = a + (b - a)
    OBVIOUS
  <2> QED
    BY <2>1
<1>2. c * b = c * a + c * d /\ c * d \in Nat /\ c * a \in Nat
  BY <1>1
<1> DEFINE x == c * a  y == c * d  z == c * b
<1>3. z = x + y /\ x \in Nat /\ y \in Nat
  BY <1>2
<1> HIDE DEF x, y, z
<1>4. x <= z /\ z \in Nat
  BY <1>3
<1> QED
  BY <1>3, <1>4 DEF x, z

\* What a quotient rounded up is.
LEMMA CeilingFacts ==
    ASSUME NEW a \in Nat, NEW b \in Nat \ {0}
    PROVE  /\ Ceiling(a, b) \in Nat
           /\ a <= b * Ceiling(a, b)
           /\ b * Ceiling(a, b) + 1 <= a + b
<1> DEFINE m == a + b - 1
<1>1. m \in Nat
  OBVIOUS
<1> HIDE DEF m
<1>2. m \div b \in Nat /\ b * (m \div b) <= m /\ m < b * (m \div b) + b
  BY <1>1
<1>3. Ceiling(a, b) = m \div b
  BY DEF Ceiling, m
<1>4. m = a + b - 1
  BY DEF m
<1> DEFINE q == m \div b  p == b * q
<1>5. q \in Nat /\ p \in Nat /\ p <= m /\ m < p + b
  BY <1>2
<1> HIDE DEF q, p
<1>6. a <= p /\ p + 1 <= a + b
  BY <1>4, <1>5
<1> QED
  BY <1>3, <1>5, <1>6 DEF q, p

\* It is the least number of parts that are enough.
LEMMA CeilingIsLeast ==
    ASSUME NEW a \in Nat, NEW b \in Nat \ {0}, NEW q \in Nat
    PROVE  Ceiling(a, b) <= q <=> a <= b * q
<1> DEFINE c == Ceiling(a, b)
<1>1. c \in Nat /\ a <= b * c /\ b * c + 1 <= a + b
  BY CeilingFacts
<1> HIDE DEF c
<1>2. ASSUME c <= q PROVE a <= b * q
  <2>1. b * c <= b * q
    BY <1>1, <1>2
  <2> QED
    BY <1>1, <2>1
<1>3. ASSUME a <= b * q, ~(c <= q) PROVE FALSE
  <2>1. q + 1 <= c
    BY <1>1, <1>3
  <2>2. b * (q + 1) <= b * c
    BY <1>1, <2>1
  <2>3. b * (q + 1) = b * q + b
    OBVIOUS
  <2> QED
    BY <1>1, <1>3, <2>2, <2>3
<1> QED
  BY <1>2, <1>3 DEF c

\* Rounding up to quarters and then to blocks of quarters is rounding up once.
LEMMA CeilingTwice ==
    ASSUME NEW a \in Nat, NEW q \in Nat \ {0}
    PROVE  Ceiling(Ceiling(a, 4), q) = Ceiling(a, 4 * q)
<1> DEFINE x == Ceiling(a, 4)  y == Ceiling(x, q)  z == Ceiling(a, 4 * q)
<1>1. x \in Nat
  BY CeilingFacts
<1>2. y \in Nat
  BY <1>1, CeilingFacts
<1>3. 4 * q \in Nat \ {0}
  OBVIOUS
<1>4. z \in Nat
  BY <1>3, CeilingFacts
<1>5. \A w \in Nat : y <= w <=> z <= w
  <2> TAKE w \in Nat
  <2>1. q * w \in Nat /\ 4 * (q * w) = (4 * q) * w
    OBVIOUS
  <2>2. y <= w <=> x <= q * w
    BY <1>1, CeilingIsLeast
  <2>3. x <= q * w <=> a <= 4 * (q * w)
    BY <2>1, CeilingIsLeast
  <2>4. z <= w <=> a <= (4 * q) * w
    BY <1>3, CeilingIsLeast
  <2> QED
    BY <2>1, <2>2, <2>3, <2>4
<1> HIDE DEF x, y, z
<1>6. y = z
  BY <1>2, <1>4, <1>5
<1> QED
  BY <1>6 DEF x, y, z

-----------------------------------------------------------------------------
(* The search for the block size. *)

\* The blocks that each file makes at a block size.
Rounded(q) == [k \in DOMAIN sizes |-> Ceiling(sizes[k], q)]

\* The sizes in blocks of q.
LEMMA RoundedFacts ==
    ASSUME sizes \in Seq(Nat), NEW q \in Nat \ {0}
    PROVE  /\ Rounded(q) \in Seq(Nat) /\ Len(Rounded(q)) = NumFiles
           /\ \A k \in 1 .. NumFiles : Rounded(q)[k] = Ceiling(sizes[k], q)
           /\ BlocksAt(q) = SumOf(Rounded(q)) /\ BlocksAt(q) \in Nat
<1>1. \A k \in 1 .. Len(sizes) : Ceiling(sizes[k], q) \in Nat
  BY ElementOfSeq, CeilingFacts
<1>2. DOMAIN sizes = 1 .. Len(sizes) /\ Len(sizes) \in Nat
  OBVIOUS
<1>3. Rounded(q) \in [1 .. Len(sizes) -> Nat]
  BY <1>1, <1>2 DEF Rounded
<1>4. Rounded(q) \in Seq(Nat) /\ Len(Rounded(q)) = Len(sizes)
  BY <1>2, <1>3
<1>5. \A k \in 1 .. Len(sizes) : Rounded(q)[k] = Ceiling(sizes[k], q)
  BY <1>2 DEF Rounded
<1>6. BlocksAt(q) = SumOf(Rounded(q))
  BY DEF BlocksAt, Rounded
<1> QED
  BY <1>4, <1>5, <1>6, SumsFacts DEF NumFiles

\* Blocks of q quarters: what they hold, and what is lost at the files' ends.
LEMMA CountForFacts ==
    ASSUME sizes \in Seq(Nat), NEW q \in Nat \ {0}
    PROVE  /\ CountFor(q) \in Nat /\ Quarters \in Nat /\ NumFiles \in Nat
           /\ CountFor(q) = BlocksAt(4 * q) /\ Quarters = BlocksAt(4)
           /\ Quarters <= q * CountFor(q)
           /\ q * CountFor(q) + NumFiles <= Quarters + q * NumFiles
<1> DEFINE n == NumFiles  s == Rounded(4)  t == Rounded(4 * q)
<1>1. n \in Nat /\ 4 * q \in Nat \ {0} /\ 4 \in Nat \ {0}
  BY DEF NumFiles
<1>2. /\ s \in Seq(Nat) /\ Len(s) = n
      /\ t \in Seq(Nat) /\ Len(t) = n
      /\ BlocksAt(4) = SumOf(s) /\ BlocksAt(4 * q) = SumOf(t)
  BY <1>1, RoundedFacts
<1>3. \A k \in 1 .. n : /\ s[k] \in Nat /\ t[k] \in Nat
                        /\ s[k] <= q * t[k] /\ q * t[k] + 1 <= s[k] + q
  <2> TAKE k \in 1 .. n
  <2>1. sizes[k] \in Nat
    BY ElementOfSeq DEF NumFiles
  <2>2. s[k] = Ceiling(sizes[k], 4)
    BY <1>1, RoundedFacts
  <2>3. t[k] = Ceiling(sizes[k], 4 * q)
    BY <1>1, RoundedFacts
  <2>4. s[k] \in Nat
    BY <1>1, <2>1, <2>2, CeilingFacts
  <2>5. t[k] = Ceiling(s[k], q)
    BY <2>1, <2>2, <2>3, CeilingTwice
  <2> QED
    BY <2>4, <2>5, CeilingFacts
<1>4. Quarters = SumOf(s)
  BY DEF Quarters, Rounded
<1>5. CountFor(q) = SumOf(t)
  <2>1. [k \in DOMAIN sizes |-> Ceiling(Ceiling(sizes[k], 4), q)] = t
    <3>1. \A k \in DOMAIN sizes : Ceiling(Ceiling(sizes[k], 4), q) = Ceiling(sizes[k], 4 * q)
      BY CeilingTwice, ElementOfSeq
    <3> QED
      BY <3>1 DEF Rounded
  <2> QED
    BY <2>1 DEF CountFor
<1> HIDE DEF n, s, t
<1>6. SumOf(s) \in Nat /\ SumOf(t) \in Nat
  BY <1>2, SumsFacts
<1>7. 1 * SumOf(s) + 0 * n <= q * SumOf(t) + 0 * n
  <2>1. \A k \in 1 .. n : 1 * s[k] + 0 <= q * t[k] + 0
    BY <1>3
  <2> QED
    BY <1>2, <2>1, SumBound
<1>8. q * SumOf(t) + 1 * n <= 1 * SumOf(s) + q * n
  <2>1. \A k \in 1 .. n : q * t[k] + 1 <= 1 * s[k] + q
    BY <1>3
  <2> QED
    BY <1>2, <2>1, SumBound
<1> DEFINE a == SumOf(s)  b == SumOf(t)
<1>9. a <= q * b /\ q * b + n <= a + q * n
  <2>1. a \in Nat /\ b \in Nat /\ 1 * a + 0 * n <= q * b + 0 * n /\ q * b + 1 * n <= 1 * a + q * n
    BY <1>6, <1>7, <1>8
  <2> HIDE DEF a, b
  <2> QED
    BY <1>1, <2>1
<1> QED
  BY <1>1, <1>2, <1>4, <1>5, <1>6, <1>9 DEF n

\* The largest file is one of them, and none is larger.
LEMMA LargestFacts ==
    ASSUME sizes \in Seq(Nat), sizes # << >>
    PROVE  /\ Largest \in Nat
           /\ \E k \in 1 .. NumFiles : sizes[k] = Largest
           /\ \A k \in 1 .. NumFiles : sizes[k] <= Largest
<1> DEFINE S == { sizes[k] : k \in DOMAIN sizes }
<1>1. DOMAIN sizes = 1 .. NumFiles /\ NumFiles \in Nat \ {0}
  BY DEF NumFiles
<1>2. \A k \in 1 .. NumFiles : sizes[k] \in Nat
  BY ElementOfSeq DEF NumFiles
<1>3. S \in SUBSET Nat /\ S # {}
  BY <1>1, <1>2
<1>4. \E x \in S : \A y \in S : x >= y
  <2> DEFINE P == { m \in Nat : m + 1 <= NumFiles =>
                      \E x \in 1 .. m + 1 : \A y \in 1 .. m + 1 : sizes[x] >= sizes[y] }
  <2>1. 0 \in P
    BY <1>2
  <2>2. ASSUME NEW m \in Nat, m \in P PROVE m + 1 \in P
    <3> SUFFICES ASSUME m + 2 <= NumFiles
                 PROVE  \E x \in 1 .. m + 2 : \A y \in 1 .. m + 2 : sizes[x] >= sizes[y]
      BY <1>1
    <3>1. PICK x \in 1 .. m + 1 : \A y \in 1 .. m + 1 : sizes[x] >= sizes[y]
      BY <1>1, <2>2
    <3>2. /\ m + 2 \in 1 .. m + 2 /\ x \in 1 .. m + 2
          /\ sizes[x] \in Nat /\ sizes[m + 2] \in Nat
          /\ \A y \in 1 .. m + 2 : sizes[y] \in Nat /\ (y \in 1 .. m + 1 \/ y = m + 2)
      BY <1>1, <1>2
    <3>3. CASE sizes[x] >= sizes[m + 2]
      BY <3>1, <3>2, <3>3
    <3>4. CASE sizes[m + 2] >= sizes[x]
      <4>1. \A y \in 1 .. m + 2 : sizes[m + 2] >= sizes[y]
        BY <3>1, <3>2, <3>4
      <4> QED
        BY <3>2, <4>1
    <3>5. sizes[x] >= sizes[m + 2] \/ sizes[m + 2] >= sizes[x]
      <4> DEFINE a == sizes[x]  b == sizes[m + 2]
      <4>1. a \in Nat /\ b \in Nat
        BY <3>2
      <4> HIDE DEF a, b
      <4>2. a >= b \/ b >= a
        BY <4>1
      <4> QED
        BY <4>2 DEF a, b
    <3> QED
      BY <3>3, <3>4, <3>5
  <2> HIDE DEF P
  <2>3. NumFiles - 1 \in P
    <3>1. Nat \subseteq P
      BY <2>1, <2>2, NatSetInduction
    <3> QED
      BY <1>1, <3>1
  <2>4. \E x \in 1 .. NumFiles : \A y \in 1 .. NumFiles : sizes[x] >= sizes[y]
    BY <1>1, <2>3 DEF P
  <2> QED
    BY <1>1, <2>4
<1>5. Largest = CHOOSE x \in S : \A y \in S : x >= y
  BY DEF Largest, Max
<1>6. Largest \in S /\ \A y \in S : Largest >= y
  <2> HIDE DEF S
  <2> QED
    BY <1>4, <1>5
<1> QED
  BY <1>1, <1>2, <1>3, <1>6

\* What BestSize says of a block size r found for files of sizes s and the
\* number b of blocks.
BlocksIn(s, q) == SumOf([k \in DOMAIN s |-> Ceiling(s[k], q)])
Best(s, b, r) ==
    /\ r % 4 = 0
    /\ \/ r = 0 /\ \A k \in DOMAIN s : s[k] = 0
       \/ r > 0 /\ BlocksIn(s, r) <= b
    /\ (r > 4 /\ (b > Len(s) \/ \A k \in DOMAIN s : s[k] > 0)) => BlocksIn(s, r - 4) > b

\* While the search goes on the answer is from lo to up; these are quarters.
Between(s, b, lo, up) ==
    /\ b > Len(s) /\ b <= BlocksIn(s, 4)
    /\ lo > 0 /\ lo <= up
    /\ BlocksIn(s, 4 * up) <= b
    /\ lo = 1 \/ BlocksIn(s, 4 * (lo - 1)) > b

\* The inductive invariant of the search: the answer is always between its bounds.
SearchInv ==
    /\ sizes \in Seq(Nat) /\ blockCount \in Nat
    /\ search \in {"start", "search", "found", "error"}
    /\ lower \in Nat /\ upper \in Nat /\ size \in Nat /\ count \in Nat /\ result \in Nat
    /\ search = "search" => /\ Between(sizes, blockCount, lower, upper)
                            /\ lower = upper => /\ size = upper
                                                /\ count = BlocksIn(sizes, 4 * upper)
    /\ search = "found" => Best(sizes, blockCount, result)
    /\ search = "error" => blockCount < Len(sizes) \/ blockCount > MaxBlocks

\* The same in the words of the properties.
LEMMA SearchInvMeans == SearchInv => BestSize /\ NoErrorIfEnough
  BY DEF SearchInv, BestSize, NoErrorIfEnough, Best, BlocksIn, BlocksAt, NumFiles

\* Every file has its number of blocks, which add up.
LEMMA BlocksInFacts ==
    ASSUME sizes \in Seq(Nat), NEW q \in Nat \ {0}
    PROVE  /\ CountFor(q) = BlocksIn(sizes, 4 * q) /\ CountFor(q) \in Nat
           /\ BlocksIn(sizes, 4) \in Nat /\ Quarters = BlocksIn(sizes, 4)
           /\ Quarters <= q * CountFor(q)
           /\ q * CountFor(q) + Len(sizes) <= Quarters + q * Len(sizes)
           /\ Len(sizes) \in Nat
  BY CountForFacts DEF BlocksAt, BlocksIn, NumFiles

\* With a block per file the largest file decides.
LEMMA OnePerFileIsBest ==
    ASSUME sizes \in Seq(Nat), sizes # << >>
    PROVE  /\ Ceiling(Largest, 4) * 4 \in Nat
           /\ Best(sizes, Len(sizes), Ceiling(Largest, 4) * 4)
<1> DEFINE n == Len(sizes)  x == Ceiling(Largest, 4)  r == x * 4
<1>1. n \in Nat /\ DOMAIN sizes = 1 .. n /\ \A k \in 1 .. n : sizes[k] \in Nat
  BY ElementOfSeq
<1>2. PICK top \in 1 .. n : Largest \in Nat /\ sizes[top] = Largest
  BY LargestFacts DEF NumFiles
<1>3. \A k \in 1 .. n : sizes[k] <= Largest
  BY LargestFacts DEF NumFiles
<1>4. x \in Nat /\ Largest <= 4 * x /\ 4 * x + 1 <= Largest + 4
  <2>1. 4 \in Nat \ {0}
    OBVIOUS
  <2> QED
    BY <1>2, <2>1, CeilingFacts
<1> HIDE DEF n, x
<1>5. r \in Nat /\ r % 4 = 0 /\ Largest <= r /\ r < Largest + 4
  BY <1>2, <1>4
<1> HIDE DEF r
<1>6. ASSUME NEW q \in Nat \ {0}
      PROVE  /\ Rounded(q) \in Seq(Nat) /\ Len(Rounded(q)) = n
             /\ \A k \in 1 .. n : Rounded(q)[k] = Ceiling(sizes[k], q) /\ Rounded(q)[k] \in Nat
             /\ BlocksIn(sizes, q) = SumOf(Rounded(q)) /\ BlocksIn(sizes, q) \in Nat
  <2>1. /\ Rounded(q) \in Seq(Nat) /\ Len(Rounded(q)) = n
        /\ \A k \in 1 .. n : Rounded(q)[k] = Ceiling(sizes[k], q)
        /\ BlocksIn(sizes, q) = SumOf(Rounded(q)) /\ BlocksIn(sizes, q) \in Nat
    BY RoundedFacts DEF NumFiles, BlocksIn, BlocksAt, n
  <2>2. \A k \in 1 .. n : Ceiling(sizes[k], q) \in Nat
    BY <1>1, CeilingFacts
  <2> QED
    BY <2>1, <2>2
<1>7. ASSUME r = 0 PROVE \A k \in DOMAIN sizes : sizes[k] = 0
  <2>1. Largest = 0
    BY <1>2, <1>5, <1>7
  <2>2. ASSUME NEW k \in 1 .. n PROVE sizes[k] = 0
    <3>1. sizes[k] \in Nat /\ sizes[k] <= 0
      BY <1>1, <1>3, <2>1
    <3> DEFINE a == sizes[k]
    <3> HIDE DEF a
    <3>2. a \in Nat /\ a <= 0 => a = 0
      OBVIOUS
    <3> QED
      BY <3>1, <3>2 DEF a
  <2> QED
    BY <1>1, <2>2
<1>8. ASSUME r > 0 PROVE BlocksIn(sizes, r) <= n
  <2>1. r \in Nat \ {0}
    BY <1>5, <1>8
  <2>2. ASSUME NEW k \in 1 .. n PROVE Rounded(r)[k] <= 1
    <3>1. sizes[k] \in Nat /\ sizes[k] <= r * 1
      BY <1>1, <1>2, <1>3, <1>5
    <3>2. Ceiling(sizes[k], r) <= 1
      BY <2>1, <3>1, CeilingIsLeast
    <3> QED
      BY <1>6, <2>1, <3>2
  <2> DEFINE t == Rounded(r)
  <2>3. t \in Seq(Nat) /\ Len(t) = n /\ SumOf(t) \in Nat
    BY <1>6, <2>1, SumsFacts
  <2>4. \A k \in 1 .. n : t[k] \in Nat /\ t[k] <= 1
    BY <1>6, <2>1, <2>2
  <2>5. BlocksIn(sizes, r) = SumOf(t)
    BY <1>6, <2>1
  <2> HIDE DEF t
  <2>6. \A k \in 1 .. Len(t) : 1 * t[k] + 0 <= 0 * t[k] + 1
    BY <2>3, <2>4
  <2>7. 1 * SumOf(t) + 0 * Len(t) <= 0 * SumOf(t) + 1 * Len(t)
    BY <2>3, <2>6, SumBound
  <2> QED
    BY <1>1, <2>3, <2>5, <2>7
<1>9. ASSUME r > 4, \A k \in DOMAIN sizes : sizes[k] > 0
      PROVE  BlocksIn(sizes, r - 4) > n
  <2>1. r - 4 \in Nat \ {0}
    BY <1>5, <1>9
  <2> DEFINE q == r - 4  t == Rounded(q)
  <2> HIDE DEF q
  <2>2. t \in Seq(Nat) /\ Len(t) = n
    BY <1>6, <2>1 DEF q
  <2>3. ASSUME NEW k \in 1 .. n PROVE t[k] >= 1
    <3>1. sizes[k] \in Nat /\ sizes[k] > 0 /\ t[k] = Ceiling(sizes[k], q) /\ t[k] \in Nat
      BY <1>1, <1>6, <1>9, <2>1 DEF q
    <3>2. ~(sizes[k] <= q * 0)
      BY <2>1, <3>1 DEF q
    <3>3. ~(t[k] <= 0)
      BY <2>1, <3>1, <3>2, CeilingIsLeast DEF q
    <3> QED
      BY <3>1, <3>3
  <2>4. t[top] >= 2
    <3>1. sizes[top] \in Nat /\ t[top] = Ceiling(sizes[top], q) /\ t[top] \in Nat
      BY <1>1, <1>6, <2>1 DEF q
    <3>2. ~(sizes[top] <= q * 1)
      BY <1>2, <1>5, <2>1 DEF q
    <3>3. ~(t[top] <= 1)
      BY <2>1, <3>1, <3>2, CeilingIsLeast DEF q
    <3> QED
      BY <3>1, <3>3
  <2>5. BlocksIn(sizes, r - 4) = SumOf(t)
    BY <1>6, <2>1 DEF q
  <2> HIDE DEF t
  <2>6. SumOf(t) > Len(t)
    BY <2>2, <2>3, <2>4, SumOfMore
  <2> QED
    BY <2>2, <2>5, <2>6
<1>10. Best(sizes, n, r)
  <2>1. n > Len(sizes) \/ (\A k \in DOMAIN sizes : sizes[k] > 0)
          => \A k \in DOMAIN sizes : sizes[k] > 0
    BY <1>1 DEF n
  <2> QED
    BY <1>5, <1>7, <1>8, <1>9, <2>1 DEF Best
<1> QED
  BY <1>5, <1>10 DEF n, r, x

\* The first bounds are right.
LEMMA FirstBounds ==
    ASSUME sizes \in Seq(Nat), sizes # << >>, blockCount \in Nat,
           blockCount > NumFiles, blockCount <= Quarters
    PROVE  LET lo == Quarters \div blockCount
               up == Ceiling(Quarters, blockCount - NumFiles)
           IN  /\ lo \in Nat /\ up \in Nat /\ lo < up
               /\ Between(sizes, blockCount, lo, up)
<1> DEFINE n == Len(sizes)  Q == Quarters  b == blockCount
           lo == Q \div b  up == Ceiling(Q, b - n)
<1>1. n \in Nat \ {0} /\ NumFiles = n
  BY DEF NumFiles
<1>2. Q \in Nat /\ Q = BlocksIn(sizes, 4)
  <2>1. 1 \in Nat \ {0}
    OBVIOUS
  <2> QED
    BY <2>1, BlocksInFacts, CountForFacts
<1>3. b \in Nat /\ b > n /\ b <= Q
  BY <1>1
<1> DEFINE d == b - n
<1> HIDE DEF n, Q, b
<1>4. d \in Nat \ {0} /\ b = d + n
  BY <1>1, <1>3
<1>5. b \in Nat \ {0} /\ lo \in Nat /\ b * lo <= Q /\ Q < b * lo + b
  BY <1>1, <1>2, <1>3
<1> HIDE DEF d
<1>6. up \in Nat /\ Q <= d * up
  <2>1. up = Ceiling(Q, d)
    BY DEF d
  <2> QED
    BY <1>2, <1>4, <2>1, CeilingFacts
<1> HIDE DEF lo, up
<1>7. lo > 0
  <2>1. lo = 0 => b * lo = 0
    BY <1>5
  <2> QED
    BY <1>2, <1>3, <1>5, <2>1
<1>8. lo < up
  <2>1. ASSUME up <= lo PROVE FALSE
    <3>1. d * up <= d * lo
      BY <1>4, <1>5, <1>6, <2>1
    <3>2. b * lo = d * lo + n * lo
      BY <1>1, <1>4, <1>5
    <3>3. n * lo > 0
      <4>1. n >= 1 /\ lo >= 1
        BY <1>1, <1>5, <1>7
      <4>2. lo * 1 <= lo * n /\ lo * n = n * lo /\ lo * 1 = lo /\ lo * n \in Nat
        BY <1>1, <1>5, <4>1, Times
      <4> DEFINE p == n * lo
      <4>3. p \in Nat /\ lo <= p
        BY <4>2
      <4> HIDE DEF p
      <4>4. p > 0
        BY <1>5, <4>1, <4>3
      <4> QED
        BY <4>4 DEF p
    <3>4. d * lo \in Nat /\ n * lo \in Nat /\ d * up \in Nat
      BY <1>1, <1>4, <1>5, <1>6
    <3> DEFINE A == d * lo  B == n * lo  C == d * up  D == b * lo
    <3>5. A \in Nat /\ B \in Nat /\ C \in Nat /\ D \in Nat
      BY <1>5, <3>4
    <3>6. C <= A /\ D = A + B /\ B > 0 /\ D <= Q /\ Q <= C
      BY <1>5, <1>6, <3>1, <3>2, <3>3
    <3> HIDE DEF A, B, C, D
    <3> QED
      BY <1>2, <3>5, <3>6
  <2> QED
    BY <1>5, <1>6, <2>1
<1>9. BlocksIn(sizes, 4 * up) <= b
  <2> DEFINE c == CountFor(up)
  <2>1. up \in Nat \ {0}
    BY <1>5, <1>6, <1>8
  <2>2. c \in Nat /\ c = BlocksIn(sizes, 4 * up) /\ up * c + n <= Q + up * n
    BY <2>1, BlocksInFacts DEF n, Q
  <2> HIDE DEF c
  <2>3. up * b = up * d + up * n /\ up * d = d * up
    BY <1>1, <1>4, <2>1
  <2>4. up * c < up * b
    <3> DEFINE A == up * c  B == up * n  C == up * b  D == d * up
    <3>1. A \in Nat /\ B \in Nat /\ C \in Nat /\ D \in Nat
      BY <1>1, <1>4, <1>5, <1>6, <2>2
    <3>2. A + n <= Q + B /\ C = D + B /\ Q <= D
      BY <1>6, <2>2, <2>3
    <3> HIDE DEF A, B, C, D
    <3>3. A < C
      BY <1>1, <1>2, <3>1, <3>2
    <3> QED
      BY <3>3 DEF A, C
  <2>5. ASSUME b <= c PROVE FALSE
    <3>1. up * b <= up * c /\ up * b \in Nat /\ up * c \in Nat
      BY <1>5, <1>6, <2>2, <2>5, Times
    <3> QED
      BY <2>4, <3>1
  <2> QED
    BY <1>5, <2>2, <2>5
<1>10. lo = 1 \/ BlocksIn(sizes, 4 * (lo - 1)) > b
  <2> SUFFICES ASSUME lo # 1, ~(BlocksIn(sizes, 4 * (lo - 1)) > b) PROVE FALSE
    OBVIOUS
  <2> DEFINE q == lo - 1  c == CountFor(q)
  <2>1. q \in Nat \ {0} /\ lo = q + 1
    BY <1>5, <1>7
  <2> HIDE DEF q
  <2>2. c \in Nat /\ c = BlocksIn(sizes, 4 * q) /\ Q <= q * c
    BY <2>1, BlocksInFacts DEF Q
  <2>3. c <= b
    BY <1>5, <2>2 DEF q
  <2> HIDE DEF c
  <2>4. q * c <= q * b
    BY <1>5, <2>1, <2>2, <2>3
  <2>5. b * lo = q * b + b
    BY <1>5, <2>1
  <2> DEFINE A == q * c  B == q * b  C == b * lo
  <2>6. A \in Nat /\ B \in Nat /\ C \in Nat
    BY <1>5, <2>1, <2>2
  <2>7. C = B + b /\ C <= Q /\ Q <= A /\ A <= B
    BY <1>5, <2>2, <2>4, <2>5
  <2> HIDE DEF A, B, C
  <2> QED
    BY <1>2, <1>5, <2>6, <2>7
<1>11. Between(sizes, b, lo, up)
  BY <1>2, <1>3, <1>5, <1>6, <1>7, <1>8, <1>9, <1>10 DEF Between, n
<1> QED
  BY <1>1, <1>5, <1>6, <1>8, <1>11 DEF lo, up, b, Q

\* A step of the bisection.
LEMMA Bisection ==
    ASSUME sizes \in Seq(Nat), NEW b \in Nat, NEW lo \in Nat, NEW up \in Nat,
           Between(sizes, b, lo, up), lo < up
    PROVE  LET mid == (lo + up) \div 2
           IN  /\ mid \in Nat /\ mid > 0 /\ mid < up /\ lo <= mid
               /\ CountFor(mid) \in Nat /\ CountFor(mid) = BlocksIn(sizes, 4 * mid)
               /\ CountFor(mid) > b => Between(sizes, b, mid + 1, up)
               /\ CountFor(mid) <= b => Between(sizes, b, lo, mid)
<1> DEFINE mid == (lo + up) \div 2
<1>1. lo > 0 /\ mid \in Nat \ {0} /\ mid < up /\ lo <= mid
  BY DEF Between
<1> HIDE DEF mid
<1>2. CountFor(mid) \in Nat /\ CountFor(mid) = BlocksIn(sizes, 4 * mid)
  BY <1>1, BlocksInFacts
<1>3. CountFor(mid) <= b => Between(sizes, b, lo, mid)
  BY <1>1, <1>2 DEF Between
<1>4. ASSUME CountFor(mid) > b PROVE Between(sizes, b, mid + 1, up)
  <2>1. (mid + 1) - 1 = mid /\ mid + 1 > 0 /\ mid + 1 <= up
    BY <1>1
  <2>2. BlocksIn(sizes, 4 * ((mid + 1) - 1)) > b
    BY <1>2, <1>4, <2>1
  <2> QED
    BY <2>1, <2>2 DEF Between
<1> QED
  BY <1>1, <1>2, <1>3, <1>4 DEF mid

\* The search keeps to it, and what it ends with is the best.
LEMMA SearchKeeps ==
    ASSUME SearchInv, sizes # << >>, SearchStep
    PROVE  SearchInv'
<1> USE BlockSizeAssumption
<1>1. /\ sizes \in Seq(Nat) /\ blockCount \in Nat
      /\ sizes' = sizes /\ blockCount' = blockCount
      /\ NumFiles = Len(sizes) /\ Len(sizes) \in Nat \ {0}
      /\ lower \in Nat /\ upper \in Nat /\ size \in Nat /\ count \in Nat /\ result \in Nat
  BY DEF SearchInv, NumFiles, SearchStep, TooFew, OnePerFile, Smallest, Bounds, TooSmall,
     BigEnough, SearchEnds
<1>2. CASE TooFew
  BY <1>1, <1>2 DEF TooFew, SearchInv
<1>3. CASE OnePerFile
  <2>1. /\ blockCount = Len(sizes) /\ search' = "found"
        /\ result' = Ceiling(Largest, 4) * 4
        /\ UNCHANGED <<lower, upper, size, count>>
    BY <1>1, <1>3 DEF OnePerFile, Give
  <2>2. result' \in Nat /\ Best(sizes, blockCount, result')
    BY <1>1, <2>1, OnePerFileIsBest
  <2> QED
    BY <1>1, <2>1, <2>2 DEF SearchInv
<1>4. CASE Smallest
  <2>1. /\ blockCount > Quarters /\ search' = "found" /\ result' = 4
        /\ UNCHANGED <<lower, upper, size, count>>
    BY <1>4 DEF Smallest, Give
  <2>2. Quarters \in Nat /\ Quarters = BlocksIn(sizes, 4)
    <3>1. 1 \in Nat \ {0}
      OBVIOUS
    <3> QED
      BY <1>1, <3>1, BlocksInFacts, CountForFacts
  <2>3. Best(sizes, blockCount, 4)
    BY <1>1, <2>1, <2>2 DEF Best
  <2> QED
    BY <1>1, <2>1, <2>3 DEF SearchInv
<1>5. CASE Bounds
  <2>1. /\ blockCount > NumFiles /\ blockCount <= Quarters /\ search' = "search"
        /\ lower' = Quarters \div blockCount
        /\ upper' = Ceiling(Quarters, blockCount - NumFiles)
        /\ UNCHANGED <<size, count, result>>
    BY <1>5 DEF Bounds
  <2>2. /\ lower' \in Nat /\ upper' \in Nat /\ lower' < upper'
        /\ Between(sizes, blockCount, lower', upper')
    BY <1>1, <2>1, FirstBounds
  <2>3. lower' # upper'
    BY <2>2
  <2> QED
    BY <1>1, <2>1, <2>2, <2>3 DEF SearchInv
<1>6. CASE TooSmall
  <2> DEFINE mid == (lower + upper) \div 2
  <2>1. /\ search = "search" /\ search' = "search" /\ lower < upper
        /\ CountFor(mid) > blockCount
        /\ lower' = mid + 1 /\ upper' = upper /\ result' = result
        /\ size' = IF mid + 1 >= upper THEN mid + 1 ELSE mid
        /\ count' = CountFor(size')
    BY <1>6 DEF TooSmall
  <2>2. /\ mid \in Nat /\ mid > 0 /\ mid < upper
        /\ Between(sizes, blockCount, mid + 1, upper)
    BY <1>1, <2>1, Bisection DEF SearchInv
  <2> HIDE DEF mid
  <2>3. size' \in Nat \ {0}
    BY <2>1, <2>2
  <2>4. count' \in Nat /\ count' = BlocksIn(sizes, 4 * size')
    BY <1>1, <2>1, <2>3, BlocksInFacts
  <2>5. lower' \in Nat /\ (lower' = upper' => size' = upper')
    BY <1>1, <2>1, <2>2
  <2>6. Between(sizes, blockCount, lower', upper')
    BY <2>1, <2>2
  <2> QED
    BY <1>1, <2>1, <2>3, <2>4, <2>5, <2>6 DEF SearchInv
<1>7. CASE BigEnough
  <2> DEFINE mid == (lower + upper) \div 2
  <2>1. /\ search = "search" /\ search' = "search" /\ lower < upper
        /\ CountFor(mid) <= blockCount
        /\ lower' = lower /\ upper' = mid /\ result' = result
        /\ size' = mid /\ count' = CountFor(mid)
    BY <1>7 DEF BigEnough
  <2>2. /\ mid \in Nat /\ CountFor(mid) \in Nat /\ CountFor(mid) = BlocksIn(sizes, 4 * mid)
        /\ Between(sizes, blockCount, lower, mid)
    BY <1>1, <2>1, Bisection DEF SearchInv
  <2> HIDE DEF mid
  <2>3. Between(sizes, blockCount, lower', upper') /\ count' = BlocksIn(sizes, 4 * upper')
    BY <2>1, <2>2
  <2> QED
    BY <1>1, <2>1, <2>2, <2>3 DEF SearchInv
<1>8. CASE SearchEnds
  <2>1. /\ search = "search" /\ lower >= upper
        /\ UNCHANGED <<lower, upper, size, count>>
        /\ \/ (count = 0 \/ count > MaxBlocks) /\ search' = "error" /\ result' = result
           \/ search' = "found" /\ result' = size * 4
    BY <1>8 DEF SearchEnds, Give
  <2>2. /\ Between(sizes, blockCount, upper, upper) /\ upper > 0
        /\ size = upper /\ count = BlocksIn(sizes, 4 * upper) /\ count <= blockCount
    <3>1. Between(sizes, blockCount, lower, upper) /\ lower <= upper
      BY <2>1 DEF SearchInv, Between
    <3>2. lower = upper
      BY <1>1, <2>1, <3>1
    <3> QED
      BY <2>1, <3>1, <3>2 DEF SearchInv, Between
  <2>3. CASE search' = "error"
    <3>1. count # 0
      <4>1. upper \in Nat \ {0}
        BY <1>1, <2>2
      <4>2. Quarters <= upper * count /\ Quarters \in Nat /\ Quarters = BlocksIn(sizes, 4)
        BY <1>1, <2>2, <4>1, BlocksInFacts
      <4>3. Quarters > 0
        BY <1>1, <2>2, <4>2 DEF Between
      <4> QED
        BY <4>1, <4>2, <4>3
    <3>2. blockCount > MaxBlocks
      BY <1>1, <2>1, <2>2, <2>3, <3>1
    <3>3. result' = result
      BY <2>1, <2>3
    <3> QED
      BY <1>1, <2>1, <2>3, <3>2, <3>3 DEF SearchInv
  <2>4. CASE search' = "found" /\ result' = size * 4
    <3>1. result' = 4 * upper /\ result' \in Nat /\ result' % 4 = 0 /\ result' > 0
      BY <1>1, <2>2, <2>4
    <3>2. BlocksIn(sizes, result') <= blockCount
      BY <2>2, <3>1 DEF Between
    <3>3. ASSUME result' > 4 PROVE BlocksIn(sizes, result' - 4) > blockCount
      <4>1. upper # 1 /\ result' - 4 = 4 * (upper - 1)
        BY <1>1, <3>1, <3>3
      <4> QED
        BY <2>2, <4>1 DEF Between
    <3>4. Best(sizes, blockCount, result')
      BY <3>1, <3>2, <3>3 DEF Best
    <3> QED
      BY <1>1, <2>1, <2>4, <3>1, <3>4 DEF SearchInv
  <2> QED
    BY <2>1, <2>3, <2>4
<1> QED
  BY <1>2, <1>3, <1>4, <1>5, <1>6, <1>7, <1>8 DEF SearchStep

-----------------------------------------------------------------------------
(* The powers of two. *)

\* What their recursion makes of them.
LEMMA PowerFacts ==
    /\ Power \in [Nat -> Nat \ {0}] /\ Power[0] = 1
    /\ \A k \in Nat \ {0} : Power[k] = 2 * Power[k - 1]
    /\ \A k \in Nat : k < Power[k]
<1> DEFINE F == [p \in Nat \X Nat |-> 2 * p[2]]
<1>1. F \in StepOn(Nat) /\ \A k, x \in Nat : F[<<k, x>>] = 2 * x
  BY DEF StepOn
<1> HIDE DEF F
<1>2. PICK g : DefinedBy(Nat, 1, F, g)
  <2>1. 1 \in Nat
    OBVIOUS
  <2> QED
    BY <1>1, <2>1, Recursion
<1>3. g = [k \in Nat |-> IF k = 0 THEN 1 ELSE 2 * g[k - 1]]
  BY <1>1, <1>2 DEF DefinedBy
<1>4. Power = [k \in Nat |-> IF k = 0 THEN 1 ELSE 2 * Power[k - 1]]
  BY <1>3 DEF Power
<1> DEFINE P == { k \in Nat : Power[k] \in Nat /\ k < Power[k] }
<1>5. 0 \in P
  BY <1>4
<1>6. ASSUME NEW k \in Nat, k \in P PROVE k + 1 \in P
  <2>1. Power[k + 1] = 2 * Power[k]
    BY <1>4
  <2> QED
    BY <1>6, <2>1
<1> HIDE DEF P
<1>7. Nat \subseteq P
  BY <1>5, <1>6, NatSetInduction
<1>8. \A k \in Nat : Power[k] \in Nat /\ k < Power[k]
  BY <1>7 DEF P
<1> QED
  BY <1>4, <1>8

\* The counts' width makes a cut count less than a power of two.
LEMMA CutFacts == ASSUME NEW n \in Nat PROVE Cut(n) \in Nat /\ Cut(n) <= n
<1> DEFINE w == Power[CountBits]
<1>1. w \in Nat \ {0}
  BY PowerFacts, CreateAssumption
<1> HIDE DEF w
<1>2. n % w \in Nat /\ n % w <= n
  BY <1>1
<1> QED
  BY <1>2 DEF Cut, w

\* What the width makes of the numbers is a number.
LEMMA WidthType == Power[CountBits] \in Nat \ {0}
  BY PowerFacts, CreateAssumption

\* A number that fits stays as it is.
LEMMA CutFits == ASSUME NEW n \in Nat, n < Power[CountBits] PROVE Cut(n) = n
<1> DEFINE w == Power[CountBits]
<1>1. w \in Nat \ {0} /\ n < w
  BY PowerFacts, CreateAssumption
<1> HIDE DEF w
<1>2. n % w = n
  BY <1>1
<1> QED
  BY <1>2 DEF Cut, w

-----------------------------------------------------------------------------
(* The command line and what comes of it. *)

\* What the options may have made of the defaults.
Config == [given : SUBSET Letters, blockCount : Nat, blockSize : Nat,
           redundancy : Nat, redundancySize : Nat, recoveryBlocks : Nat,
           first : Nat, files : Nat, scheme : {"variable", "uniform", "limited"},
           names : Seq(Argument), archive : Seq(Argument)]

\* The types of what is read and asked for, and that nothing is created before
\* the sizes are known.
LineInv ==
    /\ line \in Seq(Argument) /\ disk \in Seq(Nat)
    /\ i \in Nat \ {0} /\ config \in Config
    /\ request \in Request
    /\ pc \in {"args", "size", "plan", "encode", "volumes"} \cup Exits
    /\ pc = "args" => search = "start"
    /\ pc \in {"size", "plan", "encode", "volumes", "done"} => sizes # << >>

\* So it begins.
LEMMA InitLine == Init => LineInv /\ SearchInv
<1> SUFFICES ASSUME Init PROVE LineInv /\ SearchInv
  OBVIOUS
<1>1. line \in Seq(Argument) /\ disk \in Seq(Nat)
  BY CommandLineAssumption DEF Init
<1>2. config \in Config
  BY CommandLineAssumption DEF Init, DefaultConfig, Config
<1>3. request \in Request /\ SearchInv
  BY DEF Init, CreateInit, SearchInit, Request, Amount, SearchInv
<1> QED
  BY <1>1, <1>2, <1>3 DEF Init, CreateInit, SearchInit, LineInv, Exits

\* The options put numbers where numbers belong.
LEMMA OptionLine ==
    ASSUME LineInv, Option
    PROVE  /\ config' \in Config /\ i' \in Nat \ {0}
           /\ UNCHANGED <<line, disk, vars>>
<1>1. Reading /\ line[i] \in Argument /\ Value \in Nat
  <2>1. Reading
    BY DEF Option, BlockCountOption, BlockSizeOption, RedundancyOption, RedundancySizeOption,
       RecoveryCountOption, FirstBlockOption, UniformOption, LimitedOption, FilesOption,
       ArchiveOption, FlagOption, OtherOption, At
  <2>2. i \in 1 .. Len(line)
    BY <2>1 DEF LineInv, Reading
  <2>3. line[i] \in Argument
    BY <2>2, ElementOfSeq DEF LineInv
  <2> QED
    BY <2>1, <2>3 DEF Value, Argument
<1>2. /\ i' = i + 1 /\ UNCHANGED <<line, disk, vars>>
  BY DEF Option, BlockCountOption, BlockSizeOption, RedundancyOption, RedundancySizeOption,
     RecoveryCountOption, FirstBlockOption, UniformOption, LimitedOption, FilesOption,
     ArchiveOption, FlagOption, OtherOption, Set
<1>3. config \in Config /\ Cut(Value) \in Nat
  BY <1>1, CutFacts DEF LineInv
<1> DEFINE n == Value  cut == Cut(Value)
<1>4. n \in Nat /\ cut \in Nat
  BY <1>1, <1>3
<1>5. \A letter \in Letters : With(letter) \in SUBSET Letters
  BY <1>3 DEF With, Config
<1>6. ASSUME BlockCountOption \/ BlockSizeOption PROVE config' \in Config
  <2>1. "s" \in Letters
    BY DEF Letters
  <2>2. \/ config' = [config EXCEPT !.blockCount = n]
        \/ config' = [config EXCEPT !.blockSize = n, !.given = With("s")]
    BY <1>6 DEF BlockCountOption, BlockSizeOption, Set
  <2> HIDE DEF n
  <2> QED
    BY <1>3, <1>4, <1>5, <2>1, <2>2 DEF Config
<1>7. ASSUME RedundancyOption \/ RedundancySizeOption PROVE config' \in Config
  <2>1. "r" \in Letters
    BY DEF Letters
  <2> DEFINE g == With("r")
  <2>2. \/ config' = [config EXCEPT !.redundancy = n, !.given = g]
        \/ config' = [config EXCEPT !.redundancySize = n, !.redundancy = 0, !.given = g]
    BY <1>7 DEF RedundancyOption, RedundancySizeOption, Set
  <2>3. g \in SUBSET Letters
    BY <1>5, <2>1
  <2> HIDE DEF n, g
  <2>4. CASE config' = [config EXCEPT !.redundancy = n, !.given = g]
    BY <1>3, <1>4, <2>3, <2>4 DEF Config
  <2>5. CASE config' = [config EXCEPT !.redundancySize = n, !.redundancy = 0, !.given = g]
    BY <1>3, <1>4, <2>3, <2>5 DEF Config
  <2> QED
    BY <2>2, <2>4, <2>5
<1>8. ASSUME RecoveryCountOption \/ FirstBlockOption \/ UniformOption \/ LimitedOption
             \/ FilesOption
      PROVE  config' \in Config
  <2>1. "c" \in Letters
    BY DEF Letters
  <2>2. \/ config' = [config EXCEPT !.recoveryBlocks = n, !.given = With("c")]
        \/ config' = [config EXCEPT !.first = cut]
        \/ config' = [config EXCEPT !.scheme = "uniform"]
        \/ config' = [config EXCEPT !.scheme = "limited"]
        \/ config' = [config EXCEPT !.files = n, !.scheme = "uniform"]
    BY <1>8 DEF RecoveryCountOption, FirstBlockOption, UniformOption, LimitedOption,
       FilesOption, Set
  <2> HIDE DEF n, cut
  <2> QED
    BY <1>3, <1>4, <1>5, <2>1, <2>2 DEF Config
<1>9. ASSUME ArchiveOption \/ FlagOption \/ OtherOption
      PROVE  config' \in Config
  <2>1. "h" \in Letters /\ "--" \in Letters
    BY DEF Letters
  <2>2. << [opt |-> "word", n |-> n] >> \in Seq(Argument)
    BY <1>4 DEF Argument, Letters
  <2>3. \/ config' = [config EXCEPT !.archive = << [opt |-> "word", n |-> n] >>]
        \/ config' = [config EXCEPT !.given = With("h")]
        \/ config' = [config EXCEPT !.given = With("--")]
        \/ config' = config
    BY <1>9 DEF ArchiveOption, FlagOption, OtherOption, Set
  <2> HIDE DEF n
  <2> QED
    BY <1>3, <1>5, <2>1, <2>2, <2>3 DEF Config
<1> QED
  BY <1>2, <1>6, <1>7, <1>8, <1>9 DEF Option, LineInv

\* What is accepted is at least a file, and every file is there.
LEMMA AcceptLine ==
    ASSUME LineInv, Accept
    PROVE  /\ sizes' \in Seq(Nat) /\ sizes' # << >>
           /\ blockCount' \in Nat /\ request' \in Request
           /\ pc' \in {"size", "plan"}
<1> DEFINE S == Sources
<1>1. config \in Config /\ disk \in Seq(Nat)
  BY DEF LineInv
<1>2. config.archive \in Seq(Argument) /\ config.names \in Seq(Argument)
  BY <1>1 DEF Config
<1>3. S # << >> /\ \A k \in DOMAIN S : S[k].n \in DOMAIN disk
  BY DEF Accept, Acceptable, Exists
<1>4. S \in Seq(Argument)
  <2> DEFINE both == config.archive \o config.names
  <2>1. both \in Seq(Argument) /\ both # << >>
    BY <1>2, ConcatProperties DEF Accept, Acceptable
  <2> HIDE DEF both
  <2>2. Head(both) \in Argument
    BY <2>1, HeadTailProperties
  <2>3. Archive \in Argument
    BY <2>2 DEF Archive, both
  <2>4. Others \in Seq(Argument)
    <3>1. CASE config.archive = << >>
      <4>1. config.names # << >>
        BY <1>2, <2>1, <3>1 DEF both
      <4> QED
        BY <1>2, <3>1, <4>1, HeadTailProperties DEF Others
    <3>2. CASE config.archive # << >>
      BY <1>2, <3>2 DEF Others
    <3> QED
      BY <3>1, <3>2
  <2> QED
    BY <2>3, <2>4 DEF Sources
<1>5. sizes' = [k \in DOMAIN S |-> disk[S[k].n]] /\ blockCount' \in Nat
  BY <1>1 DEF Accept, Config
<1> HIDE DEF S
<1>6. DOMAIN S = 1 .. Len(S) /\ Len(S) \in Nat /\ Len(S) # 0
  BY <1>3, <1>4, EmptySeq
<1>7. \A k \in 1 .. Len(S) : disk[S[k].n] \in Nat
  BY <1>1, <1>3, <1>6, ElementOfSeq
<1>8. sizes' \in Seq(Nat) /\ sizes' # << >>
  <2> DEFINE f == [k \in DOMAIN S |-> disk[S[k].n]]
  <2>1. f \in [1 .. Len(S) -> Nat]
    BY <1>6, <1>7
  <2>2. f \in Seq(Nat) /\ Len(f) = Len(S)
    BY <1>6, <2>1
  <2> HIDE DEF f
  <2>3. f # << >>
    BY <1>6, <2>2
  <2> QED
    BY <1>5, <2>2, <2>3 DEF f
<1>9. AmountOf(config) \in Amount
  <2>1. config.recoveryBlocks \in Nat /\ config.redundancySize \in Nat /\ config.redundancy \in Nat
    BY <1>1 DEF Config
  <2> QED
    BY <2>1 DEF AmountOf, Amount
<1>10. request' \in Request
  <2> DEFINE a == AmountOf(config)
  <2>1. request' = [blockSize |-> config.blockSize, scheme |-> config.scheme,
                    first |-> config.first, amount |-> a, files |-> config.files]
    BY DEF Accept
  <2>2. a \in Amount
    BY <1>9
  <2> HIDE DEF a
  <2> QED
    BY <1>1, <2>1, <2>2 DEF Request, Config
<1> QED
  BY <1>5, <1>8, <1>10 DEF Accept

\* Every step keeps it so.
LEMMA NextLine == LineInv /\ SearchInv /\ [Next]_all => (LineInv /\ SearchInv)'
<1> SUFFICES ASSUME LineInv, SearchInv, [Next]_all PROVE (LineInv /\ SearchInv)'
  OBVIOUS
<1>1. CASE Option
  <2>1. config' \in Config /\ i' \in Nat \ {0} /\ UNCHANGED <<line, disk, vars>>
    BY <1>1, OptionLine
  <2> QED
    BY <2>1 DEF LineInv, SearchInv, vars, inputs, searchVars
<1>2. CASE Word
  <2>1. /\ Reading /\ i' = i + 1 /\ config' = [config EXCEPT !.names = Append(@, line[i])]
        /\ UNCHANGED <<line, disk, vars>>
    BY <1>2 DEF Word, Set
  <2>2. line[i] \in Argument
    <3>1. i \in 1 .. Len(line)
      BY <2>1 DEF Reading, LineInv
    <3> QED
      BY <3>1, ElementOfSeq DEF LineInv
  <2>3. config' \in Config
    <3>1. config.names \in Seq(Argument) /\ config \in Config
      BY DEF LineInv, Config
    <3> DEFINE new == Append(config.names, line[i])
    <3>2. new \in Seq(Argument)
      BY <2>2, <3>1, AppendProperties
    <3>3. config' = [config EXCEPT !.names = new]
      BY <2>1
    <3> HIDE DEF new
    <3> QED
      BY <3>1, <3>2, <3>3 DEF Config
  <2> QED
    BY <2>1, <2>3 DEF LineInv, SearchInv, vars, inputs, searchVars
<1>3. CASE BadOption \/ Help \/ Refuse
  <2>1. /\ pc' \in {"rejected", "shown"}
        /\ UNCHANGED <<line, disk, i, config, inputs, searchVars>>
    BY <1>3 DEF BadOption, Help, Refuse, Stop
  <2> QED
    BY <2>1 DEF LineInv, SearchInv, inputs, searchVars, Exits
<1>4. CASE Accept
  <2>1. /\ sizes' \in Seq(Nat) /\ sizes' # << >>
        /\ blockCount' \in Nat /\ request' \in Request
        /\ pc' \in {"size", "plan"}
    BY <1>4, AcceptLine
  <2>2. search = "start" /\ UNCHANGED <<line, disk, i, config, searchVars>>
    BY <1>4 DEF Accept, Read, LineInv
  <2> QED
    BY <2>1, <2>2 DEF LineInv, SearchInv, searchVars
<1>5. CASE Create /\ Size
  <2>1. pc = "size" /\ SearchStep /\ UNCHANGED <<request, pc, line, disk, i, config>>
    BY <1>5 DEF Create, Size
  <2>2. SearchInv' /\ sizes # << >>
    BY <2>1, SearchKeeps DEF LineInv
  <2>3. sizes' = sizes
    BY <2>1 DEF SearchStep, TooFew, OnePerFile, Smallest, Bounds, TooSmall, BigEnough, SearchEnds
  <2> QED
    BY <2>1, <2>2, <2>3 DEF LineInv
<1>6. CASE (Create /\ ~Size) \/ Fail
  <2>1. /\ UNCHANGED <<line, disk, i, config, inputs, searchVars>>
        /\ pc \in {"size", "plan", "encode", "volumes"}
        /\ pc' \in {"plan", "encode", "volumes"} \cup Exits
    BY <1>6 DEF Create, CreateStep, Fail, SizeFound, SizeError, Panic, Plan, Reject, Encode,
       WriteVolume, WriteIndex, Fails, Exits
  <2> QED
    BY <2>1 DEF LineInv, SearchInv, inputs, searchVars, Exits
<1>7. CASE UNCHANGED all
  BY <1>7 DEF LineInv, SearchInv, all, vars, inputs, searchVars
<1> QED
  BY <1>1, <1>2, <1>3, <1>4, <1>5, <1>6, <1>7 DEF Next, Step, Exited

\* And so it always is.
LEMMA LineAlways == Spec => [](LineInv /\ SearchInv)
  BY InitLine, NextLine, PTL DEF Spec

\* The block size that is used makes no more blocks than were asked for, and no
\* smaller size would, for any files and any -b. (layout.go:22-25)
THEOREM BlockSizeIsBest == Spec => []BestSize
  BY LineAlways, SearchInvMeans, PTL

\* The search gives up only where no size can do. (layout.go:36-72)
THEOREM SearchNeverGivesUp == Spec => []NoErrorIfEnough
  BY LineAlways, SearchInvMeans, PTL

-----------------------------------------------------------------------------
(* How the command line is read. *)

\* The options of a command line l, as Options, and those before argument p.
OptionsOf(l) == { k \in DOMAIN l : l[k].opt # "word" /\ \A h \in 1 .. k - 1 : l[h].opt # "--" }
Past(l, p) == { k \in OptionsOf(l) : k < p }
Has(l, p, letter) == \E k \in Past(l, p) : l[k].opt = letter

\* The value is that of the option, or the default if there is none.
Said(l, p, letter, value, default) ==
    /\ \A k \in Past(l, p) : l[k].opt = letter => value = l[k].n
    /\ Has(l, p, letter) \/ value = default

\* What Plain says of a command line.
Single(l) ==
    /\ \A k, h \in OptionsOf(l) : k # h => l[k].opt # l[h].opt
    /\ \A k, h \in OptionsOf(l) : ~(l[k].opt = "r" /\ l[h].opt = "rk")

\* The scheme is that of the last option that chooses one.
SchemesPast(l, p) == { k \in Past(l, p) : l[k].opt \in {"u", "l", "n"} }
LastLimits(l, S) == \E k \in S : l[k].opt = "l" /\ \A h \in S : h <= k
SchemeSaid(l, S) ==
    IF S = {} THEN "variable" ELSE IF LastLimits(l, S) THEN "limited" ELSE "uniform"

\* What the flags say of the options before argument p.
FlagsRead(l, p, c) ==
    /\ "--" \in c.given <=> \E h \in 1 .. p - 1 : l[h].opt = "--"
    /\ \A letter \in {"s", "c"} : letter \in c.given <=> Has(l, p, letter)
    /\ "r" \in c.given <=> Has(l, p, "r") \/ Has(l, p, "rk")

\* What the values are where every option comes once.
ValuesRead(l, p, c) ==
    /\ Said(l, p, "b", c.blockCount, DefaultBlockCount)
    /\ Said(l, p, "s", c.blockSize, 0)
    /\ Said(l, p, "c", c.recoveryBlocks, 0)
    /\ Said(l, p, "rk", c.redundancySize, 0)
    /\ Said(l, p, "n", c.files, 0)
    /\ \E m \in Nat : Said(l, p, "f", m, 0) /\ c.first = Cut(m)
    /\ IF Has(l, p, "rk") THEN c.redundancy = 0 ELSE Said(l, p, "r", c.redundancy, 5)
    /\ c.scheme = SchemeSaid(l, SchemesPast(l, p))

\* What is kept of the number of files when nothing limits them.
FilesRead(l, p, c) ==
    Has(l, p, "n") /\ ~Has(l, p, "l") =>
        /\ c.scheme = "uniform" /\ c.files # 0
        /\ \E k \in Past(l, p) : l[k].opt = "n" /\ c.files = l[k].n

\* What one option makes of what was read before.
Reads(l, p, c, d) ==
    /\ d.blockCount = IF l[p].opt = "b" THEN l[p].n ELSE c.blockCount
    /\ d.blockSize = IF l[p].opt = "s" THEN l[p].n ELSE c.blockSize
    /\ d.recoveryBlocks = IF l[p].opt = "c" THEN l[p].n ELSE c.recoveryBlocks
    /\ d.redundancySize = IF l[p].opt = "rk" THEN l[p].n ELSE c.redundancySize
    /\ d.files = IF l[p].opt = "n" THEN l[p].n ELSE c.files
    /\ d.first = IF l[p].opt = "f" THEN Cut(l[p].n) ELSE c.first
    /\ d.redundancy = IF l[p].opt = "r" THEN l[p].n
                      ELSE IF l[p].opt = "rk" THEN 0 ELSE c.redundancy
    /\ d.scheme = IF l[p].opt = "l" THEN "limited"
                  ELSE IF l[p].opt \in {"u", "n"} THEN "uniform" ELSE c.scheme
    /\ l[p].opt = "n" => l[p].n # 0
    /\ \A letter \in {"s", "c", "--"} :
          letter \in d.given <=> letter \in c.given \/ l[p].opt = letter
    /\ "r" \in d.given <=> "r" \in c.given \/ l[p].opt \in {"r", "rk"}

\* The argument that is read next is an option if it is no word and -- was not read.
LEMMA NextIsOption ==
    ASSUME NEW l \in Seq(Argument), NEW p \in 1 .. Len(l)
    PROVE  /\ p \in OptionsOf(l) <=> l[p].opt # "word" /\ \A h \in 1 .. p - 1 : l[h].opt # "--"
           /\ Past(l, p + 1) = IF p \in OptionsOf(l) THEN Past(l, p) \cup {p} ELSE Past(l, p)
           /\ Past(l, p) \subseteq OptionsOf(l) /\ OptionsOf(l) \subseteq 1 .. Len(l)
           /\ p \notin Past(l, p)
<1>1. DOMAIN l = 1 .. Len(l) /\ Len(l) \in Nat
  OBVIOUS
<1>2. p \in OptionsOf(l) <=> l[p].opt # "word" /\ \A h \in 1 .. p - 1 : l[h].opt # "--"
  BY <1>1 DEF OptionsOf
<1>3. OptionsOf(l) \subseteq 1 .. Len(l)
  BY <1>1 DEF OptionsOf
<1>4. \A k \in OptionsOf(l) : k < p + 1 <=> k < p \/ k = p
  BY <1>1, <1>3
<1> QED
  BY <1>2, <1>3, <1>4 DEF Past

\* The options before the next argument.
LEMMA PastNext ==
    ASSUME NEW l \in Seq(Argument), NEW p \in 1 .. Len(l)
    PROVE  \A k : k \in Past(l, p + 1) <=> k \in Past(l, p) \/ (p \in OptionsOf(l) /\ k = p)
<1>1. CASE p \in OptionsOf(l)
  <2>1. Past(l, p + 1) = Past(l, p) \cup {p}
    BY <1>1, NextIsOption, Zenon
  <2> QED
    BY <1>1, <2>1, Zenon
<1>2. CASE p \notin OptionsOf(l)
  <2>1. Past(l, p + 1) = Past(l, p)
    BY <1>2, NextIsOption, Zenon
  <2> QED
    BY <1>2, <2>1, Zenon
<1> QED
  BY <1>1, <1>2

\* An option changes what is said of its letter.
LEMMA SaidNow ==
    ASSUME NEW l \in Seq(Argument), NEW p \in 1 .. Len(l), p \in OptionsOf(l), Single(l), NEW default
    PROVE  Said(l, p + 1, l[p].opt, l[p].n, default)
<1>1. p \in Past(l, p + 1) /\ Past(l, p) \subseteq OptionsOf(l)
  BY PastNext, NextIsOption, Zenon
<1>2. ASSUME NEW k \in Past(l, p + 1), l[k].opt = l[p].opt PROVE k = p
  <2>1. k \in Past(l, p) \/ k = p
    BY PastNext, Zenon
  <2>2. k \in OptionsOf(l)
    BY <1>1, <2>1, Zenon
  <2> QED
    BY <1>2, <2>2, Zenon DEF Single
<1> QED
  BY <1>1, <1>2, Zenon DEF Said, Has

\* An option is one of those before the next argument.
LEMMA HasStays ==
    ASSUME NEW l \in Seq(Argument), NEW p \in 1 .. Len(l), NEW letter
    PROVE  Has(l, p + 1, letter) <=>
               Has(l, p, letter) \/ (p \in OptionsOf(l) /\ l[p].opt = letter)
<1>1. \A k : k \in Past(l, p + 1) <=> k \in Past(l, p) \/ (p \in OptionsOf(l) /\ k = p)
  BY PastNext, Zenon
<1> QED
  BY <1>1, Zenon DEF Has

\* What is said of another letter stays.
LEMMA SaidStays ==
    ASSUME NEW l \in Seq(Argument), NEW p \in 1 .. Len(l), NEW letter, NEW value, NEW default,
           p \in OptionsOf(l) => l[p].opt # letter, Said(l, p, letter, value, default)
    PROVE  Said(l, p + 1, letter, value, default)
<1>1. Has(l, p + 1, letter) <=> Has(l, p, letter)
  BY HasStays, Zenon
<1>2. \A k \in Past(l, p + 1) : l[k].opt = letter => k \in Past(l, p)
  BY PastNext, Zenon
<1> QED
  BY <1>1, <1>2, Zenon DEF Said

\* The two together.
LEMMA SaidNext ==
    ASSUME NEW l \in Seq(Argument), NEW p \in 1 .. Len(l), p \in OptionsOf(l), Single(l),
           NEW letter, NEW value, NEW new, NEW default,
           Said(l, p, letter, value, default),
           new = IF l[p].opt = letter THEN l[p].n ELSE value
    PROVE  Said(l, p + 1, letter, new, default)
<1>1. CASE l[p].opt = letter
  <2>1. Said(l, p + 1, l[p].opt, l[p].n, default)
    BY SaidNow, Zenon
  <2> QED
    BY <1>1, <2>1, Zenon
<1>2. CASE l[p].opt # letter
  <2>1. Said(l, p + 1, letter, value, default)
    BY <1>2, SaidStays, Zenon
  <2> QED
    BY <1>2, <2>1, Zenon
<1> QED
  BY <1>1, <1>2

\* An option that chooses a scheme is the last one, any other leaves the choice.
LEMMA SchemeNext ==
    ASSUME NEW l \in Seq(Argument), NEW p \in 1 .. Len(l), p \in OptionsOf(l)
    PROVE  SchemeSaid(l, SchemesPast(l, p + 1)) =
               IF l[p].opt = "l" THEN "limited"
               ELSE IF l[p].opt \in {"u", "n"} THEN "uniform"
               ELSE SchemeSaid(l, SchemesPast(l, p))
<1> DEFINE S == SchemesPast(l, p)  T == SchemesPast(l, p + 1)
<1>1. \A k : k \in Past(l, p + 1) <=> k \in Past(l, p) \/ k = p
  BY PastNext, Zenon
<1>2. p \in Nat /\ \A k \in S : k \in Nat /\ k < p
  BY NextIsOption DEF SchemesPast, Past
<1>3. CASE l[p].opt \in {"u", "l", "n"}
  <2>1. \A k : k \in T <=> k \in S \/ k = p
    BY <1>1, <1>3 DEF SchemesPast
  <2> HIDE DEF S, T
  <2>2. T # {} /\ (LastLimits(l, T) <=> l[p].opt = "l")
    BY <1>2, <2>1 DEF LastLimits
  <2>3. SchemeSaid(l, T) = IF l[p].opt = "l" THEN "limited" ELSE "uniform"
    BY <2>2 DEF SchemeSaid
  <2> QED
    BY <1>3, <2>3 DEF T
<1>4. CASE l[p].opt \notin {"u", "l", "n"}
  <2>1. T = S
    BY <1>1, <1>4 DEF SchemesPast
  <2> QED
    BY <1>4, <2>1
<1> QED
  BY <1>3, <1>4

\* Where every option comes once, each value is that of its option.
LEMMA ValuesNext ==
    ASSUME NEW l \in Seq(Argument), NEW p \in 1 .. Len(l), p \in OptionsOf(l), Single(l),
           NEW c, NEW d, l[p].n \in Nat, Reads(l, p, c, d), ValuesRead(l, p, c)
    PROVE  ValuesRead(l, p + 1, d)
<1>1. /\ Said(l, p + 1, "b", d.blockCount, DefaultBlockCount)
      /\ Said(l, p + 1, "s", d.blockSize, 0)
      /\ Said(l, p + 1, "c", d.recoveryBlocks, 0)
      /\ Said(l, p + 1, "rk", d.redundancySize, 0)
      /\ Said(l, p + 1, "n", d.files, 0)
  BY SaidNext, Zenon DEF Reads, ValuesRead
<1>2. \E m \in Nat : Said(l, p + 1, "f", m, 0) /\ d.first = Cut(m)
  <2>1. PICK m \in Nat : Said(l, p, "f", m, 0) /\ c.first = Cut(m)
    BY DEF ValuesRead
  <2> DEFINE new == IF l[p].opt = "f" THEN l[p].n ELSE m
  <2>2. new \in Nat /\ d.first = Cut(new)
    <3>1. d.first = IF l[p].opt = "f" THEN Cut(l[p].n) ELSE c.first
      BY DEF Reads
    <3>2. CASE l[p].opt = "f"
      BY <3>1, <3>2
    <3>3. CASE l[p].opt # "f"
      BY <2>1, <3>1, <3>3
    <3> QED
      BY <3>2, <3>3
  <2>3. Said(l, p + 1, "f", new, 0)
    BY <2>1, SaidNext, Zenon
  <2> HIDE DEF new
  <2> QED
    BY <2>2, <2>3
<1>3. \A letter : Has(l, p + 1, letter) <=> Has(l, p, letter) \/ l[p].opt = letter
  BY HasStays, Zenon
<1>4. \A k \in Past(l, p) : /\ l[k].opt # l[p].opt
                            /\ ~(l[k].opt = "r" /\ l[p].opt = "rk")
                            /\ ~(l[p].opt = "r" /\ l[k].opt = "rk")
  <2> TAKE k \in Past(l, p)
  <2>1. k \in OptionsOf(l) /\ k # p
    BY NextIsOption, Zenon
  <2> QED
    BY <2>1, Zenon DEF Single
<1>5. IF Has(l, p + 1, "rk") THEN d.redundancy = 0 ELSE Said(l, p + 1, "r", d.redundancy, 5)
  <2>1. CASE l[p].opt = "rk"
    BY <1>3, <2>1 DEF Reads
  <2>2. CASE l[p].opt # "rk" /\ Has(l, p, "rk")
    <3>1. l[p].opt # "r"
      BY <1>4, <2>2, Zenon DEF Has
    <3>2. d.redundancy = c.redundancy
      BY <2>2, <3>1 DEF Reads
    <3> QED
      BY <1>3, <2>2, <3>2 DEF ValuesRead
  <2>3. CASE l[p].opt # "rk" /\ ~Has(l, p, "rk")
    <3>1. ~Has(l, p + 1, "rk") /\ Said(l, p, "r", c.redundancy, 5)
      BY <1>3, <2>3 DEF ValuesRead
    <3>2. d.redundancy = IF l[p].opt = "r" THEN l[p].n ELSE c.redundancy
      BY <2>3 DEF Reads
    <3> QED
      BY <3>1, <3>2, SaidNext, Zenon
  <2> QED
    BY <2>1, <2>2, <2>3
<1>6. d.scheme = SchemeSaid(l, SchemesPast(l, p + 1))
  <2>1. c.scheme = SchemeSaid(l, SchemesPast(l, p))
    BY DEF ValuesRead
  <2>2. d.scheme = IF l[p].opt = "l" THEN "limited"
                   ELSE IF l[p].opt \in {"u", "n"} THEN "uniform" ELSE c.scheme
    BY DEF Reads
  <2> QED
    BY <2>1, <2>2, SchemeNext
<1> QED
  BY <1>1, <1>2, <1>5, <1>6 DEF ValuesRead

\* What is said of the number of files.
LEMMA FilesNext ==
    ASSUME NEW l \in Seq(Argument), NEW p \in 1 .. Len(l), p \in OptionsOf(l),
           NEW c, NEW d, Reads(l, p, c, d), FilesRead(l, p, c)
    PROVE  FilesRead(l, p + 1, d)
<1> SUFFICES ASSUME Has(l, p + 1, "n"), ~Has(l, p + 1, "l")
             PROVE  /\ d.scheme = "uniform" /\ d.files # 0
                    /\ \E k \in Past(l, p + 1) : l[k].opt = "n" /\ d.files = l[k].n
  BY DEF FilesRead
<1>1. \A letter : Has(l, p + 1, letter) <=> Has(l, p, letter) \/ l[p].opt = letter
  BY HasStays, Zenon
<1>2. \A k : k \in Past(l, p + 1) <=> k \in Past(l, p) \/ k = p
  BY PastNext, Zenon
<1>3. ~Has(l, p, "l") /\ l[p].opt # "l"
  BY <1>1
<1>4. CASE l[p].opt = "n"
  <2>1. d.scheme = "uniform" /\ d.files = l[p].n /\ d.files # 0
    BY <1>4 DEF Reads
  <2> QED
    BY <1>2, <1>4, <2>1
<1>5. CASE l[p].opt # "n"
  <2>1. Has(l, p, "n")
    BY <1>1, <1>5
  <2>2. /\ c.scheme = "uniform" /\ c.files # 0
        /\ \E k \in Past(l, p) : l[k].opt = "n" /\ c.files = l[k].n
    BY <1>3, <2>1 DEF FilesRead
  <2>3. d.files = c.files /\ d.scheme = "uniform"
    BY <1>3, <1>5, <2>2 DEF Reads
  <2> QED
    BY <1>2, <2>2, <2>3
<1> QED
  BY <1>4, <1>5

\* What is said of the flags.
LEMMA FlagsNext ==
    ASSUME NEW l \in Seq(Argument), NEW p \in 1 .. Len(l), p \in OptionsOf(l),
           NEW c, NEW d, Reads(l, p, c, d), FlagsRead(l, p, c)
    PROVE  FlagsRead(l, p + 1, d)
<1>1. \A letter : Has(l, p + 1, letter) <=> Has(l, p, letter) \/ l[p].opt = letter
  BY HasStays, Zenon
<1>2. \A h : h \in 1 .. (p + 1) - 1 <=> h \in 1 .. p - 1 \/ h = p
  OBVIOUS
<1>3. "--" \in d.given <=> \E h \in 1 .. (p + 1) - 1 : l[h].opt = "--"
  BY <1>2, Zenon DEF Reads, FlagsRead
<1>4. \A letter \in {"s", "c"} : letter \in d.given <=> Has(l, p + 1, letter)
  BY <1>1, Zenon DEF Reads, FlagsRead
<1>5. "r" \in d.given <=> Has(l, p + 1, "r") \/ Has(l, p + 1, "rk")
  <2>1. "r" \in d.given <=> "r" \in c.given \/ l[p].opt = "r" \/ l[p].opt = "rk"
    BY DEF Reads
  <2> QED
    BY <1>1, <2>1, Zenon DEF FlagsRead
<1> QED
  BY <1>3, <1>4, <1>5, Zenon DEF FlagsRead

\* A word is no option.
LEMMA WordNext ==
    ASSUME NEW l \in Seq(Argument), NEW p \in 1 .. Len(l), p \notin OptionsOf(l), NEW c, NEW d,
           NEW names, c \in Config, d = [c EXCEPT !.names = names],
           "--" \in c.given \/ l[p].opt # "--"
    PROVE  /\ FlagsRead(l, p, c) => FlagsRead(l, p + 1, d)
           /\ ValuesRead(l, p, c) => ValuesRead(l, p + 1, d)
           /\ FilesRead(l, p, c) => FilesRead(l, p + 1, d)
<1>1. \A letter : Has(l, p + 1, letter) <=> Has(l, p, letter)
  BY HasStays, Zenon
<1>2. \A letter, value, default :
          Said(l, p, letter, value, default) => Said(l, p + 1, letter, value, default)
  BY SaidStays, Zenon
<1>3. \A h : h \in 1 .. (p + 1) - 1 <=> h \in 1 .. p - 1 \/ h = p
  OBVIOUS
<1>4. \A k : k \in Past(l, p) => k \in Past(l, p + 1)
  BY PastNext, Zenon
<1>5. /\ d.given = c.given /\ d.blockCount = c.blockCount /\ d.blockSize = c.blockSize
      /\ d.recoveryBlocks = c.recoveryBlocks /\ d.redundancySize = c.redundancySize
      /\ d.files = c.files /\ d.first = c.first /\ d.redundancy = c.redundancy
      /\ d.scheme = c.scheme
  BY DEF Config
<1>6. FlagsRead(l, p, c) => FlagsRead(l, p + 1, d)
  BY <1>1, <1>3, <1>5, Zenon DEF FlagsRead
<1>7. ASSUME ValuesRead(l, p, c) PROVE ValuesRead(l, p + 1, d)
  <2>1. \E m \in Nat : Said(l, p + 1, "f", m, 0) /\ d.first = Cut(m)
    BY <1>2, <1>5, <1>7, Zenon DEF ValuesRead
  <2>2. IF Has(l, p + 1, "rk") THEN d.redundancy = 0 ELSE Said(l, p + 1, "r", d.redundancy, 5)
    BY <1>1, <1>2, <1>5, <1>7 DEF ValuesRead
  <2>3. d.scheme = SchemeSaid(l, SchemesPast(l, p + 1))
    <3>1. Past(l, p + 1) = Past(l, p)
      BY NextIsOption, Zenon
    <3> QED
      BY <1>5, <1>7, <3>1 DEF ValuesRead, SchemesPast
  <2> QED
    BY <1>2, <1>5, <1>7, <2>1, <2>2, <2>3 DEF ValuesRead
<1>8. FilesRead(l, p, c) => FilesRead(l, p + 1, d)
  BY <1>1, <1>4, <1>5, Zenon DEF FilesRead
<1> QED
  BY <1>6, <1>7, <1>8

(***************************************************************************)
(* The inductive invariant of the reading: the configuration is what the   *)
(* options before the next argument say, and a set that is created is what *)
(* the configuration asks for.                                             *)
(***************************************************************************)
ReadInv ==
    /\ i <= Len(line) + 1
    /\ FlagsRead(line, i, config)
    /\ Single(line) => ValuesRead(line, i, config)
    /\ FilesRead(line, i, config)
    /\ pc = "args" => sizes = << >>
    /\ sizes # << >> =>
          /\ i > Len(line) /\ ~({"r", "c"} \subseteq config.given)
          /\ blockCount = IF "s" \in config.given THEN 0 ELSE config.blockCount
          /\ request = [blockSize |-> config.blockSize, scheme |-> config.scheme,
                        first |-> config.first, amount |-> AmountOf(config),
                        files |-> config.files]

\* Nothing is read at the start, and the defaults are what is said.
LEMMA InitRead == Init => ReadInv
<1> SUFFICES ASSUME Init PROVE ReadInv
  OBVIOUS
<1>1. line \in Seq(Argument) /\ i = 1 /\ config = DefaultConfig /\ sizes = << >>
  BY CommandLineAssumption DEF Init, CreateInit
<1>2. 1 <= Len(line) + 1 /\ OptionsOf(line) \subseteq 1 .. Len(line)
  BY <1>1 DEF OptionsOf
<1>3. Past(line, 1) = {}
  BY <1>1, <1>2 DEF Past
<1>4. \A letter : ~Has(line, 1, letter)
  BY <1>3 DEF Has
<1>5. FlagsRead(line, 1, DefaultConfig)
  BY <1>4 DEF FlagsRead, DefaultConfig
<1>6. FilesRead(line, 1, DefaultConfig)
  BY <1>4 DEF FilesRead
<1>7. ValuesRead(line, 1, DefaultConfig)
  <2>1. \A letter, default : Said(line, 1, letter, default, default)
    BY <1>3 DEF Said
  <2>2. Cut(0) = 0
    BY CutFacts
  <2>3. SchemeSaid(line, SchemesPast(line, 1)) = "variable"
    BY <1>3 DEF SchemesPast, SchemeSaid
  <2> QED
    BY <1>4, <2>1, <2>2, <2>3 DEF ValuesRead, DefaultConfig
<1> QED
  BY <1>1, <1>2, <1>5, <1>6, <1>7 DEF ReadInv

\* Every option sets what it says and leaves the rest alone.
LEMMA OptionReads ==
    ASSUME LineInv, ReadInv, Option
    PROVE  /\ i \in 1 .. Len(line) /\ i' = i + 1 /\ UNCHANGED <<line, disk, vars>>
           /\ i \in OptionsOf(line) /\ line[i].n \in Nat
           /\ Reads(line, i, config, config')
<1>1. Reading /\ ~Literal /\ Legal /\ line[i].opt # "word"
  BY DEF Option, BlockCountOption, BlockSizeOption, RedundancyOption, RedundancySizeOption,
     RecoveryCountOption, FirstBlockOption, UniformOption, LimitedOption, FilesOption,
     ArchiveOption, FlagOption, OtherOption, At
<1>2. i \in 1 .. Len(line) /\ line \in Seq(Argument)
  BY <1>1 DEF LineInv, Reading
<1>3. line[i] \in Argument
  BY <1>2, ElementOfSeq
<1>4. i \in OptionsOf(line)
  <2>1. \A h \in 1 .. i - 1 : line[h].opt # "--"
    BY <1>1, Zenon DEF ReadInv, FlagsRead, Literal
  <2> QED
    BY <1>1, <1>2, <2>1, NextIsOption, Zenon
<1>5. i' = i + 1 /\ UNCHANGED <<line, disk, vars>>
  BY OptionLine DEF Option, BlockCountOption, BlockSizeOption, RedundancyOption,
     RedundancySizeOption, RecoveryCountOption, FirstBlockOption, UniformOption, LimitedOption,
     FilesOption, ArchiveOption, FlagOption, OtherOption, Set
<1> DEFINE n == line[i].n  x == line[i].opt  cut == Cut(n)
<1>6. Value = n /\ config \in Config
  BY DEF Value, LineInv
<1>7. x = "n" => n # 0
  BY <1>1, <1>6 DEF Legal
<1> DEFINE Is(letter, new) == x = letter /\ config' = new
<1>8. \/ Is("b", [config EXCEPT !.blockCount = n])
      \/ Is("s", [config EXCEPT !.blockSize = n, !.given = With("s")])
      \/ Is("r", [config EXCEPT !.redundancy = n, !.given = With("r")])
      \/ Is("rk", [config EXCEPT !.redundancySize = n, !.redundancy = 0, !.given = With("r")])
      \/ Is("c", [config EXCEPT !.recoveryBlocks = n, !.given = With("c")])
      \/ Is("f", [config EXCEPT !.first = cut])
      \/ Is("u", [config EXCEPT !.scheme = "uniform"])
      \/ Is("l", [config EXCEPT !.scheme = "limited"])
      \/ Is("n", [config EXCEPT !.files = n, !.scheme = "uniform"])
      \/ Is("a", [config EXCEPT !.archive = << [opt |-> "word", n |-> n] >>])
      \/ Is("h", [config EXCEPT !.given = With("h")])
      \/ Is("--", [config EXCEPT !.given = With("--")])
      \/ Is("other", config)
  BY <1>6 DEF Option, BlockCountOption, BlockSizeOption, RedundancyOption, RedundancySizeOption,
     RecoveryCountOption, FirstBlockOption, UniformOption, LimitedOption, FilesOption,
     ArchiveOption, FlagOption, OtherOption, At, Set
<1>9. Reads(line, i, config, config')
  <2> DEFINE d == config'
  <2>1. /\ d.blockCount = IF x = "b" THEN n ELSE config.blockCount
        /\ d.blockSize = IF x = "s" THEN n ELSE config.blockSize
        /\ d.recoveryBlocks = IF x = "c" THEN n ELSE config.recoveryBlocks
        /\ d.redundancySize = IF x = "rk" THEN n ELSE config.redundancySize
    <3> HIDE DEF n, x, cut
    <3> QED
      BY <1>6, <1>8 DEF Config
  <2>2. /\ d.files = IF x = "n" THEN n ELSE config.files
        /\ d.first = IF x = "f" THEN cut ELSE config.first
        /\ d.redundancy = IF x = "r" THEN n ELSE IF x = "rk" THEN 0 ELSE config.redundancy
        /\ d.scheme = IF x = "l" THEN "limited"
                      ELSE IF x \in {"u", "n"} THEN "uniform" ELSE config.scheme
    <3> HIDE DEF n, x, cut
    <3> QED
      BY <1>6, <1>8 DEF Config
  <2>3. d.given = config.given \cup (IF x \in {"s", "r", "c", "h", "--"} THEN {x}
                                     ELSE IF x = "rk" THEN {"r"} ELSE {})
    <3> HIDE DEF n, x, cut
    <3> QED
      BY <1>6, <1>8 DEF Config, With
  <2>4. /\ \A letter \in {"s", "c", "--"} :
               letter \in d.given <=> letter \in config.given \/ x = letter
        /\ "r" \in d.given <=> "r" \in config.given \/ x \in {"r", "rk"}
    <3> HIDE DEF n, x, cut, d
    <3> QED
      BY <2>3
  <2> QED
    BY <1>7, <2>1, <2>2, <2>4 DEF Reads
<1> QED
  BY <1>2, <1>3, <1>4, <1>5, <1>9 DEF Argument

\* Every step reads on or leaves what was read.
LEMMA NextRead == LineInv /\ ReadInv /\ [Next]_all => ReadInv'
<1> SUFFICES ASSUME LineInv, ReadInv, [Next]_all PROVE ReadInv'
  OBVIOUS
<1>1. CASE Option
  <2>1. /\ i \in 1 .. Len(line) /\ i' = i + 1 /\ UNCHANGED <<line, disk, vars>>
        /\ i \in OptionsOf(line) /\ line[i].n \in Nat
        /\ Reads(line, i, config, config')
    BY <1>1, OptionReads
  <2>2. pc = "args" /\ sizes = << >> /\ line \in Seq(Argument)
    BY <1>1 DEF ReadInv, LineInv, Option, BlockCountOption, BlockSizeOption, RedundancyOption,
       RedundancySizeOption, RecoveryCountOption, FirstBlockOption, UniformOption,
       LimitedOption, FilesOption, ArchiveOption, FlagOption, OtherOption, At, Reading
  <2> DEFINE d == config'  p == i + 1
  <2>3. FlagsRead(line, p, d)
    <3> HIDE DEF d
    <3> QED
      BY <2>1, <2>2, FlagsNext DEF ReadInv, d
  <2>4. Single(line) => ValuesRead(line, p, d)
    <3> HIDE DEF d
    <3> QED
      BY <2>1, <2>2, ValuesNext DEF ReadInv, d
  <2>5. FilesRead(line, p, d)
    <3> HIDE DEF d
    <3> QED
      BY <2>1, <2>2, FilesNext DEF ReadInv, d
  <2>6. sizes' = << >> /\ line' = line /\ i' = p /\ p <= Len(line) + 1
    BY <2>1, <2>2 DEF vars, inputs
  <2> QED
    BY <2>3, <2>4, <2>5, <2>6 DEF ReadInv
<1>2. CASE Word
  <2>1. /\ Reading /\ (Literal \/ line[i].opt = "word") /\ i' = i + 1
        /\ config' = [config EXCEPT !.names = Append(config.names, line[i])]
        /\ UNCHANGED <<line, disk, vars>>
    BY <1>2 DEF Word, Set
  <2>2. /\ pc = "args" /\ sizes = << >> /\ line \in Seq(Argument)
        /\ i \in 1 .. Len(line) /\ config \in Config
    BY <2>1 DEF ReadInv, LineInv, Reading
  <2>3. i \notin OptionsOf(line)
    <3>1. Literal => \E h \in 1 .. i - 1 : line[h].opt = "--"
      BY DEF ReadInv, FlagsRead, Literal
    <3> QED
      BY <2>1, <2>2, <3>1, NextIsOption, Zenon
  <2>4. "--" \in config.given \/ line[i].opt # "--"
    BY <2>1 DEF Literal
  <2> DEFINE d == config'  p == i + 1  names == Append(config.names, line[i])
  <2>5. d = [config EXCEPT !.names = names]
    BY <2>1
  <2> HIDE DEF d, names
  <2>6. /\ FlagsRead(line, i, config) => FlagsRead(line, p, d)
        /\ ValuesRead(line, i, config) => ValuesRead(line, p, d)
        /\ FilesRead(line, i, config) => FilesRead(line, p, d)
    BY <2>2, <2>3, <2>4, <2>5, WordNext
  <2>7. sizes' = << >> /\ line' = line /\ i' = p /\ p <= Len(line) + 1
    BY <2>1, <2>2 DEF vars, inputs
  <2> QED
    BY <2>6, <2>7 DEF ReadInv, d
<1>3. CASE Accept
  <2>1. /\ i > Len(line) /\ UNCHANGED <<line, i, config>> /\ pc' # "args"
        /\ ~({"r", "c"} \subseteq config.given)
        /\ blockCount' = IF "s" \in config.given THEN 0 ELSE config.blockCount
        /\ request' = [blockSize |-> config.blockSize, scheme |-> config.scheme,
                       first |-> config.first, amount |-> AmountOf(config),
                       files |-> config.files]
    BY <1>3 DEF Accept, Acceptable, Read
  <2>2. AmountOf(config)' = AmountOf(config)
    BY <2>1 DEF AmountOf
  <2> QED
    BY <2>1, <2>2 DEF ReadInv
<1>4. CASE BadOption \/ Help \/ Refuse \/ Create \/ Fail \/ UNCHANGED all
  <2>1. UNCHANGED <<line, i, config, sizes, blockCount, request>>
    BY <1>4 DEF BadOption, Help, Refuse, Stop, Create, CreateStep, Fail, Size, SearchStep, TooFew,
       OnePerFile, Smallest, Bounds, TooSmall, BigEnough, SearchEnds, SizeFound, SizeError,
       Panic, Plan, Reject, Encode, WriteVolume, WriteIndex, Fails, all, vars, inputs
  <2>2. pc' = "args" => pc = "args"
    BY <1>4 DEF BadOption, Help, Refuse, Stop, Create, CreateStep, Fail, Size, SizeFound,
       SizeError, Panic, Plan, Reject, Encode, WriteVolume, WriteIndex, Fails, all, vars
  <2>3. AmountOf(config)' = AmountOf(config)
    BY <2>1 DEF AmountOf
  <2> QED
    BY <2>1, <2>2, <2>3 DEF ReadInv
<1> QED
  BY <1>1, <1>2, <1>3, <1>4 DEF Next, Step, Exited

\* And so it always is.
LEMMA ReadAlways == Spec => [](LineInv /\ ReadInv)
  BY InitLine, NextLine, LineAlways, InitRead, NextRead, PTL DEF Spec

\* When all is read, what came before the next argument is the whole line.
LEMMA AllRead ==
    ASSUME LineInv, ReadInv, i > Len(line)
    PROVE  /\ Options = OptionsOf(line) /\ Past(line, i) = Options
           /\ Options \subseteq 1 .. Len(line)
           /\ \A letter : Given(letter) <=> Has(line, i, letter)
<1>1. line \in Seq(Argument) /\ Len(line) \in Nat /\ DOMAIN line = 1 .. Len(line) /\ i \in Nat
  BY DEF LineInv
<1>2. Options = OptionsOf(line) /\ Options \subseteq 1 .. Len(line)
  BY <1>1 DEF Options, OptionsOf
<1>3. Past(line, i) = Options
  BY <1>1, <1>2 DEF Past
<1> QED
  BY <1>2, <1>3, Zenon DEF Given, Has

\* A value that was read is what the line says.
LEMMA NumberIs ==
    ASSUME LineInv, ReadInv, i > Len(line), NEW letter, NEW value, NEW default,
           Said(line, i, letter, value, default)
    PROVE  value = Number(letter, default)
<1>1. /\ Past(line, i) = Options /\ (Given(letter) <=> Has(line, i, letter))
      /\ Given(letter) <=> \E k \in Options : line[k].opt = letter
  BY AllRead, Zenon DEF Given
<1>2. CASE Given(letter)
  <2> DEFINE k == CHOOSE k \in Options : line[k].opt = letter
  <2>1. k \in Options /\ line[k].opt = letter
    BY <1>1, <1>2, Zenon
  <2>2. Number(letter, default) = line[k].n
    BY <1>2 DEF Number
  <2> HIDE DEF k
  <2>3. value = line[k].n
    BY <1>1, <2>1, Zenon DEF Said
  <2> QED
    BY <2>2, <2>3
<1>3. CASE ~Given(letter)
  BY <1>1, <1>3, Zenon DEF Said, Number
<1> QED
  BY <1>2, <1>3

\* What Plain says, for any two options.
LEMMA PlainMeans ==
    ASSUME LineInv, ReadInv, i > Len(line), Plain
    PROVE  Single(line)
<1>1. Options = OptionsOf(line)
  BY AllRead
<1>2. \A k, h \in Options : k # h => line[k].opt # line[h].opt
  BY DEF Plain
<1>3. \A k, h \in Options : ~(line[k].opt = "r" /\ line[h].opt = "rk")
  BY Zenon DEF Plain, Given
<1> QED
  BY <1>1, <1>2, <1>3, Zenon DEF Single

\* What was read is what was asked for.
LEMMA ReadMeans == LineInv /\ ReadInv => ReadAsAsked
<1> SUFFICES ASSUME LineInv, ReadInv, Accepted, Plain PROVE ReadAsAsked
  BY DEF ReadAsAsked
<1>1. /\ i > Len(line) /\ ~({"r", "c"} \subseteq config.given)
      /\ blockCount = IF "s" \in config.given THEN 0 ELSE config.blockCount
      /\ request.blockSize = config.blockSize /\ request.scheme = config.scheme
      /\ request.first = config.first /\ request.amount = AmountOf(config)
      /\ request.files = config.files
  BY DEF ReadInv, Accepted
<1>2. Single(line)
  BY <1>1, PlainMeans
<1>3. ValuesRead(line, i, config)
  BY <1>2 DEF ReadInv
<1>4. \A letter : Given(letter) <=> Has(line, i, letter)
  BY <1>1, AllRead
<1>5. /\ "s" \in config.given <=> Given("s")
      /\ "c" \in config.given <=> Given("c")
      /\ "r" \in config.given <=> Given("r") \/ Given("rk")
  BY <1>4 DEF ReadInv, FlagsRead
<1>6. /\ config.blockCount = Number("b", DefaultBlockCount)
      /\ config.blockSize = Number("s", 0)
      /\ config.recoveryBlocks = Number("c", 0)
      /\ config.redundancySize = Number("rk", 0)
      /\ config.files = Number("n", 0)
  BY <1>1, <1>3, NumberIs, Zenon DEF ValuesRead
<1>7. Number("f", 0) < Power[CountBits] => config.first = Number("f", 0)
  <2>1. PICK m \in Nat : Said(line, i, "f", m, 0) /\ config.first = Cut(m)
    BY <1>3 DEF ValuesRead
  <2>2. m = Number("f", 0)
    BY <1>1, <2>1, NumberIs, Zenon
  <2>3. m < Power[CountBits] => Cut(m) = m
    BY CutFits
  <2> QED
    BY <2>1, <2>2, <2>3
<1>8. config.redundancy = IF Given("rk") THEN 0 ELSE Number("r", 5)
  <2>1. CASE Given("rk")
    BY <1>3, <1>4, <2>1 DEF ValuesRead
  <2>2. CASE ~Given("rk")
    <3>1. Said(line, i, "r", config.redundancy, 5)
      BY <1>3, <1>4, <2>2 DEF ValuesRead
    <3> QED
      BY <1>1, <2>2, <3>1, NumberIs, Zenon
  <2> QED
    BY <2>1, <2>2
<1>9. config.scheme = SchemeSaid(line, SchemeOptions)
  <2>1. SchemesPast(line, i) = SchemeOptions
    BY <1>1, AllRead DEF SchemesPast, SchemeOptions
  <2> QED
    BY <1>3, <2>1 DEF ValuesRead
<1>10. Number("rk", 0) \in Nat /\ (~Given("rk") => Number("rk", 0) = 0)
  <2>1. config.redundancySize \in Nat
    BY DEF LineInv, Config
  <2> QED
    BY <1>6, <2>1 DEF Number
<1>11. request.amount =
         CASE Given("c") -> [kind |-> "blocks", n |-> Number("c", 0)]
           [] Given("rk") /\ Number("rk", 0) > 0 -> [kind |-> "bytes", n |-> Number("rk", 0)]
           [] Given("rk") /\ Number("rk", 0) = 0 -> [kind |-> "percent", n |-> 0]
           [] OTHER -> [kind |-> "percent", n |-> Number("r", 5)]
  <2>1. CASE Given("c")
    <3>1. ~Given("rk") /\ AmountOf(config) = [kind |-> "blocks", n |-> config.recoveryBlocks]
      BY <1>1, <1>5, <2>1 DEF AmountOf
    <3> QED
      BY <1>1, <1>6, <2>1, <3>1
  <2>2. CASE ~Given("c") /\ Given("rk") /\ Number("rk", 0) > 0
    <3>1. AmountOf(config) = [kind |-> "bytes", n |-> config.redundancySize]
      BY <1>5, <1>6, <2>2 DEF AmountOf
    <3> QED
      BY <1>1, <1>6, <2>2, <3>1
  <2>3. CASE ~Given("c") /\ Given("rk") /\ Number("rk", 0) = 0
    <3>1. AmountOf(config) = [kind |-> "percent", n |-> config.redundancy]
      BY <1>5, <1>6, <2>3 DEF AmountOf
    <3> QED
      BY <1>1, <1>8, <2>3, <3>1
  <2>4. CASE ~Given("c") /\ ~Given("rk")
    <3>1. AmountOf(config) = [kind |-> "percent", n |-> config.redundancy]
      BY <1>5, <1>6, <1>10, <2>4 DEF AmountOf
    <3> QED
      BY <1>1, <1>8, <2>4, <3>1
  <2> QED
    BY <1>10, <2>1, <2>2, <2>3, <2>4
<1>12. ~(Given("c") /\ (Given("r") \/ Given("rk")))
  BY <1>1, <1>5
<1>13. request.scheme = IF SchemeOptions = {} THEN "variable"
                        ELSE IF \E k \in SchemeOptions :
                                   line[k].opt = "l" /\ \A h \in SchemeOptions : h <= k
                             THEN "limited" ELSE "uniform"
  BY <1>1, <1>9 DEF SchemeSaid, LastLimits
<1> QED
  BY <1>1, <1>5, <1>6, <1>7, <1>11, <1>12, <1>13 DEF ReadAsAsked

\* A command line that gives no option twice is read as it says, in whatever order
\* the options come: -b gives way to -s, of -u, -l and -n the last chooses the
\* scheme, and the rest is taken as given, -f as long as it fits the width of a
\* count. (args.go:185-372)
THEOREM LineIsReadAsAsked == Spec => []ReadAsAsked
  BY ReadAlways, ReadMeans, PTL

-----------------------------------------------------------------------------
(* What may be written at all. *)

\* The slices that the files make.
Slots == BlocksAt(BlockSizeUsed)

(***************************************************************************)
(* Before there is anything to write nothing is written, and from then on  *)
(* the number of slices is what par2.Create accepted: neither the sizes    *)
(* nor the block size change any more.                                     *)
(***************************************************************************)
SizeInv ==
    /\ pc \in {"args", "size", "plan", "encode"} => volumes = << >> /\ index = FALSE
    /\ pc \in {"volumes", "done"} => Slots <= MaxBlocks
    /\ NoOversizedSet

\* At the start nothing is written.
LEMMA InitSize == Init => SizeInv
  BY DEF Init, CreateInit, SizeInv, NoOversizedSet

\* Where nothing has been written, nothing oversized has.
LEMMA NothingWritten ==
    ASSUME volumes' = << >>, index' = FALSE, pc' \notin {"volumes", "done"}
    PROVE  SizeInv'
  BY DEF SizeInv, NoOversizedSet

\* The number of slices depends on the sizes and the block size only.
LEMMA SlotsStay ==
    ASSUME UNCHANGED <<inputs, searchVars>>
    PROVE  Slots' = Slots
<1>1. sizes' = sizes /\ BlockSizeUsed' = BlockSizeUsed
  BY DEF BlockSizeUsed, inputs, searchVars
<1> QED
  BY <1>1 DEF Slots, BlocksAt

\* While the line is read nothing is.
LEMMA LineSize ==
    ASSUME SizeInv, Option \/ BadOption \/ Word \/ Help \/ Refuse \/ Accept
    PROVE  SizeInv'
<1>1. pc = "args" /\ UNCHANGED <<volumes, index>>
  BY DEF Option, BlockCountOption, BlockSizeOption, RedundancyOption, RedundancySizeOption,
     RecoveryCountOption, FirstBlockOption, UniformOption, LimitedOption, FilesOption,
     ArchiveOption, FlagOption, OtherOption, BadOption, Word, Help, Refuse, Accept,
     At, Reading, Read, Set, Stop, vars
<1>2. pc' \in {"args", "rejected", "shown", "plan", "size"}
  BY <1>1 DEF Option, BlockCountOption, BlockSizeOption, RedundancyOption, RedundancySizeOption,
     RecoveryCountOption, FirstBlockOption, UniformOption, LimitedOption, FilesOption,
     ArchiveOption, FlagOption, OtherOption, BadOption, Word, Help, Refuse, Accept,
     Set, Stop, vars
<1> QED
  BY <1>1, <1>2, NothingWritten DEF SizeInv

\* par2.Create refuses too many before the first file is written.
LEMMA StepSize == ASSUME SizeInv, CreateStep \/ Fails PROVE SizeInv'
<1>1. CASE Size \/ SizeFound \/ SizeError \/ Panic \/ Plan \/ Reject
  <2>1. pc \in {"size", "plan"} /\ UNCHANGED <<volumes, index>>
          /\ pc' \in {"size", "plan", "encode", "rejected", "panicked"}
    BY <1>1 DEF Size, SizeFound, SizeError, Panic, Plan, Reject
  <2> QED
    BY <2>1, NothingWritten DEF SizeInv
<1>2. CASE Encode
  <2>1. /\ Slots' = Slots /\ pc = "encode" /\ UNCHANGED <<volumes, index>>
        /\ pc' = IF Slots <= MaxBlocks THEN "volumes" ELSE "failed"
    BY <1>2, SlotsStay DEF Encode, Slots
  <2> QED
    BY <2>1 DEF SizeInv, NoOversizedSet
<1>3. CASE WriteVolume \/ WriteIndex \/ Fails
  <2>1. Slots' = Slots
    BY <1>3, SlotsStay DEF WriteVolume, WriteIndex, Fails
  <2>2. CASE WriteVolume \/ WriteIndex
    <3>1. pc = "volumes" /\ pc' \in {"volumes", "done"}
      BY <2>2 DEF WriteVolume, WriteIndex
    <3>2. Slots' <= MaxBlocks
      BY <2>1, <3>1 DEF SizeInv
    <3> QED
      BY <3>1, <3>2 DEF SizeInv, NoOversizedSet, Slots
  <2>3. CASE Fails
    <3>1. pc' = "failed" /\ UNCHANGED <<volumes, index>>
      BY <2>3 DEF Fails
    <3> QED
      BY <2>1, <3>1 DEF SizeInv, NoOversizedSet, Slots
  <2> QED
    BY <1>3, <2>2, <2>3
<1> QED
  BY <1>1, <1>2, <1>3 DEF CreateStep

\* Every step of the program keeps it so.
LEMMA NextSize == SizeInv /\ [Next]_all => SizeInv'
<1> SUFFICES ASSUME SizeInv, [Next]_all PROVE SizeInv'
  OBVIOUS
<1>1. CASE Option \/ BadOption \/ Word \/ Help \/ Refuse \/ Accept
  BY <1>1, LineSize
<1>2. CASE Create \/ Fail
  BY <1>2, StepSize DEF Create, Fail
<1>3. CASE UNCHANGED all
  <2>1. UNCHANGED <<inputs, searchVars, pc, volumes, index>>
    BY <1>3 DEF all, vars
  <2>2. Slots' = Slots
    BY <2>1, SlotsStay
  <2> QED
    BY <2>1, <2>2 DEF SizeInv, NoOversizedSet, Slots
<1> QED
  BY <1>1, <1>2, <1>3 DEF Next, Step, Exited

\* No set with more slices than there are constants is ever written, not even
\* in part, although the command line tool checks a sum that may have been cut.
\* (create.go:41-49, gf.go:65-68)
THEOREM NeverOversized == Spec => []NoOversizedSet
<1>1. SizeInv => NoOversizedSet
  BY DEF SizeInv
<1> QED
  BY <1>1, InitSize, NextSize, PTL DEF Spec

-----------------------------------------------------------------------------
(* Runs that follow one another. *)

\* Partial sums that are known in another way.
LEMMA SumIs ==
    ASSUME NEW s \in Seq(Nat), NEW g, g[0] = 0,
           \A k \in 1 .. Len(s) : g[k] = g[k - 1] + s[k]
    PROVE  \A k \in 0 .. Len(s) : Sums[s][k] = g[k]
<1> DEFINE n == Len(s)
           P == { k \in Nat : k <= n => Sums[s][k] = g[k] }
<1>1. n \in Nat /\ 0 \in P
  BY SumsFacts
<1>2. ASSUME NEW k \in Nat, k \in P PROVE k + 1 \in P
  <2> SUFFICES ASSUME k + 1 <= n PROVE Sums[s][k + 1] = g[k + 1]
    OBVIOUS
  <2>1. k + 1 \in 1 .. n /\ (k + 1) - 1 = k
    OBVIOUS
  <2>2. Sums[s][k + 1] = Sums[s][(k + 1) - 1] + s[k + 1]
    BY <2>1, SumsFacts
  <2>3. g[k + 1] = g[(k + 1) - 1] + s[k + 1]
    BY <2>1
  <2>4. Sums[s][k] = g[k]
    BY <1>2
  <2> QED
    BY <2>1, <2>2, <2>3, <2>4
<1> HIDE DEF P
<1>3. Nat \subseteq P
  BY <1>1, <1>2, NatSetInduction
<1> QED
  BY <1>1, <1>3 DEF P

\* Partial sums do not fall.
LEMMA SumsGrow ==
    ASSUME NEW s \in Seq(Nat), NEW j \in 0 .. Len(s)
    PROVE  \A k \in j .. Len(s) : Sums[s][j] <= Sums[s][k]
<1> DEFINE n == Len(s)
           P == { k \in Nat : j + k <= n => Sums[s][j] <= Sums[s][j + k] }
<1>1. n \in Nat /\ Sums[s] \in [0 .. n -> Nat]
  BY SumsFacts
<1>2. 0 \in P
  <2>1. Sums[s][j] \in Nat /\ j + 0 = j
    BY <1>1
  <2> QED
    BY <2>1
<1>3. ASSUME NEW k \in Nat, k \in P PROVE k + 1 \in P
  <2> SUFFICES ASSUME j + (k + 1) <= n PROVE Sums[s][j] <= Sums[s][j + (k + 1)]
    OBVIOUS
  <2> DEFINE m == j + (k + 1)
  <2>1. m \in 1 .. n /\ m - 1 = j + k /\ m - 1 \in 0 .. n
    BY <1>1
  <2> HIDE DEF m
  <2>2. Sums[s][m] = Sums[s][m - 1] + s[m] /\ s[m] \in Nat
    BY <2>1, SumsFacts, ElementOfSeq
  <2>3. Sums[s][j] <= Sums[s][m - 1]
    BY <1>1, <1>3, <2>1
  <2> HIDE DEF n
  <2>4. Sums[s][j] \in Nat /\ Sums[s][m - 1] \in Nat
    BY <1>1, <2>1 DEF n
  <2> QED
    BY <2>2, <2>3, <2>4 DEF m
<1> HIDE DEF P
<1>4. Nat \subseteq P
  BY <1>2, <1>3, NatSetInduction
<1>5. ASSUME NEW k \in j .. n PROVE Sums[s][j] <= Sums[s][k]
  <2>1. k - j \in Nat /\ j + (k - j) = k
    BY <1>1
  <2>2. k - j \in P
    BY <1>4, <2>1
  <2> QED
    BY <1>1, <2>1, <2>2 DEF P
<1> QED
  BY <1>5

\* The parts of a run are numbers.
LEMMA RunParts ==
    ASSUME NEW r \in Run
    PROVE  /\ r.exponent \in Nat /\ r.count \in Nat
           /\ Exponents(r) = r.exponent .. r.exponent + r.count - 1
  BY DEF Run, Exponents

\* Runs from lo on that end by hi and do not overlap.
Ordered(runs, lo, hi) ==
    /\ runs \in Seq(Run)
    /\ \A k \in 1 .. Len(runs) : lo <= runs[k].exponent /\ runs[k].exponent + runs[k].count <= hi
    /\ \A j, k \in 1 .. Len(runs) : j < k => runs[j].exponent + runs[j].count <= runs[k].exponent

\* Every exponent of a range is in one of the runs.
Covers(runs, lo, hi) ==
    \A e \in lo .. hi - 1 : \E k \in 1 .. Len(runs) : e \in Exponents(runs[k])

\* Counts one after the other make runs that neither overlap nor leave a gap.
LEMMA RunsFacts ==
    ASSUME NEW first \in Nat, NEW counts \in Seq(Nat), first + SumOf(counts) < Power[CountBits]
    PROVE  /\ Len(Runs(first, counts)) = Len(counts)
           /\ \A k \in 1 .. Len(counts) : Runs(first, counts)[k].count = counts[k]
           /\ Ordered(Runs(first, counts), first, first + SumOf(counts))
           /\ Covers(Runs(first, counts), first, first + SumOf(counts))
<1> DEFINE n == Len(counts)  sum == Sums[counts]  r == Runs(first, counts)
<1>1. /\ n \in Nat /\ sum \in [0 .. n -> Nat] /\ sum[0] = 0 /\ sum[n] = SumOf(counts)
      /\ \A k \in 1 .. n : sum[k] = sum[k - 1] + counts[k]
  BY SumsFacts
<1>2. \A k \in 1 .. n : counts[k] \in Nat
  BY ElementOfSeq
<1>3. r = [k \in 1 .. n |-> [exponent |-> Cut(first + sum[k - 1]), count |-> counts[k]]]
  BY DEF Runs
<1>4. \A j \in 0 .. n : \A k \in j .. n : sum[j] <= sum[k]
  BY SumsGrow
<1> HIDE DEF n, sum, r
<1>5. ASSUME NEW k \in 1 .. n
      PROVE  /\ sum[k - 1] \in Nat /\ sum[k] \in Nat /\ r[k] \in Run
             /\ r[k].exponent = first + sum[k - 1] /\ r[k].count = counts[k]
             /\ r[k].exponent + r[k].count = first + sum[k]
  <2>1. k - 1 \in 0 .. n /\ k \in 0 .. n
    BY <1>1
  <2> DEFINE x == sum[k - 1]  y == counts[k]  z == sum[k]
  <2>2. x \in Nat /\ y \in Nat /\ z \in Nat /\ z = x + y
    BY <1>1, <1>2, <2>1
  <2>3. first + x < Power[CountBits]
    <3> DEFINE u == sum[n]
    <3>1. x <= u /\ u \in Nat /\ first + u < Power[CountBits]
      BY <1>1, <1>4, <2>1
    <3>2. Power[CountBits] \in Nat
      BY PowerFacts, CreateAssumption
    <3> HIDE DEF u, x
    <3> QED
      BY <2>2, <3>1, <3>2
  <2>5. Cut(first + x) = first + x
    BY <2>2, <2>3, CutFits
  <2>6. r[k] = [exponent |-> first + x, count |-> y]
    BY <1>3, <2>5
  <2> HIDE DEF x, y, z
  <2>4. /\ r[k] \in Run /\ r[k].exponent = first + x /\ r[k].count = y
        /\ (first + x) + y = first + z
    BY <2>2, <2>6 DEF Run
  <2> QED
    BY <2>2, <2>4 DEF x, y, z
<1>6. r \in Seq(Run) /\ Len(r) = n
  <2>1. r \in [1 .. n -> Run]
    BY <1>3, <1>5
  <2> QED
    BY <1>1, <2>1
<1>8. ASSUME NEW k \in 1 .. n
      PROVE  first <= r[k].exponent /\ r[k].exponent + r[k].count <= first + sum[n]
  <2> DEFINE x == sum[k - 1]  z == sum[k]  u == sum[n]
  <2>1. z <= u /\ z \in Nat /\ u \in Nat /\ x \in Nat
    BY <1>1, <1>4, <1>5
  <2>2. r[k].exponent = first + x /\ r[k].exponent + r[k].count = first + z
    BY <1>5
  <2> HIDE DEF x, z, u
  <2>3. first <= first + x /\ first + z <= first + u
    BY <2>1
  <2> QED
    BY <2>2, <2>3 DEF u
<1>9. ASSUME NEW j \in 1 .. n, NEW k \in 1 .. n, j < k
      PROVE  r[j].exponent + r[j].count <= r[k].exponent
  <2>1. j \in 0 .. n /\ k - 1 \in j .. n
    BY <1>1, <1>9
  <2> DEFINE x == sum[k - 1]  z == sum[j]
  <2>2. z <= x /\ z \in Nat /\ x \in Nat
    BY <1>1, <1>4, <2>1
  <2>3. r[k].exponent = first + x /\ r[j].exponent + r[j].count = first + z
    BY <1>5
  <2> HIDE DEF x, z
  <2>4. first + z <= first + x
    BY <2>2
  <2> QED
    BY <2>3, <2>4
<1>10. Covers(r, first, first + sum[n])
  <2> DEFINE P == { m \in Nat : m <= n => \A e \in first .. (first + sum[m]) - 1 :
                                           \E k \in 1 .. m : e \in Exponents(r[k]) }
  <2>1. 0 \in P
    BY <1>1
  <2>2. ASSUME NEW m \in Nat, m \in P PROVE m + 1 \in P
    <3> SUFFICES ASSUME m + 1 <= n, NEW e \in first .. (first + sum[m + 1]) - 1
                 PROVE  \E k \in 1 .. m + 1 : e \in Exponents(r[k])
      OBVIOUS
    <3>1. m + 1 \in 1 .. n /\ (m + 1) - 1 = m /\ m \in 0 .. n /\ m + 1 \in 1 .. m + 1
      BY <1>1
    <3> DEFINE x == sum[m]  z == sum[m + 1]  last == r[m + 1]
    <3>2. /\ z \in Nat /\ x \in Nat /\ e \in first .. (first + z) - 1
          /\ last \in Run /\ last.exponent = first + x
          /\ last.exponent + last.count = first + z
      BY <1>1, <1>5, <3>1
    <3> HIDE DEF x, z, last
    <3>3. CASE e < first + x
      <4>1. e \in first .. (first + sum[m]) - 1
        BY <3>2, <3>3 DEF x
      <4>2. PICK k \in 1 .. m : e \in Exponents(r[k])
        BY <2>2, <3>1, <4>1
      <4> QED
        BY <4>2
    <3>4. CASE ~(e < first + x)
      <4>1. e \in first + x .. (first + z) - 1
        BY <3>2, <3>4
      <4>2. Exponents(last) = last.exponent .. (last.exponent + last.count) - 1
        BY <3>2, RunParts
      <4>3. e \in Exponents(last)
        BY <3>2, <4>1, <4>2
      <4> QED
        BY <3>1, <4>3 DEF last
    <3> QED
      BY <3>3, <3>4
  <2> HIDE DEF P
  <2>3. n \in P
    BY <1>1, <2>1, <2>2, NatSetInduction
  <2>4. \A e \in first .. (first + sum[n]) - 1 : \E k \in 1 .. n : e \in Exponents(r[k])
    <3>1. n <= n
      BY <1>1
    <3> QED
      BY <2>3, <3>1, Zenon DEF P
  <2>5. Len(r) = n
    BY <1>6
  <2> QED
    BY <2>4, <2>5, Zenon DEF Covers
<1>11. Ordered(r, first, first + sum[n])
  BY <1>6, <1>8, <1>9 DEF Ordered
<1> QED
  BY <1>1, <1>5, <1>6, <1>10, <1>11 DEF n, sum, r

\* One layout after the other.
LEMMA ConcatOrdered ==
    ASSUME NEW a, NEW b, NEW lo \in Nat, NEW mid \in Nat, NEW up \in Nat, NEW hi \in Nat,
           Ordered(a, lo, mid), Ordered(b, up, hi), lo <= up, mid <= up, mid <= hi
    PROVE  /\ Ordered(a \o b, lo, hi)
           /\ (mid = up /\ Covers(a, lo, mid) /\ Covers(b, up, hi)) => Covers(a \o b, lo, hi)
<1> DEFINE c == a \o b  m == Len(a)  n == Len(b)
<1>1. a \in Seq(Run) /\ b \in Seq(Run)
  BY DEF Ordered
<1>2. m \in Nat /\ n \in Nat /\ c \in Seq(Run) /\ Len(c) = m + n
  BY <1>1, ConcatProperties
<1>3. \A k \in 1 .. m + n : c[k] = IF k <= m THEN a[k] ELSE b[k - m]
  BY <1>1, ConcatProperties
<1>4. /\ \A k \in 1 .. m : a[k] \in Run /\ a[k].exponent \in Nat /\ a[k].count \in Nat
      /\ \A k \in 1 .. n : b[k] \in Run /\ b[k].exponent \in Nat /\ b[k].count \in Nat
  <2>1. /\ \A k \in 1 .. m : a[k] \in Run
        /\ \A k \in 1 .. n : b[k] \in Run
    BY <1>1, ElementOfSeq
  <2> QED
    BY <2>1, RunParts
<1> HIDE DEF c, m, n
<1>5. \A k \in 1 .. m + n : \/ k \in 1 .. m /\ c[k] = a[k]
                            \/ k - m \in 1 .. n /\ c[k] = b[k - m] /\ k > m
  BY <1>2, <1>3
<1>6. /\ \A k \in 1 .. m : lo <= a[k].exponent /\ a[k].exponent + a[k].count <= mid
      /\ \A k \in 1 .. n : up <= b[k].exponent /\ b[k].exponent + b[k].count <= hi
      /\ \A j, k \in 1 .. m : j < k => a[j].exponent + a[j].count <= a[k].exponent
      /\ \A j, k \in 1 .. n : j < k => b[j].exponent + b[j].count <= b[k].exponent
  BY DEF Ordered, m, n
<1>7. \A k \in 1 .. m + n : lo <= c[k].exponent /\ c[k].exponent + c[k].count <= hi
  <2> TAKE k \in 1 .. m + n
  <2>1. CASE k \in 1 .. m /\ c[k] = a[k]
    BY <1>4, <1>6, <2>1
  <2>2. CASE k - m \in 1 .. n /\ c[k] = b[k - m]
    BY <1>4, <1>6, <2>2
  <2> QED
    BY <1>5, <2>1, <2>2
<1>8. \A j, k \in 1 .. m + n : j < k => c[j].exponent + c[j].count <= c[k].exponent
  <2> SUFFICES ASSUME NEW j \in 1 .. m + n, NEW k \in 1 .. m + n, j < k
               PROVE  c[j].exponent + c[j].count <= c[k].exponent
    OBVIOUS
  <2>1. CASE k \in 1 .. m /\ c[k] = a[k]
    <3>1. j \in 1 .. m /\ c[j] = a[j]
      BY <1>2, <1>5, <2>1
    <3> QED
      BY <1>6, <2>1, <3>1
  <2>2. CASE k - m \in 1 .. n /\ c[k] = b[k - m] /\ j \in 1 .. m /\ c[j] = a[j]
    BY <1>4, <1>6, <2>2
  <2>3. CASE k - m \in 1 .. n /\ c[k] = b[k - m] /\ j - m \in 1 .. n /\ c[j] = b[j - m]
    <3>1. j - m < k - m
      BY <1>2
    <3> QED
      BY <1>6, <2>3, <3>1
  <2> QED
    BY <1>5, <2>1, <2>2, <2>3
<1>9. Ordered(c, lo, hi)
  BY <1>2, <1>7, <1>8 DEF Ordered
<1>10. ASSUME mid = up, Covers(a, lo, mid), Covers(b, up, hi) PROVE Covers(c, lo, hi)
  <2> SUFFICES ASSUME NEW e \in lo .. hi - 1
               PROVE  \E k \in 1 .. m + n : e \in Exponents(c[k])
    BY <1>2 DEF Covers
  <2>1. CASE e < mid
    <3>1. PICK k \in 1 .. m : e \in Exponents(a[k])
      BY <1>10, <2>1 DEF Covers, m
    <3>2. k \in 1 .. m + n /\ c[k] = a[k]
      BY <1>2, <1>3
    <3> QED
      BY <3>1, <3>2
  <2>2. CASE ~(e < mid)
    <3>1. PICK k \in 1 .. n : e \in Exponents(b[k])
      BY <1>10, <2>2 DEF Covers, n
    <3>2. k + m \in 1 .. m + n /\ (k + m) - m = k /\ ~(k + m <= m)
      BY <1>2
    <3>3. c[k + m] = b[k]
      BY <1>3, <3>2
    <3> QED
      BY <3>1, <3>2, <3>3
  <2> QED
    BY <2>1, <2>2
<1> QED
  BY <1>9, <1>10 DEF c

\* The shares of files that double in size use up the blocks as far as they go.
LEMMA DoublingFacts ==
    ASSUME NEW blocks \in Nat, NEW files \in Nat, NEW low \in Nat
    PROVE  LET counts == Doubling[<<blocks, files, low>>]
               total == low * (Power[files] - 1)
           IN  /\ counts \in Seq(Nat) /\ Len(counts) = files
               /\ SumOf(counts) = IF total >= blocks THEN blocks ELSE total
               /\ \A k \in 1 .. files :
                     /\ counts[k] <= low * Power[k - 1]
                     /\ counts[k] + low * (Power[k - 1] - 1) <= blocks \/ counts[k] = 0
<1> DEFINE left == LeftOver(blocks, files, low)
           Eq(f) == f = [k \in 0 .. files |->
                           IF k = 0 THEN blocks
                           ELSE LET rest == f[k - 1] IN rest - Least(low * Power[k - 1], rest)]
           F == [p \in Nat \X Nat |->
                   IF p[1] = 0 THEN 0 ELSE p[2] - Least(low * Power[p[1] - 1], p[2])]
<1>1. \A k \in Nat : Power[k] \in Nat \ {0} /\ low * Power[k] \in Nat
  BY PowerFacts
<1>2. F \in StepOn(Nat) /\ \A k \in Nat \ {0}, x \in Nat : F[<<k, x>>] = x - Least(low * Power[k - 1], x)
  <2>1. \A x, y \in Nat : x - Least(y, x) \in Nat
    BY DEF Least
  <2>2. \A k \in Nat \ {0}, x \in Nat : x - Least(low * Power[k - 1], x) \in Nat
    <3> TAKE k \in Nat \ {0}, x \in Nat
    <3>1. k - 1 \in Nat
      OBVIOUS
    <3> QED
      BY <1>1, <2>1, <3>1
  <2>3. \A p \in Nat \X Nat : (IF p[1] = 0 THEN 0 ELSE p[2] - Least(low * Power[p[1] - 1], p[2])) \in Nat
    BY <2>2
  <2> QED
    BY <2>3 DEF StepOn
<1> HIDE DEF F
<1>3. PICK g : DefinedBy(Nat, blocks, F, g)
  BY <1>2, Recursion
<1>4. Eq([k \in 0 .. files |-> g[k]])
  <2>1. g[0] = blocks
    BY <1>3 DEF DefinedBy
  <2>2. ASSUME NEW k \in 1 .. files
        PROVE  /\ g[k] = g[k - 1] - Least(low * Power[k - 1], g[k - 1])
               /\ k - 1 \in 0 .. files
    <3>1. k \in Nat \ {0} /\ k - 1 \in 0 .. files
      OBVIOUS
    <3>2. g[k - 1] \in Nat /\ g[k] = F[<<k, g[k - 1]>>]
      BY <1>3, <3>1 DEF DefinedBy
    <3> QED
      BY <1>2, <3>1, <3>2
  <2> QED
    BY <2>1, <2>2
<1>5. left = CHOOSE f : Eq(f)
  BY DEF LeftOver
<1>6. Eq(left)
  <2> HIDE DEF Eq
  <2> QED
    BY <1>4, <1>5
<1>7. /\ left[0] = blocks
      /\ \A k \in 1 .. files : left[k] = left[k - 1] - Least(low * Power[k - 1], left[k - 1])
  BY <1>6
<1>8. Doubling[<<blocks, files, low>>] = [k \in 1 .. files |-> left[k - 1] - left[k]]
  <2>1. <<blocks, files, low>> \in Nat \X Nat \X Nat
    OBVIOUS
  <2> QED
    BY <2>1 DEF Doubling
<1> HIDE DEF left, Eq
<1> DEFINE upTo == [k \in Nat |-> low * (Power[k] - 1)]
           Rest(k) == IF upTo[k] >= blocks THEN 0 ELSE blocks - upTo[k]
<1>9. \A k \in Nat : upTo[k] \in Nat /\ upTo[k + 1] = upTo[k] + low * Power[k]
  <2> TAKE k \in Nat
  <2> DEFINE p == Power[k]  r == Power[k + 1]
  <2>1. p \in Nat \ {0} /\ r = 2 * p
    BY PowerFacts
  <2> HIDE DEF p, r
  <2>2. low * (p - 1) \in Nat /\ low * (r - 1) = low * (p - 1) + low * p
    <3>1. PICK q \in Nat : p = q + 1
      <4>1. p - 1 \in Nat /\ p = (p - 1) + 1
        BY <2>1
      <4> QED
        BY <4>1
    <3>2. p - 1 = q /\ r - 1 = q + p
      BY <2>1, <3>1
    <3>3. low * (q + p) = low * q + low * p /\ low * q \in Nat
      BY <2>1
    <3> QED
      BY <3>2, <3>3
  <2> QED
    BY <2>2 DEF p, r
<1>10. upTo[0] = 0
  <2>1. Power[0] - 1 = 0
    BY PowerFacts
  <2> QED
    BY <2>1
<1> DEFINE total == low * (Power[files] - 1)
<1>11. upTo[files] = total
  OBVIOUS
<1> HIDE DEF upTo, total
<1>12. ASSUME NEW k \in 0 .. files PROVE left[k] = Rest(k) /\ Rest(k) \in Nat
  <2> DEFINE P == { m \in Nat : m <= files => left[m] = Rest(m) }
  <2>1. 0 \in P
    BY <1>7, <1>10
  <2>2. ASSUME NEW m \in Nat, m \in P PROVE m + 1 \in P
    <3> SUFFICES ASSUME m + 1 <= files PROVE left[m + 1] = Rest(m + 1)
      OBVIOUS
    <3> DEFINE a == upTo[m]  d == low * Power[m]  b == upTo[m + 1]  x == left[m]
    <3>1. m + 1 \in 1 .. files /\ (m + 1) - 1 = m
      OBVIOUS
    <3>2. a \in Nat /\ d \in Nat /\ b = a + d
      BY <1>1, <1>9
    <3>3. x = IF a >= blocks THEN 0 ELSE blocks - a
      BY <2>2, <3>1
    <3>4. left[m + 1] = x - Least(d, x)
      <4>1. left[m + 1] = left[(m + 1) - 1] - Least(low * Power[(m + 1) - 1], left[(m + 1) - 1])
        BY <1>7, <3>1
      <4> QED
        BY <3>1, <4>1
    <3>5. Rest(m + 1) = IF b >= blocks THEN 0 ELSE blocks - b
      OBVIOUS
    <3> HIDE DEF a, d, b, x
    <3>6. x - Least(d, x) = IF b >= blocks THEN 0 ELSE blocks - b
      BY <3>2, <3>3 DEF Least
    <3> QED
      BY <3>4, <3>5, <3>6
  <2> HIDE DEF P
  <2>3. k \in P
    BY <2>1, <2>2, NatSetInduction
  <2>4. left[k] = Rest(k)
    BY <2>3 DEF P
  <2>5. upTo[k] \in Nat
    BY <1>9
  <2> QED
    BY <2>4, <2>5
<1> DEFINE counts == Doubling[<<blocks, files, low>>]
<1>13. ASSUME NEW k \in 1 .. files
       PROVE  /\ counts[k] \in Nat /\ counts[k] <= low * Power[k - 1]
              /\ counts[k] + low * (Power[k - 1] - 1) <= blocks \/ counts[k] = 0
              /\ blocks - left[k] = (blocks - left[k - 1]) + counts[k]
  <2> DEFINE x == left[k - 1]  y == left[k]  d == low * Power[k - 1]  a == upTo[k - 1]
  <2>1. k - 1 \in Nat /\ k - 1 \in 0 .. files /\ k \in 0 .. files
    OBVIOUS
  <2>2. d \in Nat /\ a \in Nat /\ a = low * (Power[k - 1] - 1)
    BY <1>1, <1>9, <2>1 DEF upTo
  <2>3. x = IF a >= blocks THEN 0 ELSE blocks - a
    BY <1>12, <2>1
  <2>4. y = x - Least(d, x) /\ counts[k] = x - y
    BY <1>7, <1>8
  <2> HIDE DEF x, y, d, a, counts
  <2>5. x \in Nat /\ x <= blocks /\ (x = 0 \/ x + a <= blocks)
    BY <2>2, <2>3
  <2>6. y = IF d <= x THEN x - d ELSE 0
    BY <2>2, <2>4, <2>5 DEF Least
  <2>7. /\ x - y \in Nat /\ x - y <= d
        /\ (x - y) + a <= blocks \/ x - y = 0
        /\ blocks - y = (blocks - x) + (x - y)
    <3>1. CASE d <= x
      BY <2>2, <2>5, <2>6, <3>1
    <3>2. CASE ~(d <= x)
      BY <2>2, <2>5, <2>6, <3>2
    <3> QED
      BY <3>1, <3>2
  <2> QED
    BY <2>2, <2>4, <2>7 DEF x, y, d
<1>14. counts \in Seq(Nat) /\ Len(counts) = files
  <2>1. counts \in [1 .. files -> Nat]
    BY <1>8, <1>13
  <2> HIDE DEF counts
  <2> QED
    BY <2>1
<1> HIDE DEF counts
<1>15. SumOf(counts) = blocks - left[files]
  <2> DEFINE h == [k \in 0 .. files |-> blocks - left[k]]
  <2>1. h[0] = 0
    BY <1>7
  <2>2. \A k \in 1 .. files : h[k] = h[k - 1] + counts[k]
    <3> TAKE k \in 1 .. files
    <3>1. k - 1 \in 0 .. files /\ k \in 0 .. files
      OBVIOUS
    <3> QED
      BY <1>13, <3>1
  <2>3. h[files] = blocks - left[files]
    OBVIOUS
  <2> HIDE DEF h
  <2>4. Sums[counts][files] = h[files]
    BY <1>14, <2>1, <2>2, SumIs
  <2> QED
    BY <1>14, <2>3, <2>4, SumsFacts
<1>16. SumOf(counts) = IF total >= blocks THEN blocks ELSE total
  <2>1. left[files] = Rest(files) /\ upTo[files] \in Nat
    BY <1>9, <1>12
  <2> QED
    BY <1>11, <1>15, <2>1
<1> QED
  BY <1>13, <1>14, <1>16 DEF total, counts

-----------------------------------------------------------------------------
(* Sharing out evenly, and the number and sizes of the files. *)

\* The blocks shared out evenly.
LEMMA UniformFacts ==
    ASSUME NEW blocks \in Nat, NEW files \in Nat \ {0}
    PROVE  /\ Uniform(blocks, files) \in Seq(Nat) /\ Len(Uniform(blocks, files)) = files
           /\ SumOf(Uniform(blocks, files)) = blocks
           /\ files <= blocks => \A k \in 1 .. files : Uniform(blocks, files)[k] > 0
<1> DEFINE q == blocks \div files  r == blocks % files  u == Uniform(blocks, files)
<1>1. /\ q \in Nat /\ r \in Nat /\ r < files /\ files * q \in Nat
      /\ blocks = files * q + r
      /\ files <= blocks => q > 0
  <2>1. q \in Nat /\ r \in Nat /\ r < files /\ blocks = files * q + r
    OBVIOUS
  <2> HIDE DEF q, r
  <2>2. files * q \in Nat
    BY <2>1
  <2>3. q = 0 => files * q = 0
    BY <2>1
  <2>4. ASSUME files <= blocks PROVE q > 0
    <3>1. q # 0
      BY <2>1, <2>3, <2>4
    <3> QED
      BY <2>1, <3>1
  <2> QED
    BY <2>1, <2>2, <2>4
<1>2. u = [k \in 1 .. files |-> q + (IF k <= r THEN 1 ELSE 0)]
  BY DEF Uniform
<1> HIDE DEF q, r, u
<1>3. \A k \in 1 .. files : u[k] = q + (IF k <= r THEN 1 ELSE 0) /\ u[k] \in Nat
  BY <1>1, <1>2
<1>4. u \in Seq(Nat) /\ Len(u) = files
  <2>1. u \in [1 .. files -> Nat]
    BY <1>2, <1>3
  <2> QED
    BY <2>1
<1> DEFINE h == [k \in 0 .. files |-> k * q + (IF k <= r THEN k ELSE r)]
<1>5. h[0] = 0
  BY <1>1
<1>6. \A k \in 1 .. files : h[k] = h[k - 1] + u[k]
  <2> TAKE k \in 1 .. files
  <2>1. PICK m \in Nat : k = m + 1
    <3>1. k - 1 \in Nat /\ k = (k - 1) + 1
      OBVIOUS
    <3> QED
      BY <3>1
  <2>2. h[k - 1] = m * q + (IF m <= r THEN m ELSE r)
    <3>1. k - 1 = m /\ m \in 0 .. files
      BY <2>1
    <3> QED
      BY <3>1
  <2>3. h[k] = k * q + (IF k <= r THEN k ELSE r)
    OBVIOUS
  <2>4. k * q = m * q + q /\ m * q \in Nat
    BY <1>1, <2>1
  <2>5. u[k] = q + (IF k <= r THEN 1 ELSE 0)
    BY <1>3
  <2> DEFINE a == m * q  b == k * q
  <2>6. b = a + q /\ a \in Nat /\ h[k - 1] = a + (IF m <= r THEN m ELSE r)
        /\ h[k] = b + (IF k <= r THEN k ELSE r)
    BY <2>2, <2>3, <2>4
  <2> HIDE DEF a, b, h
  <2> QED
    BY <1>1, <2>1, <2>5, <2>6
<1>7. h[files] = blocks
  <2>1. h[files] = files * q + (IF files <= r THEN files ELSE r)
    OBVIOUS
  <2> DEFINE p == files * q
  <2>2. p \in Nat /\ blocks = p + r /\ h[files] = p + (IF files <= r THEN files ELSE r)
    BY <1>1, <2>1
  <2> HIDE DEF h, p
  <2> QED
    BY <1>1, <2>2
<1> HIDE DEF h
<1>8. Sums[u][files] = h[files]
  <2>1. files \in 0 .. Len(u)
    BY <1>4
  <2>2. \A k \in 1 .. Len(u) : h[k] = h[k - 1] + u[k]
    BY <1>4, <1>6
  <2>3. \A k \in 0 .. Len(u) : Sums[u][k] = h[k]
    BY <1>4, <1>5, <2>2, SumIs
  <2> QED
    BY <2>1, <2>3
<1>9. SumOf(u) = blocks
  BY <1>4, <1>7, <1>8, SumsFacts
<1> QED
  BY <1>1, <1>3, <1>4, <1>9 DEF u

\* The number of bits of a count.
LEMMA FileCountFacts ==
    ASSUME NEW blocks \in Nat
    PROVE  /\ RecoveryFileCount(blocks) \in 0 .. blocks
           /\ Power[RecoveryFileCount(blocks)] > blocks
           /\ blocks > 0 => RecoveryFileCount(blocks) > 0
<1> DEFINE T == { n \in 0 .. blocks : Power[n] > blocks }
           Is(n) == Power[n] > blocks /\ \A k \in 0 .. n - 1 : Power[k] <= blocks
<1>1. /\ \A n \in Nat : Power[n] \in Nat
      /\ Power[0] = 1 /\ blocks < Power[blocks]
  BY PowerFacts
<1>2. \E n \in 0 .. blocks : Is(n)
  <2>1. T \in SUBSET Nat /\ T # {}
    BY <1>1
  <2>2. PICK n \in T : \A k \in T : n <= k
    BY <2>1, LeastOfNats
  <2>3. ASSUME NEW k \in 0 .. n - 1 PROVE Power[k] <= blocks
    <3>1. k \in 0 .. blocks /\ ~(n <= k) /\ k \in Nat
      OBVIOUS
    <3>2. ~(Power[k] > blocks) /\ Power[k] \in Nat
      BY <1>1, <2>2, <3>1
    <3> QED
      BY <3>2
  <2> QED
    BY <2>3
<1> DEFINE m == RecoveryFileCount(blocks)
<1>3. m = CHOOSE n \in 0 .. blocks : Is(n)
  BY DEF RecoveryFileCount
<1>4. m \in 0 .. blocks /\ Is(m)
  <2> HIDE DEF Is
  <2> QED
    BY <1>2, <1>3
<1>5. blocks > 0 => m # 0
  BY <1>1, <1>4
<1> HIDE DEF m
<1>6. blocks > 0 => m > 0
  BY <1>4, <1>5
<1> QED
  BY <1>4, <1>6 DEF m

\* Files that double from the start size on hold all blocks.
LEMMA StartSizeFacts ==
    ASSUME NEW blocks \in Nat, NEW files \in Nat \ {0}
    PROVE  /\ StartSize(blocks, files) \in Nat
           /\ StartSize(blocks, files) * (Power[files] - 1) >= blocks
<1> DEFINE M == Power[files] - 1
           T == { k \in Nat : Power[k] * M >= blocks }
           S == { Power[k] : k \in 0 .. blocks }
           Is(low) == low * M >= blocks /\ (low = 1 \/ (low \div 2) * M < blocks)
<1>1. /\ \A n \in Nat : Power[n] \in Nat \ {0}
      /\ \A n \in Nat \ {0} : Power[n] = 2 * Power[n - 1]
      /\ Power[0] = 1 /\ blocks < Power[blocks] /\ files < Power[files]
  BY PowerFacts
<1>2. M \in Nat \ {0}
  BY <1>1
<1> HIDE DEF M
<1>3. blocks \in T
  <2> DEFINE p == Power[blocks]
  <2>1. p \in Nat /\ blocks <= p
    BY <1>1
  <2> HIDE DEF p
  <2>2. p * 1 <= p * M /\ p * M \in Nat
    BY <1>2, <2>1, Times
  <2>3. p * M >= blocks
    BY <2>1, <2>2
  <2> QED
    BY <2>3 DEF p
<1>4. \E low \in S : Is(low)
  <2>1. T \in SUBSET Nat /\ T # {}
    BY <1>3
  <2> HIDE DEF T
  <2>2. PICK k \in T : \A l \in T : k <= l
    BY <2>1, LeastOfNats
  <2>3. k \in 0 .. blocks /\ Power[k] * M >= blocks
    BY <1>3, <2>1, <2>2 DEF T
  <2>4. CASE k = 0
    BY <1>1, <2>3, <2>4
  <2>5. CASE k # 0
    <3> DEFINE l == k - 1  p == Power[l]
    <3>1. l \in Nat /\ ~(k <= l) /\ k \in Nat \ {0}
      BY <2>3, <2>5
    <3>2. p \in Nat /\ Power[k] = 2 * p
      BY <1>1, <3>1
    <3>3. ~(p * M >= blocks)
      BY <2>2, <3>1 DEF T
    <3> HIDE DEF p
    <3>4. (2 * p) \div 2 = p
      BY <3>2
    <3>5. p * M \in Nat
      BY <1>2, <3>2
    <3>6. p * M < blocks
      BY <3>3, <3>5
    <3>7. Is(Power[k])
      BY <2>3, <3>2, <3>4, <3>6
    <3> QED
      BY <2>3, <3>7
  <2> QED
    BY <2>4, <2>5
<1> DEFINE s == StartSize(blocks, files)
<1>5. s = CHOOSE low \in S : Is(low)
  BY DEF StartSize, M
<1>6. s \in S /\ Is(s)
  <2> HIDE DEF Is, S
  <2> QED
    BY <1>4, <1>5
<1>7. s \in Nat
  BY <1>1, <1>6
<1> QED
  BY <1>6, <1>7 DEF M

\* The files filled from the top leave the rest to those from the bottom: less
\* than two of the largest files, or no file.
LEMMA CappedFacts ==
    ASSUME NEW blocks \in Nat, NEW files \in Nat, NEW largest \in Nat \ {0},
           blocks < Power[CountBits], 2 * largest < Power[CountBits]
    PROVE  LET t == Capped(blocks, files, largest)
               rest == blocks - t * largest
           IN  /\ t \in 0 .. files /\ t * largest \in Nat /\ rest \in Nat
               /\ t = files \/ rest < 2 * largest
               /\ blocks <= 2 * largest => \/ t = 0 /\ rest = blocks
                                           \/ t = 1 /\ rest = largest /\ blocks = 2 * largest
<1> DEFINE Enough(t) == t = files \/ blocks - t * largest < 2 * largest
           Is(t) == Enough(t) /\ \A u \in 0 .. t - 1 : blocks - u * largest >= 2 * largest
           T == { t \in 0 .. files : Enough(t) }
<1>1. \E t \in 0 .. files : Is(t)
  <2>1. T \in SUBSET Nat /\ T # {}
    <3>1. files \in T
      OBVIOUS
    <3> QED
      BY <3>1
  <2> HIDE DEF T
  <2>2. PICK t \in T : \A u \in T : t <= u
    BY <2>1, LeastOfNats
  <2>3. t \in 0 .. files /\ Enough(t)
    BY DEF T
  <2>4. ASSUME NEW u \in 0 .. t - 1 PROVE blocks - u * largest >= 2 * largest
    <3>1. u \in Nat /\ u \in 0 .. files /\ ~(t <= u)
      BY <2>3
    <3>2. ~Enough(u)
      BY <2>2, <3>1 DEF T
    <3>3. ~(blocks - u * largest < 2 * largest)
      BY <3>2
    <3> DEFINE x == u * largest
    <3>4. x \in Nat
      BY <3>1
    <3> HIDE DEF x
    <3>5. ~(blocks - x < 2 * largest) => blocks - x >= 2 * largest
      BY <3>4
    <3> QED
      BY <3>3, <3>5 DEF x
  <2> QED
    BY <2>3, <2>4
<1>2. PICK t \in 0 .. files : Is(t)
  BY <1>1
<1> DEFINE IsCut(v) ==
             /\ v = files \/ Cut(blocks - v * largest) < Cut(2 * largest)
             /\ \A u \in 0 .. v - 1 : Cut(blocks - u * largest) >= Cut(2 * largest)
<1>3. t \in 0 .. files /\ Is(t) /\ Capped(blocks, files, largest) = t
  <2>1. Cut(2 * largest) = 2 * largest
    BY CutFits
  <2>2. ASSUME NEW u \in 0 .. t
        PROVE  blocks - u * largest \in Nat /\ Cut(blocks - u * largest) = blocks - u * largest
    <3> DEFINE y == u * largest
    <3>1. u \in Nat /\ y \in Nat /\ (u = 0 => y = 0)
      BY <1>2
    <3>2. ASSUME u # 0 PROVE blocks - y >= largest
      <4>1. PICK v \in Nat : u = v + 1
        <5>1. u - 1 \in Nat /\ u = (u - 1) + 1
          BY <3>1, <3>2
        <5> QED
          BY <5>1
      <4>2. v \in 0 .. t - 1
        BY <1>2, <4>1
      <4>3. blocks - v * largest >= 2 * largest
        BY <1>2, <4>2
      <4> DEFINE z == v * largest
      <4>4. y = z + largest /\ z \in Nat /\ blocks - z >= 2 * largest
        BY <4>1, <4>3
      <4> HIDE DEF y, z
      <4> QED
        BY <3>1, <4>4
    <3> HIDE DEF y
    <3>3. blocks - y \in Nat /\ blocks - y <= blocks
      BY <3>1, <3>2
    <3>4. blocks - y < Power[CountBits]
      <4>1. Power[CountBits] \in Nat
        BY PowerFacts, CreateAssumption
      <4> QED
        BY <3>3, <4>1
    <3>5. Cut(blocks - y) = blocks - y
      BY <3>3, <3>4, CutFits
    <3> QED
      BY <3>3, <3>5 DEF y
  <2>3. IsCut(t)
    <3>1. t \in 0 .. t /\ \A u \in 0 .. t - 1 : u \in 0 .. t
      BY <1>2
    <3>2. t = files \/ Cut(blocks - t * largest) < Cut(2 * largest)
      BY <1>2, <2>1, <2>2, <3>1
    <3>3. ASSUME NEW u \in 0 .. t - 1 PROVE Cut(blocks - u * largest) >= Cut(2 * largest)
      BY <1>2, <2>1, <2>2, <3>1
    <3> QED
      BY <3>2, <3>3
  <2>4. ASSUME NEW v \in 0 .. files, IsCut(v) PROVE v = t
    <3>1. CASE v < t
      <4>1. v \in 0 .. t - 1 /\ v \in 0 .. t /\ v # files
        BY <1>2, <3>1
      <4> DEFINE c == Cut(blocks - v * largest)
      <4>2. c >= 2 * largest /\ c < 2 * largest /\ c \in Nat
        BY <2>1, <2>2, <2>3, <2>4, <4>1
      <4> HIDE DEF c
      <4> QED
        BY <4>2
    <3>2. CASE t < v
      <4>1. t \in 0 .. v - 1 /\ t \in 0 .. t /\ t # files
        BY <1>2, <3>2
      <4> DEFINE c == Cut(blocks - t * largest)
      <4>2. c >= 2 * largest /\ c < 2 * largest /\ c \in Nat
        BY <2>1, <2>2, <2>3, <2>4, <4>1
      <4> HIDE DEF c
      <4> QED
        BY <4>2
    <3> QED
      BY <1>2, <3>1, <3>2
  <2>5. Capped(blocks, files, largest) = CHOOSE v \in 0 .. files : IsCut(v)
    BY DEF Capped
  <2> HIDE DEF Is, IsCut
  <2>6. Capped(blocks, files, largest) = t
    BY <2>3, <2>4, <2>5
  <2> QED
    BY <1>2, <2>6
<1> DEFINE x == t * largest
<1>4. t \in Nat /\ x \in Nat
  BY <1>3
<1>5. t = files \/ blocks - x < 2 * largest
  BY <1>3
<1>6. t = 0 => x = 0
  BY <1>3
<1>7. ASSUME t # 0
      PROVE  blocks - x >= largest /\ blocks >= 2 * largest
  <2>1. PICK u \in Nat : t = u + 1
    <3>1. t - 1 \in Nat /\ t = (t - 1) + 1
      BY <1>4, <1>7
    <3> QED
      BY <3>1
  <2>2. u \in 0 .. t - 1 /\ 0 \in 0 .. t - 1
    BY <1>4, <2>1
  <2>3. blocks - u * largest >= 2 * largest /\ blocks - 0 * largest >= 2 * largest
    BY <1>3, <2>2
  <2>4. x = u * largest + largest /\ u * largest \in Nat /\ 0 * largest = 0
    BY <2>1
  <2> DEFINE y == u * largest
  <2>5. x = y + largest /\ y \in Nat /\ blocks - y >= 2 * largest /\ blocks >= 2 * largest
    BY <2>3, <2>4
  <2> HIDE DEF y, x
  <2> QED
    BY <1>4, <2>5
<1>8. ASSUME t # 0, t # 1 PROVE blocks > 2 * largest
  <2>1. 1 \in 0 .. t - 1
    BY <1>4, <1>8
  <2>2. blocks - 1 * largest >= 2 * largest
    BY <1>3, <2>1
  <2> QED
    BY <2>2
<1>9. t = 1 => x = largest
  OBVIOUS
<1> HIDE DEF x, Is
<1>10. blocks - x \in Nat
  BY <1>4, <1>6, <1>7
<1>11. ASSUME blocks <= 2 * largest
       PROVE  \/ t = 0 /\ blocks - x = blocks
              \/ t = 1 /\ blocks - x = largest /\ blocks = 2 * largest
  <2>1. CASE t = 0
    BY <1>6, <2>1
  <2>2. CASE t # 0
    <3>1. t = 1
      BY <1>8, <1>11, <2>2
    <3> QED
      BY <1>7, <1>9, <1>11, <3>1
  <2> QED
    BY <2>1, <2>2
<1> QED
  BY <1>3, <1>4, <1>5, <1>10, <1>11 DEF x

-----------------------------------------------------------------------------
(* Leaving out the empty runs. *)

\* q holds those of the first k runs that have blocks, in their order.
Filtered(q, runs, k) ==
    /\ q \in Seq(Run)
    /\ \A m \in 1 .. Len(q) : q[m].count # 0 /\ \E j \in 1 .. k : q[m] = runs[j]
    /\ \A l, m \in 1 .. Len(q) : l < m => q[l].exponent + q[l].count <= q[m].exponent
    /\ \A j \in 1 .. k : runs[j].count # 0 => \E m \in 1 .. Len(q) : q[m] = runs[j]
    /\ (\A j \in 1 .. k : runs[j].count # 0) => Len(q) = k

\* A run that is appended, or left out for want of blocks, changes nothing of it.
LEMMA FilterStep ==
    ASSUME NEW runs, NEW lo \in Nat, NEW hi \in Nat, Ordered(runs, lo, hi),
           NEW k \in Nat, k + 1 <= Len(runs), NEW q, Filtered(q, runs, k)
    PROVE  /\ runs[k + 1].count = 0 => Filtered(q, runs, k + 1)
           /\ runs[k + 1].count # 0 => Filtered(Append(q, runs[k + 1]), runs, k + 1)
<1> DEFINE n == Len(runs)  r == runs[k + 1]  c == Len(q)
<1>1. runs \in Seq(Run) /\ n \in Nat /\ k + 1 \in 1 .. n /\ r \in Run
  <2>1. runs \in Seq(Run)
    BY DEF Ordered
  <2>2. n \in Nat /\ k + 1 \in 1 .. n
    BY <2>1
  <2> QED
    BY <2>1, <2>2, ElementOfSeq
<1>2. q \in Seq(Run) /\ c \in Nat
  BY DEF Filtered
<1>3. /\ \A m \in 1 .. c : q[m].count # 0 /\ \E j \in 1 .. k : q[m] = runs[j]
      /\ \A l, m \in 1 .. c : l < m => q[l].exponent + q[l].count <= q[m].exponent
      /\ \A j \in 1 .. k : runs[j].count # 0 => \E m \in 1 .. c : q[m] = runs[j]
      /\ (\A j \in 1 .. k : runs[j].count # 0) => c = k
  BY DEF Filtered
<1>4. \A j \in 1 .. k : j \in 1 .. n /\ runs[j].exponent + runs[j].count <= r.exponent
  BY <1>1 DEF Ordered
<1>5. \A j \in 1 .. k + 1 : j \in 1 .. k \/ j = k + 1
  OBVIOUS
<1> HIDE DEF n, c
<1>6. ASSUME r.count = 0 PROVE Filtered(q, runs, k + 1)
  <2>1. \A m \in 1 .. c : q[m].count # 0 /\ \E j \in 1 .. k + 1 : q[m] = runs[j]
    BY <1>3
  <2>2. \A j \in 1 .. k + 1 : runs[j].count # 0 => \E m \in 1 .. c : q[m] = runs[j]
    BY <1>3, <1>5, <1>6
  <2>3. ~(\A j \in 1 .. k + 1 : runs[j].count # 0)
    BY <1>6
  <2> QED
    BY <1>2, <1>3, <2>1, <2>2, <2>3 DEF Filtered, c
<1>7. ASSUME r.count # 0 PROVE Filtered(Append(q, r), runs, k + 1)
  <2> DEFINE p == Append(q, r)
  <2> HIDE DEF r
  <2>1. /\ p \in Seq(Run) /\ Len(p) = c + 1
        /\ \A m \in 1 .. c : p[m] = q[m]
        /\ p[c + 1] = r
    BY <1>1, <1>2, AppendProperties DEF c
  <2> HIDE DEF p
  <2>2. \A m \in 1 .. c + 1 : m \in 1 .. c \/ m = c + 1
    BY <1>2
  <2>3. r = runs[k + 1] /\ k + 1 \in 1 .. k + 1 /\ c + 1 \in 1 .. c + 1
    BY <1>2 DEF r
  <2>4. \A m \in 1 .. c + 1 : p[m].count # 0 /\ \E j \in 1 .. k + 1 : p[m] = runs[j]
    <3> TAKE m \in 1 .. c + 1
    <3>1. CASE m \in 1 .. c
      <4>1. PICK j \in 1 .. k : q[m] = runs[j]
        BY <1>3, <3>1
      <4>2. p[m] = q[m] /\ q[m].count # 0
        BY <1>3, <2>1, <3>1
      <4>3. p[m] = runs[j] /\ j \in 1 .. k + 1
        BY <4>1, <4>2
      <4> QED
        BY <4>2, <4>3
    <3>2. CASE m = c + 1
      BY <1>7, <2>1, <2>3, <3>2
    <3> QED
      BY <2>2, <3>1, <3>2
  <2>5. ASSUME NEW l \in 1 .. c + 1, NEW m \in 1 .. c + 1, l < m
        PROVE  p[l].exponent + p[l].count <= p[m].exponent
    <3>1. l \in 1 .. c /\ p[l] = q[l]
      BY <1>2, <2>1, <2>5
    <3>2. CASE m \in 1 .. c
      BY <1>3, <2>1, <2>5, <3>1, <3>2
    <3>3. CASE m = c + 1
      <4>1. PICK j \in 1 .. k : q[l] = runs[j]
        BY <1>3, <3>1
      <4> QED
        BY <1>4, <2>1, <3>1, <3>3, <4>1 DEF r
    <3> QED
      BY <2>2, <3>2, <3>3
  <2>6. ASSUME NEW j \in 1 .. k + 1, runs[j].count # 0
        PROVE  \E m \in 1 .. c + 1 : p[m] = runs[j]
    <3>1. CASE j \in 1 .. k
      <4>1. PICK m \in 1 .. c : q[m] = runs[j]
        BY <1>3, <2>6, <3>1
      <4>2. m \in 1 .. c + 1 /\ p[m] = runs[j]
        BY <1>2, <2>1, <4>1
      <4> QED
        BY <4>2
    <3>2. CASE j = k + 1
      BY <2>1, <2>3, <3>2
    <3> QED
      BY <1>5, <3>1, <3>2
  <2>7. (\A j \in 1 .. k + 1 : runs[j].count # 0) => c + 1 = k + 1
    <3>1. 1 .. k \subseteq 1 .. k + 1
      OBVIOUS
    <3> QED
      BY <1>3, <3>1
  <2>8. Filtered(p, runs, k + 1)
    BY <2>1, <2>4, <2>5, <2>6, <2>7 DEF Filtered
  <2> QED
    BY <2>8 DEF p, r
<1> QED
  BY <1>6, <1>7

\* The recovery files are the runs that have blocks, in their order.
LEMMA KeptFacts ==
    ASSUME NEW runs, NEW lo \in Nat, NEW hi \in Nat, Ordered(runs, lo, hi)
    PROVE  /\ Ordered(Kept[runs], lo, hi)
           /\ \A m \in 1 .. Len(Kept[runs]) :
                Kept[runs][m].count # 0 /\ \E j \in 1 .. Len(runs) : Kept[runs][m] = runs[j]
           /\ Covers(runs, lo, hi) => Covers(Kept[runs], lo, hi)
           /\ (\A j \in 1 .. Len(runs) : runs[j].count # 0) => Len(Kept[runs]) = Len(runs)
<1> DEFINE n == Len(runs)
           next(k, q) == IF runs[k].count = 0 THEN q ELSE Append(q, runs[k])
           Eq(f) == f = [k \in 0 .. n |-> IF k = 0 THEN << >> ELSE next(k, f[k - 1])]
           F == [p \in Nat \X Seq(Run) |-> IF p[1] \in 1 .. n THEN next(p[1], p[2]) ELSE << >>]
<1>1. runs \in Seq(Run) /\ n \in Nat
  BY DEF Ordered
<1>2. /\ F \in StepOn(Seq(Run)) /\ << >> \in Seq(Run)
      /\ \A k \in 1 .. n, q \in Seq(Run) : F[<<k, q>>] = next(k, q)
  <2>1. << >> \in Seq(Run)
    BY EmptySeq
  <2>2. \A k \in 1 .. n, q \in Seq(Run) : next(k, q) \in Seq(Run)
    <3> TAKE k \in 1 .. n, q \in Seq(Run)
    <3>1. runs[k] \in Run
      BY <1>1, ElementOfSeq
    <3>2. Append(q, runs[k]) \in Seq(Run)
      BY <3>1, AppendProperties
    <3> QED
      BY <3>2
  <2> HIDE DEF next
  <2>3. \A p \in Nat \X Seq(Run) : (IF p[1] \in 1 .. n THEN next(p[1], p[2]) ELSE << >>) \in Seq(Run)
    BY <2>1, <2>2
  <2>4. F \in StepOn(Seq(Run))
    BY <2>3 DEF StepOn
  <2>5. \A k \in 1 .. n : k \in Nat
    OBVIOUS
  <2> QED
    BY <2>1, <2>4, <2>5
<1> HIDE DEF F
<1>3. PICK g : DefinedBy(Seq(Run), << >>, F, g)
  BY <1>2, Recursion
<1>4. Eq([k \in 0 .. n |-> g[k]])
  <2>1. g[0] = << >>
    BY <1>3 DEF DefinedBy
  <2>2. ASSUME NEW k \in 1 .. n PROVE g[k] = next(k, g[k - 1]) /\ k - 1 \in 0 .. n
    <3>1. k \in Nat \ {0} /\ k - 1 \in 0 .. n
      BY <1>1
    <3>2. g[k - 1] \in Seq(Run) /\ g[k] = F[<<k, g[k - 1]>>]
      BY <1>3, <3>1 DEF DefinedBy
    <3> HIDE DEF next
    <3> QED
      BY <1>2, <3>1, <3>2
  <2> QED
    BY <2>1, <2>2
<1> DEFINE K == CHOOSE f : Eq(f)
<1>5. Kept[runs] = K[n]
  BY <1>1, Zenon DEF Kept
<1>6. Eq(K)
  <2> HIDE DEF Eq
  <2> QED
    BY <1>4
<1> HIDE DEF K
<1>7. K[0] = << >> /\ \A k \in 1 .. n : K[k] = next(k, K[k - 1])
  <2> HIDE DEF next, n
  <2>1. K[0] = << >>
    BY <1>1, <1>6
  <2>2. \A k \in 1 .. n : k \in 0 .. n /\ k # 0
    BY <1>1
  <2> QED
    BY <1>6, <2>1, <2>2
<1> HIDE DEF Eq
<1>8. Filtered(K[n], runs, n)
  <2> DEFINE P == { k \in Nat : k <= n => Filtered(K[k], runs, k) }
  <2>1. 0 \in P
    <3>1. Filtered(<< >>, runs, 0)
      BY EmptySeq DEF Filtered
    <3> QED
      BY <1>7, <3>1
  <2>2. ASSUME NEW k \in Nat, k \in P PROVE k + 1 \in P
    <3> SUFFICES ASSUME k + 1 <= n PROVE Filtered(K[k + 1], runs, k + 1)
      OBVIOUS
    <3>1. k + 1 \in 1 .. n /\ (k + 1) - 1 = k /\ Filtered(K[k], runs, k)
      BY <1>1, <2>2
    <3>2. K[k + 1] = next(k + 1, K[k])
      BY <1>7, <3>1
    <3>3. /\ runs[k + 1].count = 0 => Filtered(K[k], runs, k + 1)
          /\ runs[k + 1].count # 0 => Filtered(Append(K[k], runs[k + 1]), runs, k + 1)
      BY <3>1, FilterStep
    <3> QED
      BY <3>2, <3>3
  <2> HIDE DEF P
  <2>3. n \in P
    BY <1>1, <2>1, <2>2, NatSetInduction
  <2> QED
    BY <1>1, <2>3 DEF P
<1> DEFINE q == Kept[runs]
<1>9. Filtered(q, runs, n)
  BY <1>5, <1>8
<1> HIDE DEF q, n
<1>10. Ordered(q, lo, hi)
  <2>1. \A m \in 1 .. Len(q) : lo <= q[m].exponent /\ q[m].exponent + q[m].count <= hi
    <3> TAKE m \in 1 .. Len(q)
    <3>1. PICK j \in 1 .. n : q[m] = runs[j]
      BY <1>9 DEF Filtered
    <3>2. lo <= runs[j].exponent /\ runs[j].exponent + runs[j].count <= hi
      BY <3>1 DEF Ordered, n
    <3> QED
      BY <3>1, <3>2
  <2> QED
    BY <1>9, <2>1 DEF Filtered, Ordered
<1>11. ASSUME Covers(runs, lo, hi) PROVE Covers(q, lo, hi)
  <2> SUFFICES ASSUME NEW e \in lo .. hi - 1
               PROVE  \E m \in 1 .. Len(q) : e \in Exponents(q[m])
    BY DEF Covers
  <2>1. PICK j \in 1 .. n : e \in Exponents(runs[j])
    BY <1>11 DEF Covers, n
  <2>2. runs[j] \in Run
    BY <1>1, <2>1, ElementOfSeq DEF n
  <2>3. runs[j].count # 0
    <3> DEFINE r == runs[j]
    <3> HIDE DEF r
    <3>1. /\ r.exponent \in Nat /\ r.count \in Nat
          /\ Exponents(r) = r.exponent .. r.exponent + r.count - 1
      BY <2>2, RunParts DEF r
    <3>2. e \in r.exponent .. r.exponent + r.count - 1
      BY <2>1, <3>1 DEF r
    <3>3. r.count # 0
      BY <3>1, <3>2
    <3> QED
      BY <3>3 DEF r
  <2>4. PICK m \in 1 .. Len(q) : q[m] = runs[j]
    BY <1>9, <2>1, <2>3 DEF Filtered
  <2> QED
    BY <2>1, <2>4
<1> QED
  BY <1>9, <1>10, <1>11 DEF Filtered, q, n

-----------------------------------------------------------------------------
(* Doubling up to the largest file, as -l asks. *)

\* What ends by mid ends by hi.
LEMMA OrderedWithin ==
    ASSUME NEW runs, NEW lo \in Nat, NEW mid \in Nat, NEW hi \in Nat, Ordered(runs, lo, mid), mid <= hi
    PROVE  Ordered(runs, lo, hi)
<1>1. runs \in Seq(Run)
  BY DEF Ordered
<1>2. ASSUME NEW k \in 1 .. Len(runs)
      PROVE  lo <= runs[k].exponent /\ runs[k].exponent + runs[k].count <= hi
  <2> DEFINE r == runs[k]
  <2>1. r \in Run
    BY <1>1, ElementOfSeq
  <2>2. lo <= r.exponent /\ r.exponent + r.count <= mid
    BY DEF Ordered
  <2> HIDE DEF r
  <2>3. r.exponent \in Nat /\ r.count \in Nat
    BY <2>1, RunParts
  <2>4. lo <= r.exponent /\ r.exponent + r.count <= hi
    BY <2>2, <2>3
  <2> QED
    BY <2>4 DEF r
<1> QED
  BY <1>1, <1>2 DEF Ordered

\* Files of one size, one after the other.
LEMMA SameSize ==
    ASSUME NEW files \in Nat, NEW largest \in Nat
    PROVE  LET counts == [k \in 1 .. files |-> largest]
           IN  /\ counts \in Seq(Nat) /\ Len(counts) = files
               /\ SumOf(counts) = files * largest
               /\ \A k \in 0 .. files : Sums[counts][k] = k * largest
<1> DEFINE c == [k \in 1 .. files |-> largest]
           h == [k \in 0 .. files |-> k * largest]
<1>1. c \in Seq(Nat) /\ Len(c) = files /\ \A k \in 1 .. files : c[k] = largest
  OBVIOUS
<1>2. h[0] = 0 /\ \A k \in 0 .. files : h[k] = k * largest
  OBVIOUS
<1>3. \A k \in 1 .. files : h[k] = h[k - 1] + largest
  <2> TAKE k \in 1 .. files
  <2>1. PICK m \in Nat : k = m + 1
    <3>1. k - 1 \in Nat /\ k = (k - 1) + 1
      OBVIOUS
    <3> QED
      BY <3>1
  <2>2. k - 1 = m /\ m \in 0 .. files /\ k \in 0 .. files
    BY <2>1
  <2>3. k * largest = m * largest + largest
    BY <2>1
  <2> QED
    BY <1>2, <2>2, <2>3
<1> HIDE DEF c, h
<1>4. \A k \in 0 .. Len(c) : Sums[c][k] = h[k]
  <2>1. \A k \in 1 .. Len(c) : h[k] = h[k - 1] + c[k]
    BY <1>1, <1>3
  <2> QED
    BY <1>1, <1>2, <2>1, SumIs
<1>5. \A k \in 0 .. files : Sums[c][k] = k * largest
  BY <1>1, <1>2, <1>4
<1>6. SumOf(c) = Sums[c][files] /\ files \in 0 .. files
  BY <1>1, SumsFacts
<1> QED
  BY <1>1, <1>5, <1>6 DEF c

\* -l: what the files from the bottom hold, and those from the top.
LEMMA LimitedFacts ==
    ASSUME NEW first \in Nat, NEW blocks \in Nat, NEW files \in Nat, NEW largest \in Nat \ {0},
           first + blocks < Power[CountBits], 2 * largest < Power[CountBits]
    PROVE  LET runs == Limited(first, blocks, files, largest)
           IN  /\ Ordered(runs, first, first + blocks)
               /\ \A k \in 1 .. Len(runs) : runs[k].count <= largest
               /\ (blocks <= 2 * largest /\ Power[files] > blocks /\ (blocks > 0 => files > 0))
                    => Covers(runs, first, first + blocks)
<1> DEFINE capped == Capped(blocks, files, largest)
           x == capped * largest
           rest == blocks - x
           low == Doubling[<<rest, files - capped, 1>>]
           high == [k \in 1 .. capped |-> largest]
           bottom == Runs(first, low)
           top == Runs(first + rest, high)
           total == 1 * (Power[files - capped] - 1)
<1>1. /\ capped \in 0 .. files /\ x \in Nat /\ rest \in Nat
      /\ capped = files \/ rest < 2 * largest
      /\ blocks <= 2 * largest => \/ capped = 0 /\ rest = blocks
                                  \/ capped = 1 /\ rest = largest /\ blocks = 2 * largest
  <2>1. blocks < Power[CountBits]
    BY WidthType
  <2> QED
    BY <2>1, CappedFacts
<1>2. files - capped \in Nat /\ capped \in Nat
  BY <1>1
<1>3. /\ low \in Seq(Nat) /\ Len(low) = files - capped
      /\ SumOf(low) = IF total >= rest THEN rest ELSE total
      /\ \A k \in 1 .. files - capped :
            /\ low[k] <= 1 * Power[k - 1]
            /\ low[k] + 1 * (Power[k - 1] - 1) <= rest \/ low[k] = 0
  <2> DEFINE m == files - capped
  <2>1. 1 \in Nat /\ rest \in Nat /\ m \in Nat
    BY <1>1, <1>2
  <2> HIDE DEF rest, m
  <2>2. LET counts == Doubling[<<rest, m, 1>>]
        IN  /\ counts \in Seq(Nat) /\ Len(counts) = m
            /\ SumOf(counts) = IF 1 * (Power[m] - 1) >= rest THEN rest ELSE 1 * (Power[m] - 1)
            /\ \A k \in 1 .. m :
                  /\ counts[k] <= 1 * Power[k - 1]
                  /\ counts[k] + 1 * (Power[k - 1] - 1) <= rest \/ counts[k] = 0
    BY <2>1, DoublingFacts
  <2> QED
    BY <2>2 DEF m
<1>4. high \in Seq(Nat) /\ Len(high) = capped /\ SumOf(high) = x
  BY <1>2, SameSize
<1>5. Limited(first, blocks, files, largest) = bottom \o top
  <2> DEFINE runs == Top(first, blocks, capped, largest)
  <2>1. ASSUME NEW k \in 1 .. capped
        PROVE  first + blocks - (capped - k + 1) * largest = (first + rest) + Sums[high][k - 1]
    <3> DEFINE c == capped
    <3>1. c \in Nat /\ k - 1 \in 0 .. c /\ capped - k + 1 \in Nat
      BY <1>2
    <3>2. Sums[high][k - 1] = (k - 1) * largest
      BY <1>2, <3>1, SameSize
    <3> DEFINE l == k - 1  m == capped - k + 1
    <3>3. l \in Nat /\ m \in Nat /\ c = l + m
      BY <3>1
    <3> HIDE DEF l, m, c
    <3>4. c * largest = l * largest + m * largest /\ l * largest \in Nat /\ m * largest \in Nat
      BY <3>3
    <3> DEFINE p == l * largest  q == m * largest
    <3>5. x = p + q /\ p \in Nat /\ q \in Nat
      BY <3>4 DEF c
    <3> HIDE DEF p, q, x
    <3>6. first + blocks - q = (first + (blocks - x)) + p
      BY <1>1, <3>5
    <3> QED
      BY <3>2, <3>6 DEF p, q, l, m
  <2>2. top = [k \in 1 .. capped |->
                 [exponent |-> Cut((first + rest) + Sums[high][k - 1]), count |-> largest]]
    BY <1>4 DEF Runs
  <2> HIDE DEF capped, high, rest
  <2>3. top = runs
    BY <2>1, <2>2 DEF Top
  <2>4. Cut(rest) = rest
    <3>1. rest \in Nat /\ rest <= blocks
      BY <1>1 DEF rest
    <3>2. rest < Power[CountBits]
      BY <3>1, WidthType
    <3> QED
      BY <3>1, <3>2, CutFits
  <2> QED
    BY <2>3, <2>4 DEF Limited, capped, rest
<1>6. /\ Len(top) = capped /\ \A k \in 1 .. capped : top[k].count = largest
      /\ Ordered(top, first + rest, first + blocks) /\ Covers(top, first + rest, first + blocks)
  <2>1. first + rest \in Nat /\ (first + rest) + SumOf(high) = first + blocks
    <3>1. SumOf(high) = x /\ x \in Nat /\ blocks - x \in Nat
      BY <1>1, <1>4
    <3> HIDE DEF x, high
    <3>2. first + (blocks - x) \in Nat /\ (first + (blocks - x)) + x = first + blocks
      BY <3>1
    <3> QED
      BY <3>1, <3>2
  <2>2. \A k \in 1 .. capped : high[k] = largest
    OBVIOUS
  <2> HIDE DEF high, rest, capped
  <2> QED
    BY <1>4, <2>1, <2>2, RunsFacts
<1>7. /\ Len(bottom) = files - capped /\ \A k \in 1 .. files - capped : bottom[k].count = low[k]
      /\ Ordered(bottom, first, first + SumOf(low)) /\ Covers(bottom, first, first + SumOf(low))
  <2>1. first + SumOf(low) < Power[CountBits]
    <3> DEFINE s == SumOf(low)
    <3>1. rest \in Nat /\ rest <= blocks
      BY <1>1 DEF rest
    <3>2. Power[files - capped] \in Nat \ {0}
      BY <1>2, PowerFacts
    <3>3. total \in Nat
      BY <3>2
    <3>4. s = IF total >= rest THEN rest ELSE total
      BY <1>3
    <3> HIDE DEF s, rest, total
    <3>5. s \in Nat /\ s <= blocks
      BY <3>1, <3>3, <3>4
    <3> QED
      BY <3>5, WidthType DEF s
  <2> QED
    BY <1>3, <2>1, RunsFacts
<1> HIDE DEF capped, x, low, high, bottom, top
<1>8. /\ Power[files - capped] \in Nat \ {0} /\ total \in Nat
      /\ SumOf(low) \in Nat /\ SumOf(low) <= rest
      /\ \A k \in 1 .. files - capped : low[k] \in Nat /\ Power[k - 1] \in Nat
  <2>1. Power[files - capped] \in Nat \ {0}
    BY <1>2, PowerFacts
  <2>2. total \in Nat
    BY <2>1
  <2>3. \A k \in 1 .. files - capped : low[k] \in Nat
    BY <1>3, ElementOfSeq
  <2>4. \A k \in 1 .. files - capped : k - 1 \in Nat
    OBVIOUS
  <2>5. \A k \in 1 .. files - capped : Power[k - 1] \in Nat
    BY <2>4, PowerFacts
  <2> HIDE DEF rest, total
  <2>6. SumOf(low) \in Nat /\ SumOf(low) <= rest
    BY <1>1, <1>3, <2>2
  <2> QED
    BY <2>1, <2>2, <2>3, <2>5, <2>6
<1> DEFINE used == SumOf(low)
<1> HIDE DEF used, rest
<1>9. /\ first \in Nat /\ first + used \in Nat /\ first + rest \in Nat /\ first + blocks \in Nat
      /\ first <= first + rest /\ first + used <= first + rest /\ first + used <= first + blocks
  <2>1. rest <= blocks
    BY <1>1 DEF rest
  <2> QED
    BY <1>1, <1>8, <2>1 DEF used
<1> DEFINE both == bottom \o top
<1>10. /\ Ordered(both, first, first + blocks)
       /\ used = rest => Covers(both, first, first + blocks)
  <2>1. Ordered(bottom, first, first + used) /\ Covers(bottom, first, first + used)
    BY <1>7 DEF used
  <2>2. Ordered(top, first + rest, first + blocks) /\ Covers(top, first + rest, first + blocks)
    BY <1>6
  <2> QED
    BY <1>9, <2>1, <2>2, ConcatOrdered
<1>11. ASSUME NEW k \in 1 .. Len(both) PROVE both[k].count <= largest
  <2>1. bottom \in Seq(Run) /\ top \in Seq(Run)
    BY <1>6, <1>7 DEF Ordered
  <2>2. k \in 1 .. Len(bottom) + Len(top)
        /\ both[k] = IF k <= Len(bottom) THEN bottom[k] ELSE top[k - Len(bottom)]
    BY <2>1, ConcatProperties
  <2> HIDE DEF both
  <2>3. CASE k <= Len(bottom)
    <3>1. k \in 1 .. files - capped /\ both[k].count = low[k]
      BY <1>2, <1>7, <2>2, <2>3
    <3>2. /\ low[k] \in Nat /\ Power[k - 1] \in Nat
          /\ low[k] <= 1 * Power[k - 1]
          /\ low[k] + 1 * (Power[k - 1] - 1) <= rest \/ low[k] = 0
      BY <1>3, <1>8, <3>1
    <3>3. rest < 2 * largest
      BY <1>1, <1>2, <3>1
    <3> DEFINE a == low[k]  p == Power[k - 1]
    <3>4. a \in Nat /\ p \in Nat /\ a <= 1 * p /\ (a + 1 * (p - 1) <= rest \/ a = 0)
      BY <3>2
    <3> HIDE DEF a, p
    <3>5. a <= largest
      BY <1>1, <3>3, <3>4
    <3> QED
      BY <3>1, <3>5 DEF a
  <2>4. CASE ~(k <= Len(bottom))
    <3>1. k - Len(bottom) \in 1 .. capped
      BY <1>2, <1>6, <1>7, <2>2, <2>4
    <3> QED
      BY <1>6, <2>2, <2>4, <3>1
  <2> QED
    BY <2>3, <2>4
<1>12. ASSUME blocks <= 2 * largest, Power[files] > blocks, blocks > 0 => files > 0
       PROVE  used = rest
  <2>1. total >= rest
    <3>1. CASE capped = 0 /\ rest = blocks
      <4>1. files - capped = files
        BY <1>2, <3>1
      <4> QED
        BY <1>8, <1>12, <3>1, <4>1
    <3>2. CASE capped = 1 /\ rest = largest /\ blocks = 2 * largest
      <4> DEFINE m == files - 1  p == Power[m]
      <4>1. files \in Nat \ {0} /\ m \in Nat /\ files - capped = m
        BY <1>1, <3>2
      <4>2. Power[files] = 2 * p /\ p \in Nat
        BY <4>1, PowerFacts
      <4>3. total = p - 1
        BY <4>1, <4>2
      <4> HIDE DEF p
      <4> QED
        BY <1>12, <3>2, <4>2, <4>3
    <3> QED
      BY <1>1, <1>12, <3>1, <3>2
  <2> QED
    BY <1>3, <2>1 DEF used
<1> QED
  BY <1>5, <1>10, <1>11, <1>12

-----------------------------------------------------------------------------
(* Every scheme. *)

\* The most blocks in a file that -l allows.
Cap == IF LargestBlocks = 0 THEN 1 ELSE LargestBlocks

\* Whatever the scheme, the recovery files are apart and hold none but the
\* blocks there are; they hold all of them, and as many as -l allows.
LEMMA AllocateFacts ==
    ASSUME request \in Request, LargestBlocks \in Nat,
           NEW first \in Nat, NEW blocks \in Nat, NEW files \in Nat, blocks > 0 => files > 0,
           first + blocks < Power[CountBits], 2 * Cap < Power[CountBits]
    PROVE  LET runs == Allocate(first, blocks, files)
           IN  /\ Ordered(runs, first, first + blocks)
               /\ \/ request.scheme # "limited"
                  \/ blocks <= 2 * LargestBlocks /\ Power[files] > blocks
                  => Covers(runs, first, first + blocks)
               /\ request.scheme = "limited" => \A k \in 1 .. Len(runs) : runs[k].count <= Cap
               /\ request.scheme = "uniform" /\ files <= blocks => Len(runs) = files
<1> DEFINE runs == Allocate(first, blocks, files)
           limited == Limited(first, blocks, files, Cap)
           even == Uniform(blocks, files)
           low == StartSize(blocks, files)
           doubling == Doubling[<<blocks, files, low>>]
<1>1. request.scheme \in {"variable", "uniform", "limited"}
  BY DEF Request
<1>2. Cap \in Nat \ {0}
  BY DEF Cap
<1>3. first + blocks \in Nat
  OBVIOUS
<1>4. CASE blocks = 0
  <2>1. runs = << >>
    BY <1>4 DEF Allocate
  <2>2. << >> \in Seq(Run) /\ Len(<< >>) = 0
    BY EmptySeq
  <2> HIDE DEF runs
  <2>3. Ordered(runs, first, first + blocks)
    BY <2>1, <2>2 DEF Ordered
  <2>4. Covers(runs, first, first + blocks)
    BY <1>4 DEF Covers
  <2>5. files <= blocks => Len(runs) = files
    BY <1>4, <2>1, <2>2
  <2>6. \A k \in 1 .. Len(runs) : runs[k].count <= Cap
    BY <2>1, <2>2
  <2> QED
    BY <2>3, <2>4, <2>5, <2>6 DEF runs
<1>5. CASE blocks # 0 /\ request.scheme = "limited"
  <2>1. runs = Kept[limited]
    BY <1>5 DEF Allocate, Cap
  <2> HIDE DEF runs
  <2>2. /\ Ordered(limited, first, first + blocks)
        /\ \A k \in 1 .. Len(limited) : limited[k].count <= Cap
        /\ (blocks <= 2 * Cap /\ Power[files] > blocks /\ (blocks > 0 => files > 0))
             => Covers(limited, first, first + blocks)
    BY <1>2, LimitedFacts
  <2> HIDE DEF limited
  <2>3. /\ Ordered(runs, first, first + blocks)
        /\ \A m \in 1 .. Len(runs) : \E j \in 1 .. Len(limited) : runs[m] = limited[j]
        /\ Covers(limited, first, first + blocks) => Covers(runs, first, first + blocks)
    BY <1>3, <2>1, <2>2, KeptFacts
  <2>4. \A m \in 1 .. Len(runs) : runs[m].count <= Cap
    BY <2>2, <2>3
  <2>5. blocks <= 2 * LargestBlocks => blocks <= 2 * Cap
    BY DEF Cap
  <2> QED
    BY <1>5, <2>2, <2>3, <2>4, <2>5 DEF runs
<1>6. CASE blocks # 0 /\ request.scheme = "uniform"
  <2>1. files \in Nat \ {0}
    BY <1>6
  <2>2. /\ even \in Seq(Nat) /\ Len(even) = files /\ SumOf(even) = blocks
        /\ files <= blocks => \A k \in 1 .. files : even[k] > 0
    BY <2>1, UniformFacts
  <2> DEFINE laid == Runs(first, even)
  <2>3. runs = Kept[laid]
    BY <1>6 DEF Allocate
  <2> HIDE DEF runs, even
  <2>4. /\ Len(laid) = files /\ \A k \in 1 .. files : laid[k].count = even[k]
        /\ Ordered(laid, first, first + blocks) /\ Covers(laid, first, first + blocks)
    BY <2>2, RunsFacts
  <2> HIDE DEF laid
  <2>5. /\ Ordered(runs, first, first + blocks) /\ Covers(runs, first, first + blocks)
        /\ (\A j \in 1 .. Len(laid) : laid[j].count # 0) => Len(runs) = Len(laid)
    BY <1>3, <2>3, <2>4, KeptFacts
  <2>6. ASSUME files <= blocks PROVE Len(runs) = files
    <3>1. ASSUME NEW j \in 1 .. files PROVE laid[j].count # 0
      <4>1. even[j] > 0 /\ laid[j].count = even[j]
        BY <2>2, <2>4, <2>6
      <4> QED
        BY <4>1
    <3> QED
      BY <2>4, <2>5, <3>1
  <2> QED
    BY <1>6, <2>5, <2>6 DEF runs
<1>7. CASE blocks # 0 /\ request.scheme = "variable"
  <2>1. files \in Nat \ {0}
    BY <1>7
  <2>2. low \in Nat /\ low * (Power[files] - 1) >= blocks
    BY <2>1, StartSizeFacts
  <2> DEFINE laid == Runs(first, doubling)
  <2>3. runs = Kept[laid]
    BY <1>7 DEF Allocate
  <2> HIDE DEF runs, low
  <2>4. doubling \in Seq(Nat) /\ SumOf(doubling) = blocks
    BY <2>2, DoublingFacts
  <2> HIDE DEF doubling
  <2>5. Ordered(laid, first, first + blocks) /\ Covers(laid, first, first + blocks)
    BY <2>4, RunsFacts
  <2> HIDE DEF laid
  <2>6. Ordered(runs, first, first + blocks) /\ Covers(runs, first, first + blocks)
    BY <1>3, <2>3, <2>5, KeptFacts
  <2> QED
    BY <1>7, <2>6 DEF runs
<1> QED
  BY <1>1, <1>4, <1>5, <1>6, <1>7

\* The counts are numbers once there is a block size.
LEMMA CountsType ==
    ASSUME LineInv, SearchInv, sizes # << >>, BlockSizeUsed # 0
    PROVE  /\ BlockSizeUsed \in Nat \ {0} /\ request.first \in Nat
           /\ SourceBlocks \in Nat /\ LargestBlocks \in Nat /\ RecoveryBlocks \in Nat
<1> DEFINE b == BlockSizeUsed  s == SourceBlocks
<1>1. request \in Request /\ sizes \in Seq(Nat) /\ result \in Nat
  BY DEF LineInv, SearchInv
<1>2. /\ request.first \in Nat /\ request.blockSize \in Nat /\ request.files \in Nat
      /\ request.amount \in Amount
  BY <1>1 DEF Request
<1>3. request.amount.n \in Nat /\ request.amount.kind \in {"blocks", "percent", "bytes"}
  BY <1>2 DEF Amount
<1>4. b \in Nat \ {0}
  BY <1>1, <1>2 DEF BlockSizeUsed
<1> HIDE DEF b
<1>5. s \in Nat
  <2>1. BlocksAt(b) \in Nat
    BY <1>1, <1>4, RoundedFacts
  <2> QED
    BY <2>1, CutFacts DEF SourceBlocks, b
<1>6. LargestBlocks \in Nat
  <2>1. Largest \in Nat
    BY <1>1, LargestFacts
  <2>2. Ceiling(Largest, b) \in Nat
    BY <1>4, <2>1, CeilingFacts
  <2> QED
    BY <2>2, CutFacts DEF LargestBlocks, b
<1> HIDE DEF s
<1>7. ASSUME NEW n \in Nat PROVE RecoveryBlocksFor(n) \in Nat
  <2> DEFINE p == s * n
  <2>1. p \in Nat
    BY <1>5
  <2> HIDE DEF p
  <2>2. (p + 50) \div 100 \in Nat
    BY <2>1
  <2> QED
    BY <2>2 DEF RecoveryBlocksFor, s, p
<1>8. ASSUME NEW n \in Nat PROVE RecoveryBlocksForSize(n) \in Nat
  <2> DEFINE Fit(overhead) == IF overhead <= n THEN Cut((n - overhead) \div (b + 70)) ELSE 1
             perFile == s * 21
             few == RecoveryFileCount(Fit(15 * perFile))
             files == IF request.files # 0 THEN request.files ELSE few
  <2>1. \A x \in Nat : Fit(x) \in Nat
    <3> TAKE x \in Nat
    <3>1. CASE x <= n
      <4>1. n - x \in Nat /\ b + 70 \in Nat \ {0}
        BY <1>4, <3>1
      <4>2. (n - x) \div (b + 70) \in Nat
        BY <4>1
      <4> QED
        BY <3>1, <4>2, CutFacts
    <3>2. CASE ~(x <= n)
      BY <3>2
    <3> QED
      BY <3>1, <3>2
  <2>2. RecoveryBlocksForSize(n) = Fit(perFile * files)
    BY DEF RecoveryBlocksForSize, b, s
  <2> HIDE DEF Fit
  <2>3. perFile \in Nat /\ 15 * perFile \in Nat
    BY <1>5
  <2>4. few \in Nat
    <3>1. Fit(15 * perFile) \in Nat
      BY <2>1, <2>3
    <3> QED
      BY <3>1, FileCountFacts
  <2>5. files \in Nat
    BY <1>2, <2>4
  <2> HIDE DEF perFile, files
  <2>6. perFile * files \in Nat
    BY <2>3, <2>5
  <2> QED
    BY <2>1, <2>2, <2>6
<1>9. RecoveryBlocks \in Nat
  BY <1>3, <1>7, <1>8 DEF RecoveryBlocks
<1> QED
  BY <1>2, <1>4, <1>5, <1>6, <1>9 DEF b, s

\* No part is more than the whole.
LEMMA PartOfSum ==
    ASSUME NEW s \in Seq(Nat), NEW k \in 1 .. Len(s)
    PROVE  s[k] \in Nat /\ s[k] <= SumOf(s)
<1> DEFINE n == Len(s)  sum == Sums[s]
<1>1. /\ n \in Nat /\ sum \in [0 .. n -> Nat] /\ sum[n] = SumOf(s)
      /\ \A j \in 1 .. n : sum[j] = sum[j - 1] + s[j]
  BY SumsFacts
<1>2. \A j \in 0 .. n : \A l \in j .. n : sum[j] <= sum[l]
  BY SumsGrow
<1>3. s[k] \in Nat
  BY ElementOfSeq
<1> HIDE DEF n, sum
<1>4. k \in 1 .. n /\ k - 1 \in 0 .. n /\ k \in 0 .. n /\ n \in k .. n
  BY <1>1 DEF n
<1> DEFINE x == sum[k - 1]  y == s[k]  z == sum[k]  u == sum[n]
<1>5. x \in Nat /\ z \in Nat /\ u \in Nat /\ z = x + y /\ z <= u
  BY <1>1, <1>2, <1>4
<1> HIDE DEF x, y, z, u
<1>6. y <= u
  BY <1>3, <1>5 DEF y
<1> QED
  BY <1>1, <1>3, <1>6 DEF y, u

\* The largest file of a set that is not too large has not too many slices.
LEMMA CapFits ==
    ASSUME LineInv, SearchInv, sizes # << >>, BlockSizeUsed # 0,
           BlocksAt(BlockSizeUsed) <= MaxBlocks
    PROVE  2 * Cap < Power[CountBits]
<1> DEFINE b == BlockSizeUsed
<1>1. sizes \in Seq(Nat) /\ b \in Nat \ {0} /\ LargestBlocks \in Nat
  BY CountsType DEF SearchInv
<1>2. PICK k \in 1 .. NumFiles : sizes[k] = Largest
  BY <1>1, LargestFacts
<1> HIDE DEF b
<1> DEFINE s == Rounded(b)
<1>3. /\ s \in Seq(Nat) /\ k \in 1 .. Len(s) /\ s[k] = Ceiling(Largest, b)
      /\ BlocksAt(b) = SumOf(s) /\ BlocksAt(b) \in Nat
  BY <1>1, <1>2, RoundedFacts
<1> HIDE DEF s
<1>7. Ceiling(Largest, b) \in Nat /\ Ceiling(Largest, b) <= BlocksAt(b)
  BY <1>3, PartOfSum
<1>4. LargestBlocks <= Ceiling(Largest, b)
  BY <1>7, CutFacts DEF LargestBlocks, b
<1>5. LargestBlocks <= MaxBlocks /\ MaxBlocks \in Nat
  BY <1>1, <1>3, <1>4, <1>7, BlockSizeAssumption DEF b
<1>6. Power[CountBits] > 2 /\ 2 * MaxBlocks < Power[CountBits]
  BY PowerFacts, CreateAssumption
<1> QED
  BY <1>1, <1>5, <1>6, WidthType DEF Cap

\* The layout of the set that is created.
LEMMA AllocationsFacts ==
    ASSUME LineInv, SearchInv, sizes # << >>, BlockSizeUsed # 0, InRange,
           BlocksAt(BlockSizeUsed) <= MaxBlocks
    PROVE  /\ Ordered(Allocations, request.first, request.first + RecoveryBlocks)
           /\ (request.scheme = "limited" => request.files = 0 /\ RecoveryBlocks <= 2 * LargestBlocks)
                => Covers(Allocations, request.first, request.first + RecoveryBlocks)
           /\ request.scheme = "limited" => \A k \in 1 .. Len(Allocations) : Allocations[k].count <= Cap
           /\ request.scheme = "uniform" /\ request.files # 0
                => Len(Allocations) = Least(request.files, RecoveryBlocks)
<1> DEFINE n == RecoveryBlocks  files == FileCount(n)
<1>1. /\ request \in Request /\ request.first \in Nat /\ request.files \in Nat
      /\ LargestBlocks \in Nat /\ n \in Nat
  BY CountsType DEF LineInv, Request
<1> HIDE DEF n
<1>2. /\ RecoveryFileCount(n) \in 0 .. n /\ Power[RecoveryFileCount(n)] > n
      /\ n > 0 => RecoveryFileCount(n) > 0
  BY <1>1, FileCountFacts
<1> DEFINE few == RecoveryFileCount(n)
<1> HIDE DEF few
<1>3. files = IF request.files = 0 THEN few ELSE Least(request.files, n)
  BY <1>1, <1>2 DEF FileCount, Least, few
<1>4. /\ files \in Nat /\ files <= n /\ (n > 0 => files > 0)
      /\ request.files = 0 => Power[files] > n
  BY <1>1, <1>2, <1>3 DEF Least, few
<1> HIDE DEF files
<1>5. Allocations = Allocate(request.first, n, files)
  BY DEF Allocations, n, files
<1>6. request.first + n < Power[CountBits]
  BY <1>1, WidthType, CreateAssumption DEF InRange, n
<1> QED
  BY <1>1, <1>3, <1>4, <1>5, <1>6, CapFits, AllocateFacts DEF n

-----------------------------------------------------------------------------
(* Following the layout while it is written. *)

(***************************************************************************)
(* Once par2.Create has accepted the slices, what is written and what is   *)
(* still to be written are the layout together, and there is room for it.  *)
(***************************************************************************)
Layable == BlockSizeUsed # 0 /\ sizes # << >> /\ InRange
Planned ==
    /\ Layable /\ BlocksAt(BlockSizeUsed) <= MaxBlocks
    /\ plan \in Seq(Run) /\ volumes \o plan = Allocations

\* The inductive invariant of the writing: the layout is followed from its
\* beginning to its end, and the archive comes after it.
PlanInv ==
    /\ volumes \in Seq(Run)
    /\ (volumes = << >> /\ ~index) \/ Planned
    /\ pc \in {"args", "size", "plan", "encode"} => volumes = << >> /\ ~index
    /\ pc = "encode" => Layable /\ plan = Allocations
    /\ pc \in {"volumes", "done"} => Planned
    /\ pc = "done" \/ index => plan = << >>
    /\ index => pc = "done"

\* The layout depends on what was asked for only.
LEMMA LayoutStays ==
    ASSUME UNCHANGED <<inputs, searchVars>>
    PROVE  /\ Allocations' = Allocations /\ RecoveryBlocks' = RecoveryBlocks
           /\ LargestBlocks' = LargestBlocks
           /\ BlocksAt(BlockSizeUsed)' = BlocksAt(BlockSizeUsed)
           /\ BlockSizeUsed' = BlockSizeUsed /\ sizes' = sizes
           /\ request' = request /\ (InRange' <=> InRange)
<1>1. sizes' = sizes /\ request' = request /\ result' = result
  BY DEF inputs, searchVars
<1>2. BlockSizeUsed' = BlockSizeUsed
  BY <1>1 DEF BlockSizeUsed
<1>3. SourceBlocks' = SourceBlocks
  BY <1>1, <1>2 DEF SourceBlocks, BlocksAt, Cut
<1>4. LargestBlocks' = LargestBlocks
  BY <1>1, <1>2 DEF LargestBlocks, Largest, Cut
<1>5. RecoveryBlocks' = RecoveryBlocks
  BY <1>1, <1>2, <1>3 DEF RecoveryBlocks, RecoveryBlocksFor, RecoveryBlocksForSize, Cut
<1>6. Allocations' = Allocations
  BY <1>1, <1>4, <1>5 DEF Allocations, FileCount, Allocate
<1>7. InRange' <=> InRange
  BY <1>1, <1>3, <1>5 DEF InRange
<1>8. BlocksAt(BlockSizeUsed)' = BlocksAt(BlockSizeUsed)
  BY <1>1, <1>2 DEF BlocksAt
<1> QED
  BY <1>1, <1>2, <1>4, <1>5, <1>6, <1>7, <1>8

\* At the start nothing is planned.
LEMMA InitPlan == Init => PlanInv
  BY EmptySeq DEF Init, CreateInit, PlanInv

\* What is planned and not touched stays planned.
LEMMA PlannedStays ==
    ASSUME UNCHANGED <<inputs, searchVars>>, plan' \in Seq(Run),
           volumes' \o plan' = volumes \o plan
    PROVE  Planned => Planned'
  BY LayoutStays DEF Planned, Layable

\* Every step follows the plan.
LEMMA NextPlan == LineInv /\ SearchInv /\ PlanInv /\ [Next]_all => PlanInv'
<1> SUFFICES ASSUME LineInv, SearchInv, PlanInv, [Next]_all PROVE PlanInv'
  OBVIOUS
<1>1. CASE Option \/ Word \/ BadOption \/ Help \/ Refuse \/ Accept
  <2>1. pc = "args" /\ UNCHANGED <<volumes, plan, index>>
    BY <1>1 DEF Option, BlockCountOption, BlockSizeOption, RedundancyOption,
       RedundancySizeOption, RecoveryCountOption, FirstBlockOption, UniformOption,
       LimitedOption, FilesOption, ArchiveOption, FlagOption, OtherOption, BadOption, Word,
       Help, Refuse, Accept, At, Reading, Read, Set, Stop, vars
  <2>2. pc' \in {"args", "rejected", "shown", "plan", "size"}
    BY <1>1, <2>1 DEF Option, BlockCountOption, BlockSizeOption, RedundancyOption,
       RedundancySizeOption, RecoveryCountOption, FirstBlockOption, UniformOption,
       LimitedOption, FilesOption, ArchiveOption, FlagOption, OtherOption, BadOption, Word,
       Help, Refuse, Accept, Set, Stop, vars
  <2> QED
    BY <2>1, <2>2 DEF PlanInv
<1>2. CASE Create /\ (Size \/ SizeFound \/ SizeError \/ Panic \/ Reject)
  <2>1. pc \in {"size", "plan"} /\ UNCHANGED <<volumes, plan, index>>
        /\ pc' \in {"size", "plan", "rejected", "panicked"}
    BY <1>2 DEF Size, SizeFound, SizeError, Panic, Reject
  <2> QED
    BY <2>1 DEF PlanInv
<1>3. CASE Create /\ Plan
  <2>1. /\ pc = "plan" /\ BlockSizeUsed # 0 /\ InRange /\ plan' = Allocations
        /\ pc' = "encode" /\ UNCHANGED <<inputs, searchVars, volumes, index>>
    BY <1>3 DEF Plan
  <2>2. sizes # << >> /\ volumes = << >> /\ ~index
    BY <2>1 DEF PlanInv, LineInv
  <2>3. Layable' /\ plan' = Allocations'
    BY <2>1, <2>2, LayoutStays DEF Layable
  <2> QED
    BY <2>1, <2>2, <2>3 DEF PlanInv
<1>4. CASE Create /\ Encode
  <2>1. /\ pc = "encode" /\ UNCHANGED <<inputs, searchVars, plan, volumes, index>>
        /\ pc' = IF BlocksAt(BlockSizeUsed) <= MaxBlocks THEN "volumes" ELSE "failed"
    BY <1>4 DEF Encode
  <2>2. volumes = << >> /\ ~index /\ Layable /\ plan = Allocations
    BY <2>1 DEF PlanInv
  <2>3. CASE BlocksAt(BlockSizeUsed) <= MaxBlocks
    <3>1. plan \in Seq(Run)
      BY <2>2, <2>3, AllocationsFacts DEF Layable, Ordered
    <3>2. volumes \o plan = Allocations
      BY <2>2, <3>1, ConcatEmptySeq
    <3>3. Planned
      BY <2>2, <2>3, <3>1, <3>2 DEF Planned
    <3>4. Planned'
      BY <2>1, <3>1, <3>3, PlannedStays
    <3> QED
      BY <2>1, <2>2, <2>3, <3>4 DEF PlanInv
  <2>4. CASE ~(BlocksAt(BlockSizeUsed) <= MaxBlocks)
    BY <2>1, <2>2, <2>4 DEF PlanInv
  <2> QED
    BY <2>3, <2>4
<1>5. CASE Create /\ WriteVolume
  <2>1. /\ pc = "volumes" /\ plan # << >> /\ pc' = pc
        /\ volumes' = Append(volumes, Head(plan)) /\ plan' = Tail(plan)
        /\ UNCHANGED <<inputs, searchVars, index>>
    BY <1>5 DEF WriteVolume
  <2>2. plan \in Seq(Run) /\ volumes \in Seq(Run) /\ Planned /\ ~index
    BY <2>1 DEF PlanInv, Planned
  <2>3. Head(plan) \in Run /\ Tail(plan) \in Seq(Run)
    BY <2>1, <2>2, HeadTailProperties
  <2>4. volumes' \in Seq(Run) /\ plan' \in Seq(Run)
    BY <2>1, <2>2, <2>3, AppendProperties
  <2>5. volumes' \o plan' = volumes \o plan
    <3> DEFINE h == Head(plan)  t == Tail(plan)
    <3>1. << h >> \in Seq(Run) /\ plan = << h >> \o t
      BY <2>1, <2>2, <2>3
    <3>2. volumes' = volumes \o << h >>
      BY <2>1, <2>2, <2>3, AppendIsConcat
    <3> HIDE DEF h, t
    <3>3. (volumes \o << h >>) \o t = volumes \o (<< h >> \o t)
      BY <2>2, <2>3, <3>1, ConcatAssociative DEF t
    <3> QED
      BY <2>1, <3>1, <3>2, <3>3 DEF t
  <2>6. Planned'
    BY <2>1, <2>2, <2>4, <2>5, PlannedStays
  <2> QED
    BY <2>1, <2>2, <2>4, <2>6 DEF PlanInv
<1>6. CASE Create /\ WriteIndex
  <2>1. /\ pc = "volumes" /\ plan = << >> /\ pc' = "done"
        /\ UNCHANGED <<inputs, searchVars, plan, volumes>>
    BY <1>6 DEF WriteIndex
  <2>2. Planned'
    BY <2>1, PlannedStays DEF PlanInv, Planned
  <2> QED
    BY <2>1, <2>2 DEF PlanInv
<1>7. CASE Fail
  <2>1. /\ pc' = "failed" /\ pc \in {"size", "plan", "encode", "volumes"}
        /\ UNCHANGED <<inputs, searchVars, plan, volumes, index>>
    BY <1>7 DEF Fail, Fails
  <2>2. Planned => Planned'
    BY <2>1, PlannedStays DEF Planned
  <2> QED
    BY <2>1, <2>2 DEF PlanInv
<1>8. CASE UNCHANGED all
  <2>1. UNCHANGED <<inputs, searchVars, pc, plan, volumes, index>>
    BY <1>8 DEF all, vars
  <2>2. Planned => Planned'
    BY <2>1, PlannedStays DEF Planned
  <2>3. (Layable' <=> Layable) /\ Allocations' = Allocations
    BY <2>1, LayoutStays DEF Layable
  <2> QED
    BY <2>1, <2>2, <2>3 DEF PlanInv
<1> QED
  BY <1>1, <1>2, <1>3, <1>4, <1>5, <1>6, <1>7, <1>8 DEF Next, Step, Create, CreateStep, Exited

\* And so it always is.
LEMMA PlanAlways == Spec => [](LineInv /\ SearchInv /\ PlanInv)
  BY InitLine, NextLine, InitPlan, NextPlan, PTL DEF Spec

\* What is written is the beginning of the layout.
LEMMA WrittenFacts ==
    ASSUME LineInv, SearchInv, PlanInv
    PROVE  /\ volumes \in Seq(Run) /\ Written = { volumes[k] : k \in 1 .. Len(volumes) }
           /\ volumes = << >> \/ Planned
           /\ Planned => /\ Len(volumes) <= Len(Allocations)
                         /\ \A k \in 1 .. Len(volumes) : volumes[k] = Allocations[k]
                         /\ Ordered(volumes, request.first, request.first + RecoveryBlocks)
<1>1. volumes \in Seq(Run) /\ (volumes = << >> \/ Planned)
  BY DEF PlanInv
<1>2. DOMAIN volumes = 1 .. Len(volumes)
  BY <1>1
<1>3. Written = { volumes[k] : k \in 1 .. Len(volumes) }
  BY <1>2 DEF Written, ToSet
<1>4. ASSUME Planned
      PROVE  /\ Len(volumes) <= Len(Allocations)
             /\ \A k \in 1 .. Len(volumes) : volumes[k] = Allocations[k]
             /\ Ordered(volumes, request.first, request.first + RecoveryBlocks)
  <2> DEFINE m == Len(volumes)  n == Len(Allocations)
  <2>1. /\ m \in Nat /\ Len(plan) \in Nat /\ n = m + Len(plan)
        /\ \A k \in 1 .. m + Len(plan) : Allocations[k] = IF k <= m THEN volumes[k] ELSE plan[k - m]
    BY <1>1, <1>4, ConcatProperties DEF Planned
  <2> HIDE DEF m, n
  <2>2. m <= n /\ \A k \in 1 .. m : k \in 1 .. n /\ volumes[k] = Allocations[k]
    BY <2>1
  <2>3. Ordered(Allocations, request.first, request.first + RecoveryBlocks)
    BY <1>4, AllocationsFacts DEF Planned, Layable
  <2>4. /\ \A k \in 1 .. n : /\ request.first <= Allocations[k].exponent
                             /\ Allocations[k].exponent + Allocations[k].count
                                   <= request.first + RecoveryBlocks
        /\ \A j, k \in 1 .. n : j < k =>
               Allocations[j].exponent + Allocations[j].count <= Allocations[k].exponent
    BY <2>3 DEF Ordered, n
  <2>5. \A k \in 1 .. m : /\ request.first <= volumes[k].exponent
                          /\ volumes[k].exponent + volumes[k].count
                                <= request.first + RecoveryBlocks
    BY <2>2, <2>4
  <2>6. \A j, k \in 1 .. m : j < k => volumes[j].exponent + volumes[j].count <= volumes[k].exponent
    BY <2>2, <2>4
  <2> QED
    BY <1>1, <2>2, <2>5, <2>6 DEF Ordered, m, n
<1> QED
  BY <1>1, <1>3, <1>4

-----------------------------------------------------------------------------
(* What the properties say of what is written. *)

\* The archive is written when nothing is left to write.
LEMMA IndexMeans == PlanInv => IndexIsLast
<1> SUFFICES ASSUME PlanInv, index PROVE plan = << >> /\ volumes = Allocations
  BY DEF IndexIsLast
<1>1. plan = << >> /\ Planned /\ volumes \in Seq(Run)
  BY DEF PlanInv
<1>2. volumes \o << >> = volumes
  BY <1>1, ConcatEmptySeq
<1> QED
  BY <1>1, <1>2 DEF Planned

\* The archive comes after all its recovery files, however many there are.
THEOREM ArchiveComesLast == Spec => []IndexIsLast
  BY PlanAlways, IndexMeans, PTL

\* Runs that follow one another have no exponent in common.
LEMMA ApartMeans == LineInv /\ SearchInv /\ PlanInv => NoBlockTwice
<1> SUFFICES ASSUME LineInv, SearchInv, PlanInv,
                    NEW j \in DOMAIN volumes, NEW k \in DOMAIN volumes, j # k
             PROVE  Exponents(volumes[j]) \cap Exponents(volumes[k]) = {}
  BY DEF NoBlockTwice
<1>1. /\ volumes \in Seq(Run) /\ j \in 1 .. Len(volumes) /\ k \in 1 .. Len(volumes)
      /\ Ordered(volumes, request.first, request.first + RecoveryBlocks)
  <2>1. volumes \in Seq(Run) /\ (volumes = << >> \/ Planned)
    BY WrittenFacts
  <2>2. j \in 1 .. Len(volumes) /\ k \in 1 .. Len(volumes)
    BY <2>1
  <2>3. volumes # << >>
    BY <2>2
  <2> QED
    BY <2>1, <2>2, <2>3, WrittenFacts
<1> DEFINE a == volumes[j]  b == volumes[k]
<1>2. a \in Run /\ b \in Run
  BY <1>1, ElementOfSeq
<1>3. a.exponent + a.count <= b.exponent \/ b.exponent + b.count <= a.exponent
  <2>1. j < k \/ k < j
    BY <1>1
  <2> QED
    BY <1>1, <2>1 DEF Ordered
<1> HIDE DEF a, b
<1>4. /\ a.exponent \in Nat /\ a.count \in Nat /\ b.exponent \in Nat /\ b.count \in Nat
      /\ Exponents(a) = a.exponent .. a.exponent + a.count - 1
      /\ Exponents(b) = b.exponent .. b.exponent + b.count - 1
  BY <1>2, RunParts
<1>5. \A e : ~(e \in Exponents(a) /\ e \in Exponents(b))
  BY <1>3, <1>4
<1> QED
  BY <1>5 DEF a, b

\* No recovery block is in two files, whatever the scheme and the numbers.
THEOREM NoBlockIsWrittenTwice == Spec => []NoBlockTwice
  BY PlanAlways, ApartMeans, PTL

\* They end before the last exponent.
LEMMA RangeMeans == LineInv /\ SearchInv /\ PlanInv => ExponentsInRange
<1> SUFFICES ASSUME LineInv, SearchInv, PlanInv, NEW a \in Written, NEW e \in Exponents(a)
             PROVE  e \in 0 .. Limit - 1
  BY DEF ExponentsInRange, WrittenExponents
<1>1. PICK k \in 1 .. Len(volumes) : a = volumes[k]
  BY WrittenFacts
<1>2. volumes \in Seq(Run) /\ Planned
  <2>1. volumes # << >>
    BY <1>1
  <2> QED
    BY <2>1, WrittenFacts
<1>3. a \in Run
  BY <1>1, <1>2, ElementOfSeq
<1>4. request.first <= a.exponent /\ a.exponent + a.count <= request.first + RecoveryBlocks
  BY <1>1, <1>2, WrittenFacts DEF Ordered
<1>5. request.first \in Nat /\ RecoveryBlocks \in Nat
  BY <1>2, CountsType DEF Planned, Layable
<1>6. request.first + RecoveryBlocks < Limit /\ Limit \in Nat
  BY <1>2, CreateAssumption DEF Planned, Layable, InRange
<1>7. /\ a.exponent \in Nat /\ a.count \in Nat
      /\ e \in a.exponent .. a.exponent + a.count - 1
  BY <1>3, RunParts
<1> DEFINE f == request.first  r == RecoveryBlocks  x == a.exponent  c == a.count
<1>8. /\ f \in Nat /\ r \in Nat /\ x \in Nat /\ c \in Nat
      /\ f <= x /\ x + c <= f + r /\ f + r < Limit /\ e \in x .. x + c - 1
  BY <1>4, <1>5, <1>6, <1>7
<1> HIDE DEF f, r, x, c
<1> QED
  BY <1>6, <1>8

\* No recovery block has an exponent the field has no power for.
THEOREM ExponentsStayInRange == Spec => []ExponentsInRange
  BY PlanAlways, RangeMeans, PTL

\* With -l each of them has the blocks of the largest file at most.
LEMMA CapMeans == LineInv /\ SearchInv /\ PlanInv => CappedAtLargest
<1> SUFFICES ASSUME LineInv, SearchInv, PlanInv, request.scheme = "limited", NEW a \in Written
             PROVE  a.count <= Cap
  BY DEF CappedAtLargest, Cap
<1>1. PICK k \in 1 .. Len(volumes) : a = volumes[k]
  BY WrittenFacts
<1>2. volumes \in Seq(Run) /\ Planned
  <2>1. volumes # << >>
    BY <1>1
  <2> QED
    BY <2>1, WrittenFacts
<1>3. a = Allocations[k] /\ k \in 1 .. Len(Allocations)
  <2>1. /\ Len(volumes) <= Len(Allocations) /\ volumes[k] = Allocations[k]
    BY <1>1, <1>2, WrittenFacts
  <2>2. Allocations \in Seq(Run)
    BY <1>2, AllocationsFacts DEF Planned, Layable, Ordered
  <2> QED
    BY <1>1, <1>2, <2>1, <2>2
<1> QED
  BY <1>2, <1>3, AllocationsFacts DEF Planned, Layable

\* -l keeps every recovery file within the size of the largest source file.
THEOREM NoFileIsTooLarge == Spec => []CappedAtLargest
  BY PlanAlways, CapMeans, PTL

\* Together they hold what was computed.
LEMMA AllMeans == LineInv /\ SearchInv /\ PlanInv => AllBlocksWritten
<1> SUFFICES ASSUME LineInv, SearchInv, PlanInv, pc = "done",
                    request.scheme = "limited" =>
                      request.files = 0 /\ RecoveryBlocks <= 2 * LargestBlocks
             PROVE  WrittenExponents = Computed
  BY DEF AllBlocksWritten
<1>1. Planned /\ plan = << >> /\ volumes \in Seq(Run)
  BY DEF PlanInv
<1>2. volumes = Allocations
  BY <1>1, ConcatEmptySeq DEF Planned
<1> DEFINE lo == request.first  n == RecoveryBlocks
<1>3. Ordered(volumes, lo, lo + n) /\ Covers(volumes, lo, lo + n)
  BY <1>1, <1>2, AllocationsFacts DEF Planned, Layable
<1>4. lo \in Nat /\ n \in Nat
  BY <1>1, CountsType DEF Planned, Layable
<1>5. WrittenExponents = UNION { Exponents(volumes[k]) : k \in 1 .. Len(volumes) }
  <2>1. Written = { volumes[k] : k \in 1 .. Len(volumes) }
    BY WrittenFacts
  <2> QED
    BY <2>1 DEF WrittenExponents
<1>6. Computed = lo .. lo + n - 1
  BY DEF Computed
<1> HIDE DEF lo, n
<1>7. ASSUME NEW k \in 1 .. Len(volumes) PROVE Exponents(volumes[k]) \subseteq lo .. lo + n - 1
  <2> DEFINE a == volumes[k]
  <2>1. lo <= a.exponent /\ a.exponent + a.count <= lo + n
    BY <1>3 DEF Ordered
  <2>2. a \in Run
    BY <1>1, ElementOfSeq
  <2> HIDE DEF a
  <2>3. /\ a.exponent \in Nat /\ a.count \in Nat
        /\ Exponents(a) = a.exponent .. a.exponent + a.count - 1
    BY <2>2, RunParts
  <2> DEFINE x == a.exponent  c == a.count
  <2>4. x \in Nat /\ c \in Nat /\ lo <= x /\ x + c <= lo + n /\ Exponents(a) = x .. x + c - 1
    BY <2>1, <2>3
  <2> HIDE DEF x, c
  <2>5. Exponents(a) \subseteq lo .. lo + n - 1
    BY <1>4, <2>4
  <2> QED
    BY <2>5 DEF a
<1>8. ASSUME NEW e \in lo .. lo + n - 1
      PROVE  \E k \in 1 .. Len(volumes) : e \in Exponents(volumes[k])
  <2>1. e \in lo .. (lo + n) - 1
    BY <1>4
  <2> QED
    BY <1>3, <2>1 DEF Covers
<1> QED
  BY <1>5, <1>6, <1>7, <1>8

\* A set that was created has all the redundancy that was asked for: every
\* recovery block computed is in a file. (layout.go:75-230)
THEOREM NoBlockIsLeftOut == Spec => []AllBlocksWritten
  BY PlanAlways, AllMeans, PTL

\* What was read of -n is what the layout is made for.
LEMMA FilesMeans == LineInv /\ SearchInv /\ ReadInv /\ PlanInv => AsManyFilesAsAsked
<1> SUFFICES ASSUME LineInv, SearchInv, ReadInv, PlanInv, pc = "done", Given("n"), ~Given("l")
             PROVE  \E k \in Options : line[k].opt = "n"
                                         /\ Len(volumes) = Least(line[k].n, RecoveryBlocks)
  BY DEF AsManyFilesAsAsked
<1>1. Planned /\ plan = << >> /\ volumes \in Seq(Run)
  BY DEF PlanInv
<1>2. volumes = Allocations
  BY <1>1, ConcatEmptySeq DEF Planned
<1>3. i > Len(line) /\ request.scheme = config.scheme /\ request.files = config.files
  <2>1. sizes # << >>
    BY <1>1 DEF Planned, Layable
  <2> QED
    BY <2>1 DEF ReadInv
<1>4. Past(line, i) = Options /\ Has(line, i, "n") /\ ~Has(line, i, "l")
  BY <1>3, AllRead
<1>5. /\ config.scheme = "uniform" /\ config.files # 0
      /\ \E k \in Options : line[k].opt = "n" /\ config.files = line[k].n
  BY <1>4 DEF ReadInv, FilesRead
<1>6. Len(volumes) = Least(request.files, RecoveryBlocks)
  BY <1>1, <1>2, <1>3, <1>5, AllocationsFacts DEF Planned, Layable
<1> QED
  BY <1>3, <1>5, <1>6

\* -n without -l makes as many recovery files as it says, or one for each block
\* if there are fewer, whatever else is on the line. (args.go:313, layout.go:149)
THEOREM AsManyFilesComeOut == Spec => []AsManyFilesAsAsked
  BY PlanAlways, ReadAlways, FilesMeans, PTL
=============================================================================
