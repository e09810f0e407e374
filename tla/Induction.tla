------------------------------ MODULE Induction ------------------------------
(***************************************************************************)
(* Induction over the naturals and functions defined by recursion, in a    *)
(* form without operator parameters: sets for predicates and functions for *)
(* the step.  What the proofs say about the loops of the code that are     *)
(* modelled as recursive functions rests on it.                            *)
(***************************************************************************)
EXTENDS Naturals, TLAPS, WellFoundedInduction, FiniteSetTheorems

\* A set of naturals that is not empty has a least element.
LEMMA LeastOfNats ==
    ASSUME NEW T \in SUBSET Nat, T # {}
    PROVE  \E m \in T : \A k \in T : m <= k
<1>1. \E m \in T : \A k \in T : ~ (<<k, m>> \in OpToRel(<, Nat))
  BY NatLessThanWellFounded, WFMin
<1>2. PICK m \in T : \A k \in T : ~ (<<k, m>> \in OpToRel(<, Nat))
  BY <1>1
<1>3. ASSUME NEW k \in T PROVE m <= k
  <2>1. m \in Nat /\ k \in Nat
    OBVIOUS
  <2>2. k < m => <<k, m>> \in OpToRel(<, Nat)
    BY <2>1 DEF OpToRel
  <2>3. ~(k < m)
    BY <1>2, <2>2
  <2> QED
    BY <2>1, <2>3
<1> QED
  BY <1>3

\* A set that holds zero and with every natural its successor holds them all.
LEMMA NatSetInduction ==
    \A S : 0 \in S /\ (\A k \in Nat : k \in S => k + 1 \in S) => Nat \subseteq S
<1> SUFFICES ASSUME NEW S, 0 \in S, \A k \in Nat : k \in S => k + 1 \in S,
                    ~(Nat \subseteq S)
             PROVE  FALSE
  OBVIOUS
<1> DEFINE Rest == Nat \ S
<1>1. PICK k \in Rest : \A l \in Rest : k <= l
  <2>1. Rest \in SUBSET Nat /\ Rest # {}
    OBVIOUS
  <2> HIDE DEF Rest
  <2> QED
    BY <2>1, LeastOfNats
<1>2. k # 0 /\ k \in Nat /\ k \notin S
  OBVIOUS
<1>3. k - 1 \in Nat /\ k - 1 < k /\ (k - 1) + 1 = k
  BY <1>2
<1>4. k - 1 \in S
  BY <1>1, <1>3
<1> QED
  BY <1>2, <1>3, <1>4

\* What holds at the start of a recursion and is kept holds up to its end.
LEMMA StaysIn ==
    ASSUME NEW S, NEW n \in Nat, NEW f, f[0] \in S, \A k \in 1 .. n : f[k - 1] \in S => f[k] \in S
    PROVE  \A k \in 0 .. n : f[k] \in S
<1> DEFINE P == { k \in Nat : k <= n => f[k] \in S }
<1>1. 0 \in P
  OBVIOUS
<1>2. ASSUME NEW k \in Nat, k \in P PROVE k + 1 \in P
  <2> SUFFICES ASSUME k + 1 <= n PROVE f[k + 1] \in S
    OBVIOUS
  <2>1. f[k] \in S /\ (k + 1) - 1 = k /\ k + 1 \in 1 .. n
    BY <1>2
  <2> QED
    BY <2>1
<1> HIDE DEF P
<1>3. Nat \subseteq P
  BY <1>1, <1>2, NatSetInduction
<1> QED
  BY <1>3 DEF P

\* Two functions that begin alike and go on alike are the same as far as that goes.
LEMMA GoOnAlike ==
    ASSUME NEW n \in Nat, NEW f, NEW h, f[0] = h[0],
           \A k \in 1 .. n : f[k - 1] = h[k - 1] => f[k] = h[k]
    PROVE  \A k \in 0 .. n : f[k] = h[k]
<1> DEFINE P == { k \in Nat : k <= n => f[k] = h[k] }
<1>1. 0 \in P
  OBVIOUS
<1>2. ASSUME NEW k \in Nat, k \in P PROVE k + 1 \in P
  <2> SUFFICES ASSUME k + 1 <= n PROVE f[k + 1] = h[k + 1]
    OBVIOUS
  <2>1. f[k] = h[k] /\ (k + 1) - 1 = k /\ k + 1 \in 1 .. n
    BY <1>2
  <2> QED
    BY <2>1
<1> HIDE DEF P
<1>3. Nat \subseteq P
  BY <1>1, <1>2, NatSetInduction
<1> QED
  BY <1>3 DEF P

\* The first values of a function defined by recursion with step F from b.
Iterates(S, b, F, m) ==
    { h \in [0 .. m -> S] : h[0] = b /\ \A k \in 1 .. m : h[k] = F[<<k, h[k - 1]>>] }

LEMMA IteratesExist ==
    ASSUME NEW S, NEW b \in S, NEW F \in [Nat \X S -> S], NEW m \in Nat
    PROVE  Iterates(S, b, F, m) # {}
<1> DEFINE P == { n \in Nat : Iterates(S, b, F, n) # {} }
<1>1. 0 \in P
  <2>1. [k \in 0 .. 0 |-> b] \in Iterates(S, b, F, 0)
    BY DEF Iterates
  <2> QED
    BY <2>1
<1>2. ASSUME NEW n \in Nat, n \in P PROVE n + 1 \in P
  <2>1. PICK h \in [0 .. n -> S] : h[0] = b /\ \A k \in 1 .. n : h[k] = F[<<k, h[k - 1]>>]
    BY <1>2 DEF Iterates
  <2>2. h[n] \in S /\ F[<<n + 1, h[n]>>] \in S
    <3>1. h[n] \in S
      OBVIOUS
    <3>2. <<n + 1, h[n]>> \in Nat \X S
      BY <3>1
    <3> QED
      BY <3>1, <3>2
  <2> DEFINE g == [k \in 0 .. n + 1 |-> IF k = n + 1 THEN F[<<n + 1, h[n]>>] ELSE h[k]]
  <2>3. g \in [0 .. n + 1 -> S]
    BY <2>2
  <2>4. g[0] = b
    BY <2>1
  <2>5. ASSUME NEW k \in 1 .. n + 1 PROVE g[k] = F[<<k, g[k - 1]>>]
    <3>1. k - 1 \in 0 .. n /\ g[k - 1] = h[k - 1]
      OBVIOUS
    <3>2. CASE k = n + 1
      <4>1. g[k] = F[<<n + 1, h[n]>>] /\ k - 1 = n
        BY <3>2
      <4> QED
        BY <3>1, <3>2, <4>1
    <3>3. CASE k # n + 1
      BY <2>1, <3>1, <3>3
    <3> QED
      BY <3>2, <3>3
  <2> HIDE DEF g
  <2>6. g \in Iterates(S, b, F, n + 1)
    BY <2>3, <2>4, <2>5 DEF Iterates
  <2> QED
    BY <2>6
<1> HIDE DEF P
<1>3. Nat \subseteq P
  BY <1>1, <1>2, NatSetInduction
<1> QED
  BY <1>3 DEF P

LEMMA IteratesAgree ==
    ASSUME NEW S, NEW b \in S, NEW F \in [Nat \X S -> S], NEW m \in Nat, NEW n \in Nat,
           NEW g \in Iterates(S, b, F, m), NEW h \in Iterates(S, b, F, n)
    PROVE  \A k \in Nat : k <= m /\ k <= n => g[k] = h[k]
<1> DEFINE P == { k \in Nat : k <= m /\ k <= n => g[k] = h[k] }
<1>1. /\ g[0] = b /\ \A k \in 1 .. m : g[k] = F[<<k, g[k - 1]>>]
      /\ h[0] = b /\ \A k \in 1 .. n : h[k] = F[<<k, h[k - 1]>>]
  BY DEF Iterates
<1>2. 0 \in P
  BY <1>1
<1>3. ASSUME NEW k \in Nat, k \in P PROVE k + 1 \in P
  <2> SUFFICES ASSUME k + 1 <= m, k + 1 <= n PROVE g[k + 1] = h[k + 1]
    OBVIOUS
  <2>1. g[k] = h[k] /\ (k + 1) - 1 = k /\ k + 1 \in 1 .. m /\ k + 1 \in 1 .. n
    BY <1>3
  <2> QED
    BY <1>1, <2>1
<1> HIDE DEF P
<1>4. Nat \subseteq P
  BY <1>2, <1>3, NatSetInduction
<1> QED
  BY <1>4 DEF P

\* A step function makes the next value of k and the last one.
StepOn(S) == [Nat \X S -> S]
DefinedBy(S, b, F, g) ==
    /\ g \in [Nat -> S]
    /\ g[0] = b
    /\ \A k \in Nat \ {0} : g[k - 1] \in S /\ g[k] = F[<<k, g[k - 1]>>]

\* For every start and every step there is the function defined by recursion.
LEMMA Recursion ==
    ASSUME NEW S, NEW b \in S, NEW F \in StepOn(S)
    PROVE  \E g : DefinedBy(S, b, F, g)
<1> DEFINE h(m) == CHOOSE h \in Iterates(S, b, F, m) : TRUE
           g == [m \in Nat |-> h(m)[m]]
<1> USE DEF StepOn
<1>1. \A m \in Nat : h(m) \in Iterates(S, b, F, m)
  BY IteratesExist
<1> HIDE DEF h
<1>2. \A m \in Nat : /\ h(m) \in [0 .. m -> S] /\ h(m)[0] = b
                     /\ \A k \in 1 .. m : h(m)[k] = F[<<k, h(m)[k - 1]>>]
  BY <1>1 DEF Iterates
<1>3. g \in [Nat -> S] /\ g[0] = b
  BY <1>2
<1>4. ASSUME NEW k \in Nat \ {0} PROVE g[k] = F[<<k, g[k - 1]>>] /\ g[k - 1] \in S
  <2>1. k - 1 \in Nat /\ k - 1 <= k /\ k \in 1 .. k
    OBVIOUS
  <2>2. h(k)[k - 1] = h(k - 1)[k - 1]
    BY <1>1, <2>1, IteratesAgree
  <2>3. g[k - 1] = h(k - 1)[k - 1] /\ g[k] = h(k)[k]
    BY <2>1
  <2> QED
    BY <1>2, <1>3, <2>1, <2>2, <2>3
<1> QED
  BY <1>3, <1>4 DEF DefinedBy

-----------------------------------------------------------------------------
(* Numbers in base two. *)

\* The quotient and the remainder are determined by what they are for.
LEMMA QuotientIs ==
    ASSUME NEW n \in Nat, NEW d \in Nat \ {0}, NEW q \in Nat, NEW r \in 0 .. d - 1, n = d * q + r
    PROVE  n \div d = q /\ n % d = r
<1> DEFINE p == n \div d
           s == n % d
<1>1. p \in Nat /\ s \in 0 .. d - 1 /\ n = d * p + s
  OBVIOUS
<1> HIDE DEF p, s
<1>2. ASSUME NEW a \in Nat, NEW b \in Nat, NEW u \in 0 .. d - 1, NEW v \in 0 .. d - 1,
             d * a + u = d * b + v
      PROVE  ~(a < b)
  <2> SUFFICES ASSUME a < b PROVE FALSE
    OBVIOUS
  <2> DEFINE e == b - a - 1
  <2>1. e \in Nat /\ b = a + 1 + e
    OBVIOUS
  <2> HIDE DEF e
  <2>2. d * b = d * a + d + d * e /\ d * e \in Nat /\ d * a \in Nat
    BY <2>1
  <2> QED
    BY <1>2, <2>2
<1>3. p = q
  BY <1>1, <1>2
<1>4. s = r
  BY <1>1, <1>3
<1> QED
  BY <1>3, <1>4 DEF p, s

\* A number is halved bit by bit.
LEMMA Halving ==
    ASSUME NEW n \in Nat, NEW p \in Nat \ {0}
    PROVE  /\ n \div (2 * p) = (n \div p) \div 2
           /\ n % (2 * p) = (n % p) + p * ((n \div p) % 2)
<1> DEFINE q == n \div p
           r == n % p
           h == q \div 2
           b == q % 2
<1>1. q \in Nat /\ r \in 0 .. p - 1 /\ n = p * q + r
  OBVIOUS
<1> HIDE DEF q, r
<1>2. h \in Nat /\ b \in {0, 1} /\ q = 2 * h + b
  BY <1>1
<1> HIDE DEF h, b
<1>3. p * b \in {0, p} /\ p * b + r \in 0 .. 2 * p - 1
  BY <1>1, <1>2
<1>4. p * q = (2 * p) * h + p * b
  BY <1>1, <1>2
<1>5. n = (2 * p) * h + (p * b + r)
  BY <1>1, <1>2, <1>3, <1>4
<1>6. n \div (2 * p) = h /\ n % (2 * p) = p * b + r
  <2> DEFINE d == 2 * p
             s == p * b + r
  <2>1. d \in Nat \ {0} /\ s \in 0 .. d - 1 /\ n = d * h + s
    BY <1>3, <1>5
  <2> HIDE DEF d, s
  <2>2. n \div d = h /\ n % d = s
    BY <1>2, <2>1, QuotientIs
  <2> QED
    BY <2>2 DEF d, s
<1>7. p * b + r = r + p * b
  BY <1>1, <1>2, <1>3
<1> QED
  BY <1>6, <1>7 DEF q, r, h, b

\* The powers of two are the numbers of subsets.
LEMMA NextPower == ASSUME NEW n \in Nat PROVE 2^n \in Nat \ {0} /\ 2^(n + 1) = 2 * 2^n
<1> DEFINE S == 1 .. n
           T == SUBSET S
           U == { B \cup {0} : B \in T }
           f == [B \in T |-> B \cup {0}]
<1>1. IsFiniteSet(S) /\ Cardinality(S) = n
  BY FS_Interval
<1>2. IsFiniteSet(T) /\ Cardinality(T) = 2^n
  BY <1>1, FS_SUBSET
<1>3. IsFiniteSet(0 .. n) /\ Cardinality(0 .. n) = n + 1
  BY FS_Interval
<1>4. Cardinality(SUBSET (0 .. n)) = 2^(n + 1)
  BY <1>3, FS_SUBSET
<1>5. 0 \notin S /\ 0 .. n = S \cup {0}
  OBVIOUS
<1>6. SUBSET (0 .. n) = T \cup U
  <2>1. ASSUME NEW B \in SUBSET (0 .. n) PROVE B \in T \cup U
    <3>1. CASE 0 \in B
      <4>1. B \ {0} \in T /\ B = (B \ {0}) \cup {0}
        BY <1>5, <3>1
      <4> QED
        BY <4>1
    <3>2. CASE 0 \notin B
      BY <1>5, <3>2
    <3> QED
      BY <3>1, <3>2
  <2>2. T \cup U \subseteq SUBSET (0 .. n)
    BY <1>5
  <2> QED
    BY <2>1, <2>2
<1>7. T \cap U = {}
  BY <1>5
<1>8. f \in Injection(T, U) /\ f \in Surjection(T, U)
  <2>1. f \in [T -> U]
    OBVIOUS
  <2>2. ASSUME NEW B \in T, NEW C \in T, f[B] = f[C] PROVE B = C
    <3>1. 0 \notin B /\ 0 \notin C /\ B \cup {0} = C \cup {0}
      BY <1>5, <2>2
    <3> QED
      BY <3>1
  <2>3. \A u \in U : \E B \in T : f[B] = u
    OBVIOUS
  <2> QED
    BY <2>1, <2>2, <2>3 DEF Injection, Surjection, IsInjective
<1>9. IsFiniteSet(U) /\ Cardinality(U) = Cardinality(T)
  <2>1. ExistsBijection(T, U)
    BY <1>8 DEF ExistsBijection, Bijection
  <2> QED
    BY <1>2, <2>1, FS_Bijection
<1>10. Cardinality(T \cup U) = 2^n + 2^n
  <2>1. Cardinality(T \cup U) = Cardinality(T) + Cardinality(U) - Cardinality(T \cap U)
    BY <1>2, <1>9, FS_Union
  <2>2. Cardinality(T \cap U) = 0
    BY <1>7, FS_EmptySet
  <2>3. Cardinality(T) \in Nat
    BY <1>2, FS_CardinalityType
  <2> HIDE DEF T, U
  <2> QED
    BY <1>2, <1>9, <2>1, <2>2, <2>3
<1>11. Cardinality(T) # 0
  BY <1>2, FS_EmptySet
<1>12. 2^n \in Nat
  BY <1>2, FS_CardinalityType
<1>13. 2^n # 0
  BY <1>2, <1>11
<1>14. 2^(n + 1) = 2^n + 2^n
  BY <1>4, <1>6, <1>10
<1> QED
  BY <1>12, <1>13, <1>14

LEMMA PowerIsLarger == \A n \in Nat : n < 2^n
<1> DEFINE P == { n \in Nat : n < 2^n }
<1>1. 0 \in P
  BY NextPower
<1>2. ASSUME NEW n \in Nat, n \in P PROVE n + 1 \in P
  <2>1. n < 2^n /\ 2^(n + 1) = 2 * 2^n /\ 2^n \in Nat
    BY <1>2, NextPower
  <2> QED
    BY <2>1
<1> HIDE DEF P
<1> QED
  BY <1>1, <1>2, NatSetInduction DEF P

-----------------------------------------------------------------------------
\* A map of a set into itself, applied so many times.
Repeated(S, f) ==
    CHOOSE g : /\ g \in [Nat -> [S -> S]]
               /\ \A x \in S : g[0][x] = x
               /\ \A k \in Nat : \A x \in S : g[k + 1][x] = f[g[k][x]]

LEMMA RepeatedFacts ==
    ASSUME NEW S, NEW f \in [S -> S]
    PROVE  /\ Repeated(S, f) \in [Nat -> [S -> S]]
           /\ \A x \in S : Repeated(S, f)[0][x] = x
           /\ \A k \in Nat : \A x \in S : Repeated(S, f)[k + 1][x] = f[Repeated(S, f)[k][x]]
<1> DEFINE M == [S -> S]
           F == [p \in Nat \X M |-> [x \in S |-> f[p[2][x]]]]
           id == [x \in S |-> x]
           Good(g) == /\ g \in [Nat -> [S -> S]]
                      /\ \A x \in S : g[0][x] = x
                      /\ \A k \in Nat : \A x \in S : g[k + 1][x] = f[g[k][x]]
<1>1. id \in M /\ F \in StepOn(M)
  BY DEF StepOn
<1>2. \A k \in Nat, h \in M : F[<<k, h>>] = [x \in S |-> f[h[x]]]
  OBVIOUS
<1> HIDE DEF F
<1>3. PICK g : DefinedBy(M, id, F, g)
  BY <1>1, Recursion
<1>4. g \in [Nat -> M] /\ g[0] = id /\ \A k \in Nat \ {0} : g[k] = F[<<k, g[k - 1]>>]
  BY <1>3 DEF DefinedBy
<1>5. ASSUME NEW k \in Nat PROVE \A x \in S : g[k + 1][x] = f[g[k][x]]
  <2>1. k + 1 \in Nat \ {0} /\ (k + 1) - 1 = k
    OBVIOUS
  <2>2. g[k] \in M /\ g[k + 1] = F[<<k + 1, g[k]>>]
    BY <1>4, <2>1
  <2>3. g[k + 1] = [x \in S |-> f[g[k][x]]]
    BY <1>2, <2>1, <2>2
  <2> QED
    BY <2>3
<1>6. Good(g)
  BY <1>4, <1>5
<1>7. Repeated(S, f) = CHOOSE h : Good(h)
  BY DEF Repeated
<1> HIDE DEF Good
<1>8. Good(Repeated(S, f))
  BY <1>6, <1>7
<1> QED
  BY <1>8 DEF Good

LEMMA RepeatedAdds ==
    ASSUME NEW S, NEW f \in [S -> S], NEW n \in Nat, NEW x \in S
    PROVE  \A m \in Nat : Repeated(S, f)[m + n][x] = Repeated(S, f)[m][Repeated(S, f)[n][x]]
<1> DEFINE g == Repeated(S, f)
           P == { m \in Nat : g[m + n][x] = g[m][g[n][x]] }
<1>1. /\ g \in [Nat -> [S -> S]] /\ \A y \in S : g[0][y] = y
      /\ \A k \in Nat : \A y \in S : g[k + 1][y] = f[g[k][y]]
  BY RepeatedFacts
<1> HIDE DEF g
<1>2. 0 \in P
  <2>1. g[n][x] \in S /\ 0 + n = n
    BY <1>1
  <2> QED
    BY <1>1, <2>1
<1>3. ASSUME NEW m \in Nat, m \in P PROVE m + 1 \in P
  <2>1. g[n][x] \in S /\ (m + 1) + n = (m + n) + 1 /\ m + n \in Nat
    BY <1>1
  <2>2. g[(m + n) + 1][x] = f[g[m + n][x]]
    BY <1>1, <2>1
  <2>3. g[m + 1][g[n][x]] = f[g[m][g[n][x]]]
    BY <1>1, <2>1
  <2> QED
    BY <1>3, <2>1, <2>2, <2>3
<1> HIDE DEF P
<1>4. Nat \subseteq P
  BY <1>2, <1>3, NatSetInduction
<1> QED
  BY <1>4 DEF P, g

==============================================================================
