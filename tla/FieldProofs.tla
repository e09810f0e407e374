----------------------------- MODULE FieldProofs -----------------------------
(***************************************************************************)
(* Theorems about GaloisField: that its tables of powers and logarithms    *)
(* are the multiplication of a field, that the tables of a kernel multiply *)
(* in it, that the elimination finds the only answer there is, and that    *)
(* powers with consecutive exponents can always be solved for.             *)
(***************************************************************************)
EXTENDS GaloisField, Induction

-----------------------------------------------------------------------------
(* Words. *)

LEMMA TabulatedIsSame == \A f : Tabulated(f) = f
  BY DEF Tabulated

\* Words are a group whose every element is its own inverse.
LEMMA XorFacts ==
    \A a, b, c : /\ Xor(a, Xor(b, c)) = Xor(Xor(a, b), c) /\ Xor(a, b) = Xor(b, a)
                 /\ Xor(a, {}) = a /\ Xor({}, a) = a /\ Xor(a, a) = {} /\ Xor(Xor(a, b), b) = a
  BY DEF Xor

LEMMA XorIsWord == \A a, b \in Words : Xor(a, b) \in Words
  BY DEF Xor, Words

LEMMA DifferentWords == \A a, b : Xor(a, b) = {} => a = b
  BY DEF Xor

\* How many words there are, and how many powers of the generator.
LEMMA LimitFacts ==
    /\ GfLimit \in Nat \ {0}
    /\ IsFiniteSet(Words) /\ IsFiniteSet(NonZero) /\ Cardinality(NonZero) = GfLimit
    /\ One \in NonZero /\ {} \in Words /\ NonZero \subseteq Words
<1>1. Width \in Nat \ {0}
  BY WidthAssumption
<1>2. IsFiniteSet(0 .. Width - 1) /\ Cardinality(0 .. Width - 1) = Width
  BY <1>1, FS_Interval
<1>3. IsFiniteSet(Words) /\ Cardinality(Words) = 2^Width
  BY <1>2, FS_SUBSET DEF Words
<1>4. 2^Width \in Nat /\ Width < 2^Width
  BY <1>1, NextPower, PowerIsLarger
<1>5. {} \in Words /\ One \in Words
  BY <1>1 DEF Words, One
<1>6. IsFiniteSet(NonZero) /\ Cardinality(NonZero) = Cardinality(Words) - 1
  BY <1>3, <1>5, FS_RemoveElement DEF NonZero
<1>7. One # {}
  BY DEF One
<1> QED
  BY <1>1, <1>3, <1>4, <1>5, <1>6, <1>7 DEF GfLimit, NonZero

-----------------------------------------------------------------------------
(* Doubling: multiplication by the generator. *)

Maps == [Words -> Words]
Linear == { m \in Maps : \A a, b \in Words : m[Xor(a, b)] = Xor(m[a], m[b]) }

LEMMA LinearOfZero == ASSUME NEW m \in Linear PROVE m[{}] = {}
<1>1. {} \in Words /\ m[{}] \in Words
  BY LimitFacts DEF Linear, Maps
<1>2. Xor({}, {}) = {}
  BY XorFacts
<1>3. m[Xor({}, {})] = Xor(m[{}], m[{}])
  BY <1>1 DEF Linear
<1> QED
  BY <1>2, <1>3, XorFacts

Reduced(x) == IF Width \in x THEN Xor(x, GfPoly) ELSE x
Doubled == [w \in Words |-> Reduced(ShiftedLeft(w))]

LEMMA ShiftedLeftFacts ==
    ASSUME NEW a \in Words, NEW b \in Words
    PROVE  /\ ShiftedLeft(a) \subseteq 1 .. Width
           /\ ShiftedLeft(Xor(a, b)) = Xor(ShiftedLeft(a), ShiftedLeft(b))
           /\ ShiftedLeft(a) = {} => a = {}
<1>1. Width \in Nat \ {0} /\ a \subseteq 0 .. Width - 1 /\ b \subseteq 0 .. Width - 1
  BY WidthAssumption DEF Words
<1>2. \A k : k \in ShiftedLeft(a) => k \in 1 .. Width /\ k - 1 \in a
  BY <1>1 DEF ShiftedLeft
<1>3. \A k \in Nat \ {0} : /\ k \in ShiftedLeft(a) <=> k - 1 \in a
                           /\ k \in ShiftedLeft(b) <=> k - 1 \in b
                           /\ k \in ShiftedLeft(Xor(a, b)) <=> k - 1 \in Xor(a, b)
  BY <1>1 DEF ShiftedLeft, Xor
<1>4. /\ ShiftedLeft(a) \subseteq Nat \ {0} /\ ShiftedLeft(b) \subseteq Nat \ {0}
      /\ ShiftedLeft(Xor(a, b)) \subseteq Nat \ {0}
  BY <1>1 DEF ShiftedLeft, Xor
<1>5. ShiftedLeft(Xor(a, b)) = Xor(ShiftedLeft(a), ShiftedLeft(b))
  <2>1. \A k : k \in ShiftedLeft(Xor(a, b)) <=> k \in Xor(ShiftedLeft(a), ShiftedLeft(b))
    BY <1>3, <1>4 DEF Xor
  <2> QED
    BY <2>1
<1>6. ShiftedLeft(a) = {} => a = {}
  BY DEF ShiftedLeft
<1> QED
  BY <1>2, <1>5, <1>6

LEMMA DoubledFacts ==
    /\ Doubled \in Linear
    /\ \A a \in Words : Doubled[a] = {} => a = {}
    /\ \A a, b \in Words : Doubled[a] = Doubled[b] => a = b
<1>1. Width \in Nat \ {0} /\ GfPoly \subseteq 0 .. Width /\ Width \in GfPoly /\ 0 \in GfPoly
  BY WidthAssumption, FieldAssumption DEF FieldAssumption
<1>2. ASSUME NEW x, x \subseteq 0 .. Width PROVE Reduced(x) \in Words
  <2>1. \A k \in Reduced(x) : k \in 0 .. Width /\ k # Width
    BY <1>1, <1>2 DEF Reduced, Xor
  <2>2. \A k \in 0 .. Width : k # Width => k \in 0 .. Width - 1
    BY <1>1
  <2> QED
    BY <2>1, <2>2 DEF Words
<1>3. Doubled \in Maps
  <2>1. ASSUME NEW w \in Words PROVE Reduced(ShiftedLeft(w)) \in Words
    <3>1. 1 .. Width \subseteq 0 .. Width
      OBVIOUS
    <3> QED
      BY <1>2, <3>1, ShiftedLeftFacts
  <2> QED
    BY <2>1 DEF Doubled, Maps
<1>4. \A x, y : Reduced(Xor(x, y)) = Xor(Reduced(x), Reduced(y))
  <2> TAKE x, y
  <2>1. Width \in Xor(x, y) <=> ~(Width \in x <=> Width \in y)
    BY DEF Xor
  <2>2. /\ Xor(Xor(x, y), GfPoly) = Xor(Xor(x, GfPoly), y)
        /\ Xor(Xor(x, y), GfPoly) = Xor(x, Xor(y, GfPoly))
        /\ Xor(x, y) = Xor(Xor(x, GfPoly), Xor(y, GfPoly))
    BY DEF Xor
  <2> QED
    BY <2>1, <2>2 DEF Reduced
<1>5. ASSUME NEW a \in Words, NEW b \in Words PROVE Doubled[Xor(a, b)] = Xor(Doubled[a], Doubled[b])
  <2>1. Xor(a, b) \in Words
    BY XorIsWord
  <2> QED
    BY <1>4, <2>1, ShiftedLeftFacts DEF Doubled
<1>6. ASSUME NEW a \in Words, Doubled[a] = {} PROVE a = {}
  <2>1. ~(0 \in ShiftedLeft(a))
    BY ShiftedLeftFacts
  <2>2. Reduced(ShiftedLeft(a)) = {}
    BY <1>6 DEF Doubled
  <2>3. ShiftedLeft(a) = {}
    BY <1>1, <2>1, <2>2 DEF Reduced, Xor
  <2> QED
    BY <2>3, ShiftedLeftFacts
<1>7. ASSUME NEW a \in Words, NEW b \in Words, Doubled[a] = Doubled[b] PROVE a = b
  <2>1. Doubled[Xor(a, b)] = {}
    BY <1>5, <1>7, XorFacts
  <2> QED
    BY <1>6, <2>1, XorIsWord, DifferentWords
<1> QED
  BY <1>3, <1>5, <1>6, <1>7 DEF Linear

\* Doubling so many times.
Power(k) == Repeated(Words, Doubled)[k]

LEMMA PowerFacts ==
    /\ \A x \in Words : Power(0)[x] = x
    /\ \A k \in Nat : Power(k) \in Linear /\ \A x \in Words : Power(k + 1)[x] = Doubled[Power(k)[x]]
    /\ \A k, n \in Nat : \A x \in Words : Power(k + n)[x] = Power(k)[Power(n)[x]]
    /\ \A k \in Nat : \A x \in Words : Power(k)[x] = {} => x = {}
<1>1. Doubled \in Maps
  BY DoubledFacts DEF Linear
<1>2. /\ Repeated(Words, Doubled) \in [Nat -> Maps]
      /\ \A x \in Words : Power(0)[x] = x
      /\ \A k \in Nat : \A x \in Words : Power(k + 1)[x] = Doubled[Power(k)[x]]
  BY <1>1, RepeatedFacts DEF Maps, Power
<1>3. \A k, n \in Nat : \A x \in Words : Power(k + n)[x] = Power(k)[Power(n)[x]]
  BY <1>1, RepeatedAdds DEF Maps, Power
<1>4. \A k \in Nat : Power(k) \in Maps
  BY <1>2 DEF Power
<1> DEFINE P == { k \in Nat : Power(k) \in Linear /\ \A x \in Words : Power(k)[x] = {} => x = {} }
<1>5. 0 \in P
  BY <1>2, <1>4, XorIsWord DEF Linear
<1>6. ASSUME NEW k \in Nat, k \in P PROVE k + 1 \in P
  <2>1. ASSUME NEW a \in Words, NEW b \in Words PROVE Power(k + 1)[Xor(a, b)] = Xor(Power(k + 1)[a], Power(k + 1)[b])
    <3>1. Power(k)[Xor(a, b)] = Xor(Power(k)[a], Power(k)[b]) /\ Xor(a, b) \in Words
      BY <1>6, XorIsWord DEF Linear
    <3>2. Power(k)[a] \in Words /\ Power(k)[b] \in Words
      BY <1>4 DEF Maps
    <3>3. Doubled[Xor(Power(k)[a], Power(k)[b])] = Xor(Doubled[Power(k)[a]], Doubled[Power(k)[b]])
      BY <3>2, DoubledFacts DEF Linear
    <3> QED
      BY <1>2, <3>1, <3>3
  <2>2. ASSUME NEW x \in Words, Power(k + 1)[x] = {} PROVE x = {}
    <3>1. Power(k)[x] \in Words
      BY <1>4 DEF Maps
    <3>2. Power(k)[x] = {}
      BY <1>2, <2>2, <3>1, DoubledFacts
    <3> QED
      BY <1>6, <3>2
  <2>3. k + 1 \in Nat
    OBVIOUS
  <2> QED
    BY <1>4, <2>1, <2>2, <2>3 DEF Linear
<1> HIDE DEF P
<1>7. Nat \subseteq P
  BY <1>5, <1>6, NatSetInduction
<1> QED
  BY <1>2, <1>3, <1>7 DEF P

-----------------------------------------------------------------------------
(* The tables of powers and logarithms. *)

LEMMA ExpIs == GfExp = [k \in 0 .. GfLimit - 1 |-> Power(k)[One]]
<1> DEFINE n == GfLimit - 1
           h == [k \in 0 .. n |-> Power(k)[One]]
           Eq(f) == f = [k \in 0 .. n |->
                           IF k = 0 THEN One
                           ELSE LET x == ShiftedLeft(f[k - 1])
                                IN  IF Width \in x THEN Xor(x, GfPoly) ELSE x]
           exp == CHOOSE f : Eq(f)
<1>1. n \in Nat /\ One \in Words
  BY LimitFacts
<1>2. GfExp = exp
  BY TabulatedIsSame DEF GfExp
<1>3. \A k \in 0 .. n : k = 0 \/ (k # 0 /\ k - 1 \in 0 .. n /\ k - 1 \in Nat /\ (k - 1) + 1 = k)
  BY <1>1
<1>4. ASSUME NEW k \in 0 .. n
      PROVE  h[k] = IF k = 0 THEN One ELSE Reduced(ShiftedLeft(h[k - 1]))
  <2>1. CASE k = 0
    BY <1>1, <2>1, PowerFacts
  <2>2. CASE k # 0
    <3>1. k - 1 \in 0 .. n /\ k - 1 \in Nat /\ (k - 1) + 1 = k
      BY <1>3, <2>2
    <3>2. Power(k - 1)[One] \in Words
      BY <1>1, <3>1, PowerFacts DEF Linear, Maps
    <3>3. Power((k - 1) + 1)[One] = Doubled[Power(k - 1)[One]]
      BY <1>1, <3>1, PowerFacts
    <3>4. Doubled[Power(k - 1)[One]] = Reduced(ShiftedLeft(Power(k - 1)[One]))
      BY <3>2 DEF Doubled
    <3> QED
      BY <2>2, <3>1, <3>3, <3>4
  <2> QED
    BY <2>1, <2>2
<1>5. h = [k \in 0 .. n |-> h[k]]
  OBVIOUS
<1> HIDE DEF h
<1>6. Eq(h)
  BY <1>4, <1>5 DEF Reduced
<1>7. Eq(exp)
  <2> HIDE DEF Eq
  <2> QED
    BY <1>6
<1>8. exp[0] = One /\ h[0] = One /\ \A k \in 1 .. n : exp[k] = Reduced(ShiftedLeft(exp[k - 1])) /\ h[k] = Reduced(ShiftedLeft(h[k - 1]))
  <2>1. 0 \in 0 .. n /\ \A k \in 1 .. n : k \in 0 .. n /\ k # 0
    BY <1>1
  <2> QED
    BY <1>4, <1>7, <2>1 DEF Reduced
<1>9. \A k \in 0 .. n : exp[k] = h[k]
  <2> HIDE DEF Eq, exp, n
  <2> QED
    BY <1>1, <1>8, GoOnAlike
<1>10. exp = [k \in 0 .. n |-> exp[k]]
  <2>1. exp = [k \in 0 .. n |->
                 IF k = 0 THEN One
                 ELSE LET x == ShiftedLeft(exp[k - 1])
                      IN  IF Width \in x THEN Xor(x, GfPoly) ELSE x]
    BY <1>7
  <2> HIDE DEF Eq, exp
  <2> QED
    BY <2>1
<1> QED
  BY <1>2, <1>9, <1>10 DEF h

LEMMA ModNext ==
    ASSUME NEW n \in Nat, NEW d \in Nat \ {0}
    PROVE  (n + 1) % d = IF n % d = d - 1 THEN 0 ELSE (n % d) + 1
<1> DEFINE q == n \div d
           r == n % d
           m == n + 1
<1>1. q \in Nat /\ n = d * q + r /\ r \in 0 .. d - 1 /\ m \in Nat
  OBVIOUS
<1> HIDE DEF q, r
<1>2. CASE r = d - 1
  <2>1. m = d * (q + 1) + 0 /\ q + 1 \in Nat /\ 0 \in 0 .. d - 1
    BY <1>1, <1>2
  <2> HIDE DEF m
  <2>2. m % d = 0
    BY <1>1, <2>1, QuotientIs
  <2> QED
    BY <1>2, <2>2 DEF m, r
<1>3. CASE r # d - 1
  <2>1. m = d * q + (r + 1) /\ r + 1 \in 0 .. d - 1
    BY <1>1, <1>3
  <2> HIDE DEF m
  <2>2. m % d = r + 1
    BY <1>1, <2>1, QuotientIs
  <2> QED
    BY <1>3, <2>2 DEF m, r
<1> QED
  BY <1>2, <1>3

\* Every word but zero is one power of the generator, and the powers come round.
LEMMA ExpFacts ==
    /\ GfExp \in [0 .. GfLimit - 1 -> NonZero]
    /\ \A w \in NonZero : \E k \in 0 .. GfLimit - 1 : GfExp[k] = w
    /\ \A j, k \in 0 .. GfLimit - 1 : GfExp[j] = GfExp[k] => j = k
    /\ \A n \in Nat : n % GfLimit \in 0 .. GfLimit - 1 /\ Power(n)[One] = GfExp[n % GfLimit]
<1> DEFINE L == GfLimit
           I == 0 .. L - 1
<1>1. L \in Nat \ {0} /\ IsFiniteSet(NonZero) /\ Cardinality(NonZero) = L /\ One \in NonZero /\ One \in Words
  BY LimitFacts
<1>2. ASSUME NEW k \in Nat PROVE Power(k)[One] \in NonZero
  <2>1. Power(k)[One] \in Words
    BY <1>1, PowerFacts DEF Linear, Maps
  <2>2. Power(k)[One] # {}
    BY <1>1, PowerFacts DEF NonZero
  <2> QED
    BY <2>1, <2>2 DEF NonZero
<1>3. \A k \in I : GfExp[k] = Power(k)[One]
  BY ExpIs
<1>4. GfExp \in [I -> NonZero]
  <2>1. \A k \in I : k \in Nat
    BY <1>1
  <2> QED
    BY <1>2, <2>1, ExpIs
<1>5. \A w \in NonZero : \E k \in I : GfExp[k] = w
  BY PolyIsPrimitive
<1>6. IsFiniteSet(I) /\ Cardinality(I) = L
  <2>1. 0 \in Int /\ L - 1 \in Int /\ ~(0 > L - 1) /\ (L - 1) - 0 + 1 = L
    BY <1>1
  <2> HIDE DEF L
  <2> QED
    BY <2>1, FS_Interval
<1>7. GfExp \in Surjection(I, NonZero)
  BY <1>4, <1>5 DEF Surjection
<1>8. GfExp \in Injection(I, NonZero)
  BY <1>1, <1>6, <1>7, FS_SurjSameCardinalityImpliesInj
<1>9. \A j, k \in I : GfExp[j] = GfExp[k] => j = k
  BY <1>8 DEF Injection, IsInjective
<1>10. Doubled[GfExp[L - 1]] = One
  <2>1. L - 1 \in I /\ GfExp[L - 1] \in NonZero /\ GfExp[L - 1] \in Words
    BY <1>1, <1>4 DEF NonZero
  <2>2. Doubled[GfExp[L - 1]] \in NonZero
    BY <2>1, DoubledFacts DEF Linear, Maps, NonZero
  <2>3. PICK k \in I : GfExp[k] = Doubled[GfExp[L - 1]]
    BY <1>5, <2>2
  <2>4. CASE k = 0
    BY <1>1, <1>3, <2>3, <2>4, PowerFacts
  <2>5. CASE k # 0
    <3>1. k - 1 \in I /\ (k - 1) + 1 = k /\ k - 1 \in Nat /\ k - 1 # L - 1
      BY <1>1, <2>5
    <3>2. GfExp[k] = Doubled[GfExp[k - 1]]
      <4>1. Power((k - 1) + 1)[One] = Doubled[Power(k - 1)[One]]
        BY <1>1, <3>1, PowerFacts
      <4> QED
        BY <1>3, <3>1, <4>1
    <3>3. GfExp[k - 1] \in Words
      BY <1>4, <3>1 DEF NonZero
    <3>4. GfExp[k - 1] = GfExp[L - 1]
      BY <2>1, <2>3, <3>2, <3>3, DoubledFacts
    <3> QED
      BY <1>9, <2>1, <3>1, <3>4
  <2> QED
    BY <2>4, <2>5
<1> DEFINE P == { n \in Nat : Power(n)[One] = GfExp[n % L] }
<1>11. 0 \in P
  <2>1. 0 % L = 0 /\ 0 \in I
    BY <1>1
  <2> QED
    BY <1>3, <2>1
<1>12. ASSUME NEW n \in Nat, n \in P PROVE n + 1 \in P
  <2> DEFINE r == n % L
  <2>1. r \in I /\ r \in Nat
    BY <1>1
  <2>2. (n + 1) % L = IF r = L - 1 THEN 0 ELSE r + 1
    BY <1>1, ModNext
  <2> HIDE DEF r
  <2>3. Power(n + 1)[One] = Doubled[GfExp[r]]
    <3>1. Power(n + 1)[One] = Doubled[Power(n)[One]]
      BY <1>1, PowerFacts
    <3> QED
      BY <1>12, <3>1 DEF r
  <2>4. CASE r = L - 1
    <3>1. 0 \in I /\ Power(0)[One] = One
      BY <1>1, PowerFacts
    <3> QED
      BY <1>3, <1>10, <2>2, <2>3, <2>4, <3>1
  <2>5. CASE r # L - 1
    <3>1. r + 1 \in I
      BY <1>1, <2>1, <2>5
    <3>2. GfExp[r + 1] = Doubled[GfExp[r]]
      <4>1. Power(r + 1)[One] = Doubled[Power(r)[One]]
        BY <1>1, <2>1, PowerFacts
      <4> QED
        BY <1>3, <2>1, <3>1, <4>1
    <3> QED
      BY <2>2, <2>3, <2>5, <3>2
  <2> QED
    BY <2>4, <2>5
<1> HIDE DEF P
<1>13. Nat \subseteq P
  BY <1>11, <1>12, NatSetInduction
<1>14. \A n \in Nat : n % L \in I
  BY <1>1
<1> QED
  BY <1>4, <1>5, <1>9, <1>13, <1>14 DEF P

LEMMA LogFacts ==
    /\ \A w \in NonZero : GfLog[w] \in 0 .. GfLimit - 1 /\ GfLog[w] \in Nat /\ GfExp[GfLog[w]] = w
    /\ \A n \in Nat : GfLog[GfExp[n % GfLimit]] = n % GfLimit
<1>1. GfLog = [w \in NonZero |-> CHOOSE k \in 0 .. GfLimit - 1 : GfExp[k] = w]
  BY TabulatedIsSame DEF GfLog
<1>2. \A w \in NonZero : GfLog[w] \in 0 .. GfLimit - 1 /\ GfExp[GfLog[w]] = w
  BY <1>1, ExpFacts
<1>3. \A k \in 0 .. GfLimit - 1 : GfExp[k] \in NonZero /\ k \in Nat
  BY ExpFacts
<1> QED
  BY <1>2, <1>3, ExpFacts

LEMMA ModAdds ==
    ASSUME NEW n \in Nat, NEW m \in Nat, NEW d \in Nat \ {0}
    PROVE  ((n % d) + m) % d = (n + m) % d
<1> DEFINE q == n \div d
           r == n % d
           p == (r + m) \div d
           s == (r + m) % d
<1>1. q \in Nat /\ r \in Nat /\ n = d * q + r
  OBVIOUS
<1> HIDE DEF q, r
<1>2. p \in Nat /\ s \in 0 .. d - 1 /\ r + m = d * p + s
  BY <1>1
<1> HIDE DEF p, s
<1>3. n + m = d * (q + p) + s /\ q + p \in Nat /\ n + m \in Nat
  BY <1>1, <1>2
<1>4. (n + m) % d = s
  BY <1>2, <1>3, QuotientIs
<1> QED
  BY <1>4 DEF s, r

\* A product is the second factor, doubled as often as the logarithm of the first says.
LEMMA MulIs ==
    /\ \A b : GfMul({}, b) = {}
    /\ \A a \in NonZero : \A b \in Words : GfMul(a, b) = Power(GfLog[a])[b]
<1>1. ASSUME NEW a \in NonZero, NEW b \in Words PROVE GfMul(a, b) = Power(GfLog[a])[b]
  <2>1. GfLog[a] \in Nat /\ a # {}
    BY LogFacts DEF NonZero
  <2>2. CASE b = {}
    <3>1. Power(GfLog[a])[{}] = {}
      BY <2>1, PowerFacts, LinearOfZero
    <3> QED
      BY <2>2, <3>1 DEF GfMul
  <2>3. CASE b # {}
    <3>1. b \in NonZero
      BY <2>3 DEF NonZero
    <3>2. GfLog[b] \in Nat /\ GfLog[b] \in 0 .. GfLimit - 1 /\ GfExp[GfLog[b]] = b
      BY <3>1, LogFacts
    <3>3. Power(GfLog[b])[One] = b
      BY <3>2, ExpIs
    <3>4. Power(GfLog[a] + GfLog[b])[One] = Power(GfLog[a])[b]
      <4>1. One \in Words
        BY LimitFacts
      <4>2. \A k, n \in Nat : \A x \in Words : Power(k + n)[x] = Power(k)[Power(n)[x]]
        BY PowerFacts
      <4> QED
        BY <2>1, <3>2, <3>3, <4>1, <4>2, Zenon
    <3>5. Power(GfLog[a] + GfLog[b])[One] = GfExp[(GfLog[a] + GfLog[b]) % GfLimit]
      <4>1. GfLog[a] + GfLog[b] \in Nat
        BY <2>1, <3>2
      <4>2. \A n \in Nat : Power(n)[One] = GfExp[n % GfLimit]
        BY ExpFacts
      <4> QED
        BY <4>1, <4>2
    <3> QED
      BY <2>1, <2>3, <3>4, <3>5 DEF GfMul
  <2> QED
    BY <2>2, <2>3
<1> QED
  BY <1>1 DEF GfMul

\* The logarithm of a product of two that are not zero.
LEMMA LogOfProduct ==
    ASSUME NEW a \in NonZero, NEW b \in NonZero
    PROVE  GfMul(a, b) \in NonZero /\ GfLog[GfMul(a, b)] = (GfLog[a] + GfLog[b]) % GfLimit
<1>1. GfLog[a] \in Nat /\ GfLog[b] \in Nat /\ a # {} /\ b # {}
  BY LogFacts DEF NonZero
<1>2. GfMul(a, b) = GfExp[(GfLog[a] + GfLog[b]) % GfLimit]
  BY <1>1 DEF GfMul
<1>3. GfLog[a] + GfLog[b] \in Nat
  BY <1>1
<1>4. \A n \in Nat : GfExp[n % GfLimit] \in NonZero /\ GfLog[GfExp[n % GfLimit]] = n % GfLimit
  BY ExpFacts, LogFacts
<1> QED
  BY <1>2, <1>3, <1>4

\* The words are a field.
THEOREM IsField ==
    \A a, b, c \in Words :
        /\ GfMul(a, b) \in Words
        /\ GfMul(a, b) = GfMul(b, a)
        /\ GfMul(a, GfMul(b, c)) = GfMul(GfMul(a, b), c)
        /\ GfMul(a, Xor(b, c)) = Xor(GfMul(a, b), GfMul(a, c))
        /\ GfMul(One, a) = a /\ GfMul(a, {}) = {}
        /\ GfMul(a, b) = {} => a = {} \/ b = {}
        /\ a # {} => GfDiv(One, a) \in NonZero /\ GfMul(a, GfDiv(One, a)) = One
<1> SUFFICES ASSUME NEW a \in Words, NEW b \in Words, NEW c \in Words
             PROVE  /\ GfMul(a, b) \in Words
                    /\ GfMul(a, b) = GfMul(b, a)
                    /\ GfMul(a, GfMul(b, c)) = GfMul(GfMul(a, b), c)
                    /\ GfMul(a, Xor(b, c)) = Xor(GfMul(a, b), GfMul(a, c))
                    /\ GfMul(One, a) = a /\ GfMul(a, {}) = {}
                    /\ GfMul(a, b) = {} => a = {} \/ b = {}
                    /\ a # {} => GfDiv(One, a) \in NonZero /\ GfMul(a, GfDiv(One, a)) = One
  OBVIOUS
<1> DEFINE L == GfLimit
<1>1. \A w \in Words : w = {} \/ w \in NonZero
  BY DEF NonZero
<1>2. L \in Nat \ {0} /\ NonZero \subseteq Words /\ {} \in Words /\ One \in NonZero /\ {} \notin NonZero
  BY LimitFacts DEF NonZero
<1>3. \A w \in NonZero : GfLog[w] \in Nat /\ GfLog[w] \in 0 .. L - 1 /\ GfExp[GfLog[w]] = w
  BY LogFacts
<1>4. \A w : GfMul({}, w) = {} /\ GfMul(w, {}) = {}
  BY DEF GfMul
<1>5. GfMul(a, b) = GfMul(b, a)
  <2>1. CASE a = {} \/ b = {}
    BY <1>4, <2>1
  <2>2. CASE a \in NonZero /\ b \in NonZero
    <3>1. GfLog[a] + GfLog[b] = GfLog[b] + GfLog[a]
      BY <1>3, <2>2
    <3> QED
      BY <3>1 DEF GfMul
  <2> QED
    BY <1>1, <2>1, <2>2
<1>6. GfMul(a, b) \in Words /\ (GfMul(a, b) = {} => a = {} \/ b = {})
  <2>1. CASE a = {} \/ b = {}
    BY <1>2, <1>4, <2>1
  <2>2. CASE a \in NonZero /\ b \in NonZero
    <3>1. GfMul(a, b) \in NonZero
      BY <2>2, LogOfProduct
    <3> QED
      BY <1>2, <3>1
  <2> QED
    BY <1>1, <2>1, <2>2
<1>7. GfMul(a, GfMul(b, c)) = GfMul(GfMul(a, b), c)
  <2>1. CASE a = {} \/ b = {} \/ c = {}
    BY <1>4, <2>1
  <2>2. CASE a \in NonZero /\ b \in NonZero /\ c \in NonZero
    <3> DEFINE x == GfLog[a]  y == GfLog[b]  z == GfLog[c]
    <3>1. x \in Nat /\ y \in Nat /\ z \in Nat
      BY <1>3, <2>2
    <3>2. GfMul(b, c) \in NonZero /\ GfLog[GfMul(b, c)] = (y + z) % L /\ GfMul(a, b) \in NonZero /\ GfLog[GfMul(a, b)] = (x + y) % L
      BY <2>2, LogOfProduct
    <3>3. GfMul(a, GfMul(b, c)) \in NonZero /\ GfLog[GfMul(a, GfMul(b, c))] = (x + ((y + z) % L)) % L
      BY <2>2, <3>2, LogOfProduct
    <3>4. GfMul(GfMul(a, b), c) \in NonZero /\ GfLog[GfMul(GfMul(a, b), c)] = (((x + y) % L) + z) % L
      BY <2>2, <3>2, LogOfProduct
    <3>5. (x + ((y + z) % L)) % L = (((x + y) % L) + z) % L
      <4> HIDE DEF x, y, z, L
      <4>1. y + z \in Nat /\ x + y \in Nat
        BY <3>1
      <4>2. (((y + z) % L) + x) % L = ((y + z) + x) % L /\ (((x + y) % L) + z) % L = ((x + y) + z) % L
        BY <1>2, <3>1, <4>1, ModAdds
      <4>3. (y + z) + x = (x + y) + z /\ (y + z) % L \in Nat
        BY <1>2, <3>1
      <4>4. ((y + z) % L) + x = x + ((y + z) % L)
        BY <3>1, <4>3
      <4> QED
        BY <4>2, <4>3, <4>4
    <3> QED
      BY <1>3, <3>3, <3>4, <3>5
  <2> QED
    BY <1>1, <2>1, <2>2
<1>8. GfMul(a, Xor(b, c)) = Xor(GfMul(a, b), GfMul(a, c))
  <2>1. CASE a = {}
    BY <1>4, <2>1, XorFacts
  <2>2. CASE a \in NonZero
    <3>1. Power(GfLog[a]) \in Linear /\ Xor(b, c) \in Words
      BY <1>3, <2>2, PowerFacts, XorIsWord
    <3> QED
      BY <2>2, <3>1, MulIs DEF Linear
  <2> QED
    BY <1>1, <2>1, <2>2
<1>9. GfMul(One, a) = a
  <2>1. GfLog[One] = 0
    <3>1. 0 % L = 0 /\ 0 \in 0 .. L - 1
      BY <1>2
    <3>2. GfExp[0] = One
      BY <1>2, <3>1, ExpIs, PowerFacts
    <3> QED
      BY <3>1, <3>2, LogFacts
  <2> QED
    BY <1>2, <2>1, MulIs, PowerFacts
<1>10. ASSUME a # {} PROVE GfDiv(One, a) \in NonZero /\ GfMul(a, GfDiv(One, a)) = One
  <2> DEFINE x == GfLog[a]
             o == GfLog[One]
             d == (o + L - x) % L
  <2>1. a \in NonZero
    BY <1>1, <1>10
  <2>2. x \in 0 .. L - 1 /\ x \in Nat /\ o \in 0 .. L - 1 /\ GfExp[o] = One
    BY <1>2, <1>3, <2>1
  <2>3. o + L - x \in Nat
    BY <1>2, <2>2
  <2>4. GfDiv(One, a) = GfExp[d]
    BY <1>2 DEF GfDiv
  <2>5. GfExp[d] \in NonZero /\ GfLog[GfExp[d]] = d /\ d \in Nat
    BY <2>3, ExpFacts, LogFacts
  <2>6. GfMul(a, GfExp[d]) \in NonZero /\ GfLog[GfMul(a, GfExp[d])] = (x + d) % L
    BY <2>1, <2>5, LogOfProduct
  <2>7. (x + d) % L = o
    <3> HIDE DEF L, x, o
    <3>1. (d + x) % L = (o + L - x + x) % L
      BY <1>2, <2>2, <2>3, ModAdds
    <3>2. o + L - x + x = L * 1 + o /\ o + L - x + x \in Nat
      BY <1>2, <2>2
    <3>3. (o + L - x + x) % L = o
      <4>1. 1 \in Nat
        OBVIOUS
      <4> QED
        BY <1>2, <2>2, <3>2, <4>1, QuotientIs
    <3>4. d + x = x + d
      BY <2>2, <2>5
    <3> QED
      BY <3>1, <3>3, <3>4
  <2>8. GfMul(a, GfExp[d]) = GfExp[o]
    BY <1>3, <2>6, <2>7
  <2> QED
    BY <2>2, <2>4, <2>5, <2>8
<1> QED
  BY <1>4, <1>5, <1>6, <1>7, <1>8, <1>9, <1>10

LEMMA PowFacts ==
    ASSUME NEW a \in NonZero
    PROVE  /\ GfPow(a, 0) = One
           /\ \A e \in Nat : GfPow(a, e) \in NonZero /\ GfPow(a, e + 1) = GfMul(a, GfPow(a, e))
<1> DEFINE x == GfLog[a]
           L == GfLimit
<1>1. x \in Nat /\ a # {} /\ L \in Nat \ {0}
  BY LimitFacts, LogFacts DEF NonZero
<1>2. \A e \in Nat : x * e \in Nat /\ GfPow(a, e) = GfExp[(x * e) % L]
  BY <1>1 DEF GfPow
<1>3. GfPow(a, 0) = One
  <2>1. x * 0 = 0 /\ 0 % L = 0 /\ 0 \in 0 .. L - 1 /\ 0 \in Nat
    BY <1>1
  <2> QED
    <3>1. GfExp[0] = One
      BY <2>1, ExpIs, PowerFacts, LimitFacts
    <3>2. GfPow(a, 0) = GfExp[(x * 0) % L]
      BY <1>2, <2>1
    <3> HIDE DEF x, L
    <3> QED
      BY <2>1, <3>1, <3>2
<1>4. ASSUME NEW e \in Nat PROVE GfPow(a, e) \in NonZero /\ GfPow(a, e + 1) = GfMul(a, GfPow(a, e))
  <2> DEFINE m == x * e
  <2>1. m \in Nat /\ GfPow(a, e) = GfExp[m % L] /\ GfPow(a, e) \in NonZero /\ GfLog[GfPow(a, e)] = m % L
    <3>1. m \in Nat /\ GfPow(a, e) = GfExp[m % L]
      BY <1>2
    <3>2. \A n \in Nat : GfExp[n % L] \in NonZero /\ GfLog[GfExp[n % L]] = n % L
      BY ExpFacts, LogFacts
    <3> HIDE DEF m, L
    <3> QED
      BY <3>1, <3>2
  <2>2. GfMul(a, GfPow(a, e)) = GfExp[(x + (m % L)) % L]
    BY <1>1, <2>1 DEF GfMul, NonZero
  <2>3. x * (e + 1) = m + x
    BY <1>1
  <2> HIDE DEF m, x, L
  <2>4. ((m % L) + x) % L = (m + x) % L
    BY <1>1, <2>1, ModAdds
  <2>5. (m % L) + x = x + (m % L)
    BY <1>1, <2>1
  <2>6. GfPow(a, e + 1) = GfExp[(x * (e + 1)) % L]
    <3>1. e + 1 \in Nat
      OBVIOUS
    <3> QED
      BY <1>2, <3>1
  <2> QED
    BY <2>1, <2>2, <2>3, <2>4, <2>5, <2>6
<1> QED
  BY <1>3, <1>4

-----------------------------------------------------------------------------
(* Sums over finite sets. *)

\* What holds of no element, and still with one more, holds of a finite set.
LEMMA SubsetInduction ==
    ASSUME NEW S, IsFiniteSet(S), NEW C, {} \in C,
           \A T \in SUBSET S : \A t \in S : T \in C /\ t \notin T => T \cup {t} \in C
    PROVE  S \in C
<1> DEFINE P == { n \in Nat : \A T \in SUBSET S : Cardinality(T) = n => T \in C }
<1>1. 0 \in P
  <2>1. \A T \in SUBSET S : Cardinality(T) = 0 => T = {}
    BY FS_Subset, FS_EmptySet
  <2> QED
    BY <2>1
<1>2. ASSUME NEW n \in Nat, n \in P PROVE n + 1 \in P
  <2> SUFFICES ASSUME NEW T \in SUBSET S, Cardinality(T) = n + 1 PROVE T \in C
    OBVIOUS
  <2>1. IsFiniteSet(T) /\ T # {}
    BY FS_Subset, FS_EmptySet
  <2>2. PICK t \in T : TRUE
    BY <2>1
  <2> DEFINE R == T \ {t}
  <2>3. Cardinality(R) = n
    <3>1. Cardinality(T \ {t}) = Cardinality(T) - 1
      BY <2>1, FS_RemoveElement, Zenon
    <3> QED
      BY <3>1
  <2>4. R \in C
    BY <1>2, <2>3
  <2> QED
    BY <2>4
<1>3. Nat \subseteq P
  <2> HIDE DEF P
  <2> QED
    BY <1>1, <1>2, NatSetInduction
<1>4. Cardinality(S) \in Nat
  BY FS_CardinalityType
<1> QED
  BY <1>3, <1>4

LEMMA TotalIsWord == \A S, f : Total(S, f) \in Words
  BY DEF Total, Words

LEMMA TotalOfNone == \A f : Total({}, f) = {}
<1>1. \A f, k : { t \in {} : k \in f[t] } = {}
  OBVIOUS
<1>2. Cardinality({}) = 0 /\ 0 % 2 = 0
  BY FS_EmptySet
<1> QED
  BY <1>1, <1>2 DEF Total

\* One more is added.
LEMMA TotalAdds ==
    ASSUME NEW S, IsFiniteSet(S), NEW t, t \notin S, NEW f, f[t] \in Words
    PROVE  Total(S \cup {t}, f) = Xor(Total(S, f), f[t])
<1> DEFINE Of(T, k) == { u \in T : k \in f[u] }
<1>1. ASSUME NEW k \in 0 .. Width - 1
      PROVE  Cardinality(Of(S \cup {t}, k)) % 2 = 1 <=> ~(Cardinality(Of(S, k)) % 2 = 1 <=> k \in f[t])
  <2>1. IsFiniteSet(Of(S, k)) /\ Cardinality(Of(S, k)) \in Nat
    BY FS_Subset, FS_CardinalityType
  <2>2. CASE k \in f[t]
    <3>1. Of(S \cup {t}, k) = Of(S, k) \cup {t} /\ t \notin Of(S, k)
      BY <2>2
    <3>2. Cardinality(Of(S \cup {t}, k)) = Cardinality(Of(S, k)) + 1
      BY <2>1, <3>1, FS_AddElement
    <3> HIDE DEF Of
    <3> QED
      BY <2>1, <2>2, <3>2
  <2>3. CASE k \notin f[t]
    <3>1. Of(S \cup {t}, k) = Of(S, k)
      BY <2>3
    <3> QED
      BY <2>3, <3>1
  <2> QED
    BY <2>2, <2>3
<1>2. \A T, k : k \in Total(T, f) <=> k \in 0 .. Width - 1 /\ Cardinality(Of(T, k)) % 2 = 1
  BY DEF Total
<1>3. f[t] \subseteq 0 .. Width - 1
  BY DEF Words
<1> HIDE DEF Of
<1>4. \A k : k \in Total(S \cup {t}, f) <=> k \in Xor(Total(S, f), f[t])
  BY <1>1, <1>2, <1>3 DEF Xor
<1> QED
  BY <1>4

LEMMA TotalSame ==
    ASSUME NEW S, NEW f, NEW g, \A t \in S : f[t] = g[t]
    PROVE  Total(S, f) = Total(S, g)
<1>1. \A k : { t \in S : k \in f[t] } = { t \in S : k \in g[t] }
  OBVIOUS
<1> QED
  BY <1>1 DEF Total

LEMMA TotalOfZeros ==
    ASSUME NEW S, NEW f, \A t \in S : f[t] = {}
    PROVE  Total(S, f) = {}
<1>1. \A k : { t \in S : k \in f[t] } = {}
  OBVIOUS
<1>2. Cardinality({}) = 0 /\ 0 % 2 = 0
  BY FS_EmptySet
<1> QED
  BY <1>1, <1>2 DEF Total

\* The sum of what a linear map makes of the terms.
LEMMA TotalMaps ==
    ASSUME NEW S, IsFiniteSet(S), NEW f, \A t \in S : f[t] \in Words, NEW m \in Linear
    PROVE  Total(S, [t \in S |-> m[f[t]]]) = m[Total(S, f)]
<1> DEFINE g == [t \in S |-> m[f[t]]]
           C == { T \in SUBSET S : Total(T, g) = m[Total(T, f)] }
<1>1. {} \in C
  BY TotalOfNone, LinearOfZero
<1>2. ASSUME NEW T \in SUBSET S, NEW t \in S, T \in C, t \notin T PROVE T \cup {t} \in C
  <2>1. g[t] = m[f[t]] /\ f[t] \in Words /\ g[t] \in Words
    BY DEF Linear, Maps
  <2>2. IsFiniteSet(T)
    BY FS_Subset
  <2> HIDE DEF g
  <2>3. Total(T \cup {t}, g) = Xor(Total(T, g), g[t]) /\ Total(T \cup {t}, f) = Xor(Total(T, f), f[t])
    BY <1>2, <2>1, <2>2, TotalAdds
  <2>4. m[Xor(Total(T, f), f[t])] = Xor(m[Total(T, f)], m[f[t]])
    BY <2>1, TotalIsWord DEF Linear
  <2> QED
    BY <1>2, <2>1, <2>3, <2>4
<1> HIDE DEF C
<1>3. S \in C
  BY <1>1, <1>2, SubsetInduction
<1> QED
  BY <1>3 DEF C

\* The sum of sums.
LEMMA TotalOfXor ==
    ASSUME NEW S, IsFiniteSet(S), NEW f, NEW g, \A t \in S : f[t] \in Words /\ g[t] \in Words
    PROVE  Total(S, [t \in S |-> Xor(f[t], g[t])]) = Xor(Total(S, f), Total(S, g))
<1> DEFINE h == [t \in S |-> Xor(f[t], g[t])]
           C == { T \in SUBSET S : Total(T, h) = Xor(Total(T, f), Total(T, g)) }
<1>1. {} \in C
  BY TotalOfNone, XorFacts
<1>2. ASSUME NEW T \in SUBSET S, NEW t \in S, T \in C, t \notin T PROVE T \cup {t} \in C
  <2>1. h[t] = Xor(f[t], g[t]) /\ f[t] \in Words /\ g[t] \in Words /\ h[t] \in Words
    BY XorIsWord
  <2>2. IsFiniteSet(T)
    BY FS_Subset
  <2> HIDE DEF h
  <2>3. /\ Total(T \cup {t}, h) = Xor(Total(T, h), h[t])
        /\ Total(T \cup {t}, f) = Xor(Total(T, f), f[t])
        /\ Total(T \cup {t}, g) = Xor(Total(T, g), g[t])
    BY <1>2, <2>1, <2>2, TotalAdds
  <2>4. \A p, q, u, v : Xor(Xor(p, q), Xor(u, v)) = Xor(Xor(p, u), Xor(q, v))
    BY DEF Xor
  <2>5. Total(T, h) = Xor(Total(T, f), Total(T, g))
    BY <1>2
  <2>6. Total(T \cup {t}, h) = Xor(Total(T \cup {t}, f), Total(T \cup {t}, g))
    <3>1. Xor(Xor(Total(T, f), Total(T, g)), Xor(f[t], g[t])) = Xor(Xor(Total(T, f), f[t]), Xor(Total(T, g), g[t]))
      BY <2>4
    <3> QED
      BY <2>1, <2>3, <2>5, <3>1
  <2>7. T \cup {t} \in SUBSET S
    OBVIOUS
  <2> QED
    BY <2>6, <2>7, Zenon
<1> HIDE DEF C
<1>3. S \in C
  BY <1>1, <1>2, SubsetInduction
<1> QED
  BY <1>3 DEF C

\* The sum over a set of two parts.
LEMMA TotalOfParts ==
    ASSUME NEW S, IsFiniteSet(S), NEW R \in SUBSET S, NEW f, \A t \in S : f[t] \in Words
    PROVE  Total(S, f) = Xor(Total(R, f), Total(S \ R, f))
<1> DEFINE D == S \ R
           C == { T \in SUBSET D : Total(R \cup T, f) = Xor(Total(R, f), Total(T, f)) }
<1>1. {} \in C
  <2>1. R \cup {} = R
    OBVIOUS
  <2> QED
    BY <2>1, TotalOfNone, XorFacts
<1>2. ASSUME NEW T \in SUBSET D, NEW t \in D, T \in C, t \notin T PROVE T \cup {t} \in C
  <2>1. IsFiniteSet(T) /\ IsFiniteSet(R \cup T) /\ f[t] \in Words
    BY FS_Subset
  <2>2. R \cup (T \cup {t}) = (R \cup T) \cup {t} /\ t \notin R \cup T
    BY <1>2
  <2>3. /\ Total((R \cup T) \cup {t}, f) = Xor(Total(R \cup T, f), f[t])
        /\ Total(T \cup {t}, f) = Xor(Total(T, f), f[t])
    BY <1>2, <2>1, <2>2, TotalAdds
  <2>4. Total(R \cup T, f) = Xor(Total(R, f), Total(T, f))
    BY <1>2
  <2>5. Total(R \cup (T \cup {t}), f) = Xor(Total(R, f), Total(T \cup {t}, f))
    <3>1. Xor(Xor(Total(R, f), Total(T, f)), f[t]) = Xor(Total(R, f), Xor(Total(T, f), f[t]))
      BY XorFacts
    <3> QED
      BY <2>2, <2>3, <2>4, <3>1
  <2>6. T \cup {t} \in SUBSET D
    OBVIOUS
  <2> QED
    BY <2>5, <2>6, Zenon
<1>3. IsFiniteSet(D)
  BY FS_Subset
<1>4. D \in C
  <2> HIDE DEF C, D
  <2> QED
    BY <1>1, <1>2, <1>3, SubsetInduction
<1>5. R \cup D = S
  OBVIOUS
<1> QED
  BY <1>4, <1>5

LEMMA TotalOfOne ==
    ASSUME NEW S, IsFiniteSet(S), NEW u \in S, NEW f, f[u] \in Words, \A t \in S : t # u => f[t] = {}
    PROVE  Total(S, f) = f[u]
<1> DEFINE R == S \ {u}
<1>1. IsFiniteSet(R) /\ u \notin R /\ S = R \cup {u}
  BY FS_Subset
<1>2. Total(R, f) = {}
  BY TotalOfZeros
<1> HIDE DEF R
<1>3. Total(R \cup {u}, f) = Xor(Total(R, f), f[u])
  BY <1>1, TotalAdds
<1> QED
  BY <1>1, <1>2, <1>3, XorFacts

\* The sum does not depend on the names of the terms.
LEMMA TotalRenamed ==
    ASSUME NEW S, IsFiniteSet(S), NEW T, NEW b \in Bijection(S, T), NEW f, NEW g, \A s \in S : g[s] = f[b[s]]
    PROVE  Total(S, g) = Total(T, f)
<1>1. ASSUME NEW k PROVE Cardinality({ s \in S : k \in g[s] }) = Cardinality({ t \in T : k \in f[t] })
  <2> DEFINE A == { s \in S : k \in g[s] }
             B == { t \in T : k \in f[t] }
             c == [s \in A |-> b[s]]
  <2>1. /\ \A s \in S : b[s] \in T
        /\ \A s, r \in S : b[s] = b[r] => s = r
        /\ \A t \in T : \E s \in S : b[s] = t
    BY DEF Bijection, Injection, Surjection, IsInjective
  <2>2. \A s \in A : b[s] \in B
    BY <2>1
  <2>3. \A t \in B : \E s \in A : b[s] = t
    BY <2>1
  <2>4. c \in [A -> B] /\ \A s \in A : c[s] = b[s] /\ s \in S
    BY <2>2
  <2> HIDE DEF A, B, c
  <2>5. c \in Bijection(A, B)
    BY <2>1, <2>3, <2>4 DEF Bijection, Injection, Surjection, IsInjective
  <2>6. IsFiniteSet(A)
    BY FS_Subset DEF A
  <2>7. Cardinality(A) = Cardinality(B)
    BY <2>5, <2>6, FS_Bijection DEF ExistsBijection
  <2> QED
    BY <2>7 DEF A, B
<1>2. \A k : k \in Total(S, g) <=> k \in Total(T, f)
  BY <1>1, Zenon DEF Total
<1> QED
  BY <1>2 DEF Total

-----------------------------------------------------------------------------
(* Products from tables. *)

LEMMA ScalingIsLinear == ASSUME NEW a \in Words PROVE [w \in Words |-> GfMul(a, w)] \in Linear
<1>1. \A b, c \in Words : GfMul(a, b) \in Words /\ GfMul(a, Xor(b, c)) = Xor(GfMul(a, b), GfMul(a, c)) /\ Xor(b, c) \in Words
  BY IsField, XorIsWord
<1> QED
  BY <1>1 DEF Linear, Maps

\* The sum of multiples is the multiple of the sum.
LEMMA TotalScaled ==
    ASSUME NEW S, IsFiniteSet(S), NEW f, \A t \in S : f[t] \in Words, NEW a \in Words
    PROVE  Total(S, [t \in S |-> GfMul(a, f[t])]) = GfMul(a, Total(S, f))
<1> DEFINE m == [w \in Words |-> GfMul(a, w)]
<1>1. Total(S, [t \in S |-> m[f[t]]]) = m[Total(S, f)]
  <2>1. m \in Linear
    BY ScalingIsLinear
  <2> HIDE DEF m
  <2> QED
    BY <2>1, TotalMaps
<1>2. [t \in S |-> m[f[t]]] = [t \in S |-> GfMul(a, f[t])]
  OBVIOUS
<1> QED
  BY <1>1, <1>2, TotalIsWord

\* The part of a word that is a digit of so many bits.
Digit(w, bits, part) == { k \in w : k \div bits = part }

LEMMA DigitsAddUp ==
    ASSUME NEW bits \in Kernels, NEW w \in Words
    PROVE  /\ \A part \in Nat :
                { bits * part + k : k \in { j \in 0 .. bits - 1 : bits * part + j \in w } } = Digit(w, bits, part)
           /\ Total(0 .. Width \div bits - 1, [part \in 0 .. Width \div bits - 1 |-> Digit(w, bits, part)]) = w
<1> DEFINE n == Width \div bits
<1>1. bits \in Nat \ {0} /\ Width \in Nat \ {0} /\ n \in Nat /\ Width = bits * n
  BY WidthAssumption, FieldAssumption DEF FieldAssumption
<1>2. w \subseteq 0 .. Width - 1
  BY DEF Words
<1>3. ASSUME NEW part \in Nat
      PROVE  { bits * part + k : k \in { j \in 0 .. bits - 1 : bits * part + j \in w } } = Digit(w, bits, part)
  <2> DEFINE A == { bits * part + k : k \in { j \in 0 .. bits - 1 : bits * part + j \in w } }
  <2>1. ASSUME NEW k \in w, k \div bits = part PROVE k \in A
    <3>1. k \in Nat /\ k = bits * (k \div bits) + (k % bits) /\ k % bits \in 0 .. bits - 1
      BY <1>1, <1>2
    <3>2. k = bits * part + (k % bits)
      BY <2>1, <3>1
    <3> QED
      BY <3>1, <3>2
  <2>2. ASSUME NEW k \in A PROVE k \in w /\ k \div bits = part
    <3>1. PICK j \in 0 .. bits - 1 : k = bits * part + j /\ k \in w
      OBVIOUS
    <3>2. k \in Nat
      BY <1>2, <3>1
    <3> QED
      BY <1>1, <3>1, <3>2, QuotientIs
  <2> HIDE DEF A
  <2>3. A = Digit(w, bits, part)
    BY <2>1, <2>2 DEF Digit
  <2> QED
    BY <2>3 DEF A
<1> DEFINE parts == 0 .. n - 1
           f == [part \in parts |-> Digit(w, bits, part)]
<1>4. ASSUME NEW k \in 0 .. Width - 1 PROVE k \in Total(parts, f) <=> k \in w
  <2>1. k \div bits \in parts
    <3> DEFINE q == k \div bits
    <3>1. q \in Nat /\ bits * q <= k
      BY <1>1
    <3> HIDE DEF q, n
    <3>2. bits * q < bits * n
      BY <1>1, <3>1
    <3>3. q < n
      <4> SUFFICES ASSUME ~(q < n) PROVE FALSE
        OBVIOUS
      <4>1. q - n \in Nat /\ q = n + (q - n)
        BY <1>1, <3>1
      <4>2. bits * q = bits * n + bits * (q - n) /\ bits * (q - n) \in Nat
        BY <1>1, <4>1
      <4>3. bits * n \in Nat /\ bits * q \in Nat
        BY <1>1, <3>1
      <4> QED
        BY <3>2, <4>2, <4>3
    <3> QED
      BY <1>1, <3>1, <3>3 DEF q
  <2>2. \A t \in parts : k \in f[t] <=> k \in w /\ t = k \div bits
    BY DEF Digit
  <2> HIDE DEF parts, f
  <2>3. CASE k \in w
    <3>1. { t \in parts : k \in f[t] } = {k \div bits}
      BY <2>1, <2>2, <2>3
    <3>2. Cardinality({k \div bits}) = 1
      BY FS_Singleton, Zenon
    <3>3. Cardinality({ t \in parts : k \in f[t] }) % 2 = 1
      <4>1. \A c : c = 1 => c % 2 = 1
        OBVIOUS
      <4> QED
        BY <3>1, <3>2, <4>1, Zenon
    <3> QED
      BY <2>3, <3>3, Zenon DEF Total
  <2>4. CASE k \notin w
    <3>1. { t \in parts : k \in f[t] } = {}
      BY <2>2, <2>4
    <3>2. Cardinality({}) = 0
      BY FS_EmptySet
    <3>3. Cardinality({ t \in parts : k \in f[t] }) % 2 # 1
      <4>1. \A c : c = 0 => c % 2 # 1
        OBVIOUS
      <4> QED
        BY <3>1, <3>2, <4>1, Zenon
    <3> QED
      BY <2>4, <3>3, Zenon DEF Total
  <2> QED
    BY <2>3, <2>4
<1>5. Total(parts, f) \subseteq 0 .. Width - 1
  BY DEF Total
<1>6. Total(parts, f) = w
  <2> HIDE DEF parts, f
  <2> QED
    BY <1>2, <1>4, <1>5
<1> QED
  BY <1>3, <1>6

\* Whatever the width of the tables, the product that is put together from them is
\* the product: with SIMD and without. (muladd.go:8-57, gf.go:78-122)
THEOREM TablesMultiply ==
    \A bits \in Kernels : \A factor, w \in Words : Product(factor, bits, w) = GfMul(factor, w)
<1> SUFFICES ASSUME NEW bits \in Kernels, NEW factor \in Words, NEW w \in Words
             PROVE  Product(factor, bits, w) = GfMul(factor, w)
  OBVIOUS
<1> DEFINE parts == 0 .. Width \div bits - 1
           f == [part \in parts |-> Digit(w, bits, part)]
           value(part) == { k \in 0 .. bits - 1 : bits * part + k \in w }
<1>1. \A part \in parts : part \in Nat
  BY WidthAssumption, FieldAssumption DEF FieldAssumption
<1>2. \A part \in parts : MulTable(factor, bits)[<<part, value(part)>>] = GfMul(factor, f[part])
  <2> SUFFICES ASSUME NEW part \in parts PROVE MulTable(factor, bits)[<<part, value(part)>>] = GfMul(factor, f[part])
    OBVIOUS
  <2>1. value(part) \in SUBSET (0 .. bits - 1)
    OBVIOUS
  <2>2. MulTable(factor, bits)[<<part, value(part)>>] = GfMul(factor, { bits * part + k : k \in value(part) })
    <3>1. \A v \in SUBSET (0 .. bits - 1) :
            MulTable(factor, bits)[<<part, v>>] = GfMul(factor, { bits * part + k : k \in v })
      BY DEF MulTable
    <3> QED
      BY <2>1, <3>1, Zenon
  <2>3. { bits * part + k : k \in value(part) } = Digit(w, bits, part)
    BY <1>1, DigitsAddUp
  <2> QED
    BY <2>2, <2>3
<1>3. Product(factor, bits, w) = Total(parts, [part \in parts |-> MulTable(factor, bits)[<<part, value(part)>>]])
  BY DEF Product
<1>4. [part \in parts |-> MulTable(factor, bits)[<<part, value(part)>>]] = [part \in parts |-> GfMul(factor, f[part])]
  BY <1>2
<1>5. IsFiniteSet(parts) /\ \A t \in parts : f[t] \in Words
  <2>1. IsFiniteSet(parts)
    <3>1. Width \div bits - 1 \in Int /\ 0 \in Int
      BY WidthAssumption, FieldAssumption DEF FieldAssumption
    <3> QED
      BY <3>1, FS_Interval
  <2> QED
    BY <2>1 DEF Digit, Words
<1>6. Total(parts, [part \in parts |-> GfMul(factor, f[part])]) = GfMul(factor, Total(parts, f))
  <2> HIDE DEF parts, f
  <2> QED
    BY <1>5, TotalScaled
<1>7. Total(parts, f) = w
  BY DigitsAddUp
<1> QED
  BY <1>3, <1>4, <1>6, <1>7

-----------------------------------------------------------------------------
(* One column of the elimination. *)

Rows(n) == [1 .. n -> Words]
Squares(n) == [1 .. n -> Rows(n)]
Systems(n) == [ok : BOOLEAN, mat : Squares(n), rhs : Rows(n)]

\* What a row of a system makes of the unknowns.
Dot(n, row, x) == Total(1 .. n, [c \in 1 .. n |-> GfMul(row[c], x[c])])
Satisfies(n, mat, rhs, x) == \A r \in 1 .. n : Dot(n, mat[r], x) = rhs[r]
Annuls(n, mat, x) == \A r \in 1 .. n : Dot(n, mat[r], x) = {}

\* A row multiplied, and a row to which a multiple of another is added.
Scaled(n, a, m) == [c \in 1 .. n |-> GfMul(a[c], m)]
Added(n, a, b, m) == [c \in 1 .. n |-> Xor(a[c], GfMul(b[c], m))]

LEMMA DotFacts ==
    ASSUME NEW n \in Nat, NEW a \in Rows(n), NEW b \in Rows(n), NEW x \in Rows(n), NEW m \in Words
    PROVE  /\ Dot(n, a, x) \in Words
           /\ Dot(n, Scaled(n, a, m), x) = GfMul(Dot(n, a, x), m)
           /\ Dot(n, Added(n, a, b, m), x) = Xor(Dot(n, a, x), GfMul(Dot(n, b, x), m))
<1> DEFINE I == 1 .. n
           f == [c \in I |-> GfMul(a[c], x[c])]
           g == [c \in I |-> GfMul(b[c], x[c])]
           scaled(h) == [c \in I |-> GfMul(m, h[c])]
<1>1. IsFiniteSet(I)
  BY FS_Interval
<1>2. \A c \in I : a[c] \in Words /\ b[c] \in Words /\ x[c] \in Words
  BY DEF Rows
<1>3. \A c \in I : f[c] \in Words /\ g[c] \in Words /\ GfMul(m, g[c]) \in Words
  BY <1>2, IsField
<1>4. Dot(n, a, x) = Total(I, f) /\ Dot(n, b, x) = Total(I, g)
  BY DEF Dot
<1>5. Total(I, f) \in Words /\ Total(I, g) \in Words
  BY TotalIsWord
<1>6. \A p, q \in Words : GfMul(GfMul(p, m), q) = GfMul(m, GfMul(p, q))
  <2> SUFFICES ASSUME NEW p \in Words, NEW q \in Words PROVE GfMul(GfMul(p, m), q) = GfMul(m, GfMul(p, q))
    OBVIOUS
  <2>1. GfMul(p, m) = GfMul(m, p)
    BY IsField
  <2> QED
    BY <2>1, IsField
<1>7. Total(I, scaled(f)) = GfMul(m, Total(I, f)) /\ Total(I, scaled(g)) = GfMul(m, Total(I, g))
  <2> HIDE DEF f, g
  <2>1. \A c \in I : f[c] \in Words
    BY <1>3
  <2>2. \A c \in I : g[c] \in Words
    BY <1>3
  <2> HIDE DEF I
  <2>3. Total(I, scaled(f)) = GfMul(m, Total(I, f))
    BY <1>1, <2>1, TotalScaled
  <2>4. Total(I, scaled(g)) = GfMul(m, Total(I, g))
    BY <1>1, <2>2, TotalScaled
  <2> QED
    BY <2>3, <2>4
<1>8. GfMul(m, Total(I, f)) = GfMul(Total(I, f), m) /\ GfMul(m, Total(I, g)) = GfMul(Total(I, g), m)
  BY <1>5, IsField
<1>9. Dot(n, [c \in I |-> GfMul(a[c], m)], x) = GfMul(Dot(n, a, x), m)
  <2> DEFINE h == [c \in I |-> GfMul([d \in I |-> GfMul(a[d], m)][c], x[c])]
  <2>1. Dot(n, [c \in I |-> GfMul(a[c], m)], x) = Total(I, h)
    BY DEF Dot
  <2>2. \A c \in I : h[c] = scaled(f)[c]
    BY <1>2, <1>6
  <2>3. Total(I, h) = Total(I, scaled(f))
    <3> HIDE DEF h, f, I
    <3> QED
      BY <2>2, TotalSame
  <2> QED
    BY <1>4, <1>7, <1>8, <2>1, <2>3
<1>10. Dot(n, [c \in I |-> Xor(a[c], GfMul(b[c], m))], x) = Xor(Dot(n, a, x), GfMul(Dot(n, b, x), m))
  <2> DEFINE h == [c \in I |-> GfMul([d \in I |-> Xor(a[d], GfMul(b[d], m))][c], x[c])]
             k == [c \in I |-> Xor(f[c], scaled(g)[c])]
  <2>1. Dot(n, [c \in I |-> Xor(a[c], GfMul(b[c], m))], x) = Total(I, h)
    BY DEF Dot
  <2>2. \A c \in I : h[c] = k[c]
    <3> SUFFICES ASSUME NEW c \in I PROVE h[c] = k[c]
      OBVIOUS
    <3>1. h[c] = GfMul(Xor(a[c], GfMul(b[c], m)), x[c]) /\ k[c] = Xor(GfMul(a[c], x[c]), GfMul(m, GfMul(b[c], x[c])))
      OBVIOUS
    <3>2. GfMul(b[c], m) \in Words /\ Xor(a[c], GfMul(b[c], m)) \in Words
      BY <1>2, IsField, XorIsWord
    <3>3. GfMul(Xor(a[c], GfMul(b[c], m)), x[c]) = GfMul(x[c], Xor(a[c], GfMul(b[c], m)))
      BY <1>2, <3>2, IsField
    <3>4. GfMul(x[c], Xor(a[c], GfMul(b[c], m))) = Xor(GfMul(x[c], a[c]), GfMul(x[c], GfMul(b[c], m)))
      <4>1. \A u, v, w \in Words : GfMul(u, Xor(v, w)) = Xor(GfMul(u, v), GfMul(u, w))
        BY IsField
      <4> QED
        BY <1>2, <3>2, <4>1
    <3>5. GfMul(x[c], a[c]) = GfMul(a[c], x[c]) /\ GfMul(x[c], GfMul(b[c], m)) = GfMul(GfMul(b[c], m), x[c])
      BY <1>2, <3>2, IsField
    <3>6. GfMul(GfMul(b[c], m), x[c]) = GfMul(m, GfMul(b[c], x[c]))
      BY <1>2, <1>6
    <3> QED
      BY <3>1, <3>3, <3>4, <3>5, <3>6
  <2>3. Total(I, h) = Total(I, k)
    <3> HIDE DEF h, k, I
    <3> QED
      BY <2>2, TotalSame
  <2>4. Total(I, k) = Xor(Total(I, f), Total(I, scaled(g)))
    <3>1. \A c \in I : f[c] \in Words /\ scaled(g)[c] \in Words
      BY <1>3
    <3> DEFINE e == scaled(g)
    <3> HIDE DEF e, f, I
    <3>2. Total(I, [c \in I |-> Xor(f[c], e[c])]) = Xor(Total(I, f), Total(I, e))
      BY <1>1, <3>1, TotalOfXor DEF e
    <3> QED
      BY <3>2 DEF e
  <2> HIDE DEF h, k
  <2> QED
    BY <1>4, <1>7, <1>8, <2>1, <2>3, <2>4
<1> QED
  BY <1>4, <1>5, <1>9, <1>10 DEF Scaled, Added

Partner(i, j, r) == IF r = j THEN i ELSE IF r = i THEN j ELSE r

(***************************************************************************)
(* The system t comes from s by one column: with the rows rearranged to M  *)
(* and R, row col is divided by its entry there and subtracted.            *)
(***************************************************************************)
Eliminates(n, col, p, M, R, inv, s, t) ==
    /\ p \in col .. n /\ M \in Squares(n) /\ R \in Rows(n) /\ inv \in NonZero
    /\ \A r \in 1 .. n : M[r] = s.mat[Partner(col, p, r)] /\ R[r] = s.rhs[Partner(col, p, r)]
    /\ GfMul(M[col][col], inv) = One
    /\ t \in Systems(n) /\ t.ok
    /\ t.mat[col] = [c \in 1 .. n |-> GfMul(M[col][c], inv)] /\ t.rhs[col] = GfMul(R[col], inv)
    /\ \A r \in 1 .. n \ {col} :
        /\ t.mat[r] = [c \in 1 .. n |-> Xor(M[r][c], GfMul(t.mat[col][c], M[r][col]))]
        /\ t.rhs[r] = Xor(R[r], GfMul(t.rhs[col], M[r][col]))

LEMMA ColumnIs ==
    ASSUME NEW n \in Nat, NEW s \in Systems(n), NEW col \in 1 .. n
    PROVE  /\ ~s.ok \/ (\A r \in col .. n : s.mat[r][col] = {}) => Column(s, col) = [s EXCEPT !.ok = FALSE]
           /\ s.ok /\ (\E r \in col .. n : s.mat[r][col] # {}) =>
                \E p, M, R, inv : Eliminates(n, col, p, M, R, inv, s, Column(s, col))
<1> DEFINE I == 1 .. n
           pivots == { r \in col .. Len(s.mat) : s.mat[r][col] # {} }
           p == CHOOSE r \in pivots : \A q \in pivots : r <= q
           M == Swapped(s.mat, col, p)
           R == Swapped(s.rhs, col, p)
           inv == GfDiv(One, M[col][col])
           row == [c \in I |-> GfMul(M[col][c], inv)]
           side == GfMul(R[col], inv)
           mat == [r \in I |-> IF r = col THEN row ELSE [c \in I |-> Xor(M[r][c], GfMul(row[c], M[r][col]))]]
           rhs == [r \in I |-> IF r = col THEN side ELSE Xor(R[r], GfMul(side, M[r][col]))]
           row0 == Tabulated([c \in DOMAIN M |-> GfMul(M[col][c], inv)])
           mat0 == Tabulated([r \in DOMAIN M |->
                        IF r = col THEN row0
                        ELSE Tabulated([c \in DOMAIN M |-> Xor(M[r][c], GfMul(row0[c], M[r][col]))])])
           rhs0 == Tabulated([r \in DOMAIN R |-> IF r = col THEN side ELSE Xor(R[r], GfMul(side, M[r][col]))])
<1>1. s.mat \in Squares(n) /\ s.rhs \in Rows(n) /\ s.ok \in BOOLEAN /\ Len(s.mat) = n
  <2>1. s.mat \in Squares(n) /\ s.rhs \in Rows(n) /\ s.ok \in BOOLEAN
    BY DEF Systems
  <2>2. \A f \in Squares(n) : Len(f) = n
    BY DEF Squares
  <2> QED
    BY <2>1, <2>2
<1>0. Column(s, col) = IF ~s.ok \/ pivots = {} THEN [s EXCEPT !.ok = FALSE]
                       ELSE [ok |-> TRUE, mat |-> mat0, rhs |-> rhs0]
  BY Zenon DEF Column
<1>a. pivots = { r \in col .. n : s.mat[r][col] # {} }
  BY <1>1
<1> HIDE DEF pivots, mat0, rhs0
<1>2. CASE ~s.ok \/ \A r \in col .. n : s.mat[r][col] = {}
  <2>1. Column(s, col) = [s EXCEPT !.ok = FALSE]
    <3>1. ~s.ok \/ pivots = {}
      BY <1>2, <1>a
    <3> QED
      BY <1>0, <3>1
  <2> QED
    BY <1>2, <2>1
<1>3. CASE s.ok /\ \E r \in col .. n : s.mat[r][col] # {}
  <2>1. p \in pivots
    <3>1. pivots # {} /\ pivots \in SUBSET Nat
      BY <1>3, <1>a
    <3>2. \E r \in pivots : \A q \in pivots : r <= q
      BY <3>1, LeastOfNats
    <3> QED
      BY <3>2
  <2> HIDE DEF p
  <2>2. p \in col .. n /\ s.mat[p][col] # {} /\ p \in I /\ col \in I
    BY <1>a, <2>1
  <2>3. /\ M \in Squares(n) /\ R \in Rows(n)
        /\ \A r \in I : M[r] = s.mat[Partner(col, p, r)] /\ R[r] = s.rhs[Partner(col, p, r)]
    <3>1. s.mat \in [I -> Rows(n)] /\ s.rhs \in [I -> Words]
      BY <1>1 DEF Squares, Rows
    <3> HIDE DEF I
    <3>2. /\ M \in [I -> Rows(n)]
          /\ \A r \in I : M[r] = s.mat[Partner(col, p, r)]
      <4>1. \A f \in [I -> Rows(n)] :
              /\ Swapped(f, col, p) \in [I -> Rows(n)]
              /\ \A r \in I : Swapped(f, col, p)[r] = f[Partner(col, p, r)]
        <5> HIDE DEF I
        <5> QED
          BY <2>2 DEF Swapped, Partner
      <4> QED
        BY <3>1, <4>1
    <3>3. /\ R \in [I -> Words]
          /\ \A r \in I : R[r] = s.rhs[Partner(col, p, r)]
      <4>1. \A f \in [I -> Words] :
              /\ Swapped(f, col, p) \in [I -> Words]
              /\ \A r \in I : Swapped(f, col, p)[r] = f[Partner(col, p, r)]
        BY <2>2 DEF Swapped, Partner
      <4> QED
        BY <3>1, <4>1
    <3> HIDE DEF M, R
    <3> QED
      BY <3>2, <3>3 DEF Squares, Rows, I
  <2>4. Column(s, col) = [ok |-> TRUE, mat |-> mat, rhs |-> rhs]
    <3>1. Column(s, col) = [ok |-> TRUE, mat |-> mat0, rhs |-> rhs0]
      <4>1. pivots # {}
        BY <2>1
      <4> QED
        BY <1>0, <1>3, <4>1
    <3>2. DOMAIN M = I /\ DOMAIN R = I
      BY <2>3 DEF Squares, Rows
    <3> HIDE DEF M, R, inv, side
    <3>3. row0 = row
      BY <3>2, TabulatedIsSame
    <3> HIDE DEF row0, row
    <3>4. mat0 = mat
      <4>1. \A r \in I : Tabulated([c \in DOMAIN M |-> Xor(M[r][c], GfMul(row0[c], M[r][col]))])
                          = [c \in I |-> Xor(M[r][c], GfMul(row[c], M[r][col]))]
        BY <3>2, <3>3, TabulatedIsSame
      <4>2. [r \in DOMAIN M |->
              IF r = col THEN row0
              ELSE Tabulated([c \in DOMAIN M |-> Xor(M[r][c], GfMul(row0[c], M[r][col]))])] = mat
        BY <3>2, <3>3, <4>1
      <4> QED
        BY <4>2, TabulatedIsSame DEF mat0
    <3>5. rhs0 = rhs
      BY <3>2, TabulatedIsSame DEF rhs0
    <3> QED
      BY <3>1, <3>4, <3>5
  <2> HIDE DEF M, R
  <2>5. \A r \in I : M[r] \in Rows(n) /\ R[r] \in Words /\ \A c \in I : M[r][c] \in Words
    BY <2>3 DEF Squares, Rows
  <2>6. M[col][col] = s.mat[p][col]
    BY <2>2, <2>3 DEF Partner
  <2>7. inv \in NonZero /\ inv \in Words /\ GfMul(M[col][col], inv) = One
    <3>1. inv \in NonZero /\ GfMul(M[col][col], inv) = One
      BY <2>2, <2>5, <2>6, IsField
    <3> QED
      BY <3>1 DEF NonZero
  <2> HIDE DEF inv
  <2>8. row \in Rows(n) /\ side \in Words
    BY <2>5, <2>7, IsField DEF Rows
  <2>9. mat \in Squares(n) /\ rhs \in Rows(n)
    <3> HIDE DEF row, side
    <3>1. \A r \in I : [c \in I |-> Xor(M[r][c], GfMul(row[c], M[r][col]))] \in Rows(n)
      <4>1. \A r, c \in I : Xor(M[r][c], GfMul(row[c], M[r][col])) \in Words
        <5>1. \A c \in I : row[c] \in Words
          BY <2>8 DEF Rows
        <5>2. \A r, c \in I : GfMul(row[c], M[r][col]) \in Words
          BY <2>5, <5>1, IsField
        <5> QED
          BY <2>5, <5>2, XorIsWord
      <4> QED
        BY <4>1 DEF Rows
    <3>2. \A r \in I : Xor(R[r], GfMul(side, M[r][col])) \in Words
      <4>1. \A r \in I : GfMul(side, M[r][col]) \in Words
        BY <2>5, <2>8, IsField
      <4> QED
        BY <2>5, <4>1, XorIsWord
    <3>3. mat \in Squares(n)
      BY <2>8, <3>1 DEF Squares
    <3>4. rhs \in Rows(n)
      BY <2>8, <3>2 DEF Rows
    <3> QED
      BY <3>3, <3>4
  <2>10. /\ mat[col] = row /\ rhs[col] = side
         /\ \A r \in I \ {col} : /\ mat[r] = [c \in I |-> Xor(M[r][c], GfMul(row[c], M[r][col]))]
                                 /\ rhs[r] = Xor(R[r], GfMul(side, M[r][col]))
    <3> HIDE DEF row, side
    <3> QED
      OBVIOUS
  <2> DEFINE t == [ok |-> TRUE, mat |-> mat, rhs |-> rhs]
  <2>11. t \in Systems(n) /\ t.ok = TRUE /\ t.mat = mat /\ t.rhs = rhs
    <3> HIDE DEF mat, rhs
    <3> QED
      BY <2>9 DEF Systems
  <2> HIDE DEF mat, rhs, t
  <2>12. Eliminates(n, col, p, M, R, inv, s, t)
    <3>1. \A r \in I \ {col} :
            /\ t.mat[r] = [c \in I |-> Xor(M[r][c], GfMul(t.mat[col][c], M[r][col]))]
            /\ t.rhs[r] = Xor(R[r], GfMul(t.rhs[col], M[r][col]))
      <4> HIDE DEF row, side
      <4> QED
        BY <2>10, <2>11
    <3>2. t.mat[col] = [c \in I |-> GfMul(M[col][c], inv)] /\ t.rhs[col] = GfMul(R[col], inv)
      BY <2>10, <2>11
    <3> QED
      BY <2>2, <2>3, <2>7, <2>11, <3>1, <3>2 DEF Eliminates
  <2>13. Column(s, col) = t
    BY <2>4 DEF t
  <2> QED
    BY <1>3, <2>12, <2>13
<1> QED
  BY <1>1, <1>2, <1>3

\* A column changes what the rows make of any unknowns as it changes the right-hand side.
DotsFollow(n, col, M, inv, t, x) ==
    /\ \A r \in 1 .. n : Dot(n, M[r], x) \in Words
    /\ Dot(n, t.mat[col], x) = GfMul(Dot(n, M[col], x), inv)
    /\ \A r \in 1 .. n \ {col} :
        Dot(n, t.mat[r], x) = Xor(Dot(n, M[r], x), GfMul(Dot(n, t.mat[col], x), M[r][col]))

LEMMA EliminatesDots ==
    ASSUME NEW n \in Nat, NEW col \in 1 .. n, NEW p, NEW M, NEW R, NEW inv, NEW s \in Systems(n), NEW t,
           Eliminates(n, col, p, M, R, inv, s, t), NEW x \in Rows(n)
    PROVE  DotsFollow(n, col, M, inv, t, x)
<1>1. /\ \A r \in 1 .. n : M[r] \in Rows(n) /\ M[r][col] \in Words
      /\ inv \in Words /\ t.mat[col] \in Rows(n)
  <2>1. M \in Squares(n) /\ inv \in NonZero /\ t \in Systems(n)
    BY DEF Eliminates
  <2> QED
    BY <2>1 DEF Squares, Rows, NonZero, Systems
<1>2. /\ t.mat[col] = [c \in 1 .. n |-> GfMul(M[col][c], inv)]
      /\ \A r \in 1 .. n \ {col} : t.mat[r] = [c \in 1 .. n |-> Xor(M[r][c], GfMul(t.mat[col][c], M[r][col]))]
  BY DEF Eliminates
<1>3. Dot(n, t.mat[col], x) = GfMul(Dot(n, M[col], x), inv)
  <2> DEFINE a == M[col]
  <2>1. a \in Rows(n)
    BY <1>1
  <2>2. t.mat[col] = Scaled(n, a, inv)
    BY <1>2 DEF Scaled
  <2> HIDE DEF a
  <2>3. Dot(n, Scaled(n, a, inv), x) = GfMul(Dot(n, a, x), inv)
    BY <1>1, <2>1, DotFacts
  <2> QED
    BY <2>2, <2>3 DEF a
<1>4. ASSUME NEW r \in 1 .. n \ {col}
      PROVE  Dot(n, t.mat[r], x) = Xor(Dot(n, M[r], x), GfMul(Dot(n, t.mat[col], x), M[r][col]))
  <2> DEFINE a == M[r]
             b == t.mat[col]
             m == M[r][col]
  <2>1. a \in Rows(n) /\ b \in Rows(n) /\ m \in Words
    BY <1>1
  <2>2. t.mat[r] = Added(n, a, b, m)
    BY <1>2 DEF Added
  <2> HIDE DEF a, b, m
  <2>3. Dot(n, Added(n, a, b, m), x) = Xor(Dot(n, a, x), GfMul(Dot(n, b, x), m))
    BY <2>1, DotFacts
  <2> QED
    BY <2>2, <2>3 DEF a, b, m
<1>5. \A r \in 1 .. n : Dot(n, M[r], x) \in Words
  BY <1>1, DotFacts
<1> QED
  BY <1>3, <1>4, <1>5 DEF DotsFollow

\* Nothing that satisfies the system is lost, and nothing new annuls its matrix.
LEMMA EliminatesKeeps ==
    ASSUME NEW n \in Nat, NEW col \in 1 .. n, NEW p, NEW M, NEW R, NEW inv, NEW s \in Systems(n), NEW t,
           Eliminates(n, col, p, M, R, inv, s, t), NEW x \in Rows(n)
    PROVE  /\ Satisfies(n, s.mat, s.rhs, x) => Satisfies(n, t.mat, t.rhs, x)
           /\ Annuls(n, t.mat, x) => Annuls(n, s.mat, x)
<1>1. /\ p \in col .. n /\ inv \in Words /\ inv # {}
      /\ \A r \in 1 .. n : M[r] = s.mat[Partner(col, p, r)] /\ R[r] = s.rhs[Partner(col, p, r)]
      /\ t.rhs[col] = GfMul(R[col], inv)
      /\ \A r \in 1 .. n \ {col} : t.rhs[r] = Xor(R[r], GfMul(t.rhs[col], M[r][col]))
  BY DEF Eliminates, NonZero
<1>2. /\ \A r \in 1 .. n : Dot(n, M[r], x) \in Words
      /\ Dot(n, t.mat[col], x) = GfMul(Dot(n, M[col], x), inv)
      /\ \A r \in 1 .. n \ {col} :
            Dot(n, t.mat[r], x) = Xor(Dot(n, M[r], x), GfMul(Dot(n, t.mat[col], x), M[r][col]))
  <2>1. DotsFollow(n, col, M, inv, t, x)
    BY EliminatesDots
  <2> QED
    BY <2>1 DEF DotsFollow
<1>3. \A r \in 1 .. n : Partner(col, p, r) \in 1 .. n /\ Partner(col, p, Partner(col, p, r)) = r
  BY <1>1 DEF Partner
<1>4. ASSUME Satisfies(n, s.mat, s.rhs, x) PROVE Satisfies(n, t.mat, t.rhs, x)
  <2>1. \A r \in 1 .. n : Dot(n, M[r], x) = R[r]
    BY <1>1, <1>3, <1>4 DEF Satisfies
  <2>2. Dot(n, t.mat[col], x) = t.rhs[col]
    BY <1>1, <1>2, <2>1
  <2>3. \A r \in 1 .. n \ {col} : Dot(n, t.mat[r], x) = t.rhs[r]
    BY <1>1, <1>2, <2>1, <2>2
  <2> QED
    BY <2>2, <2>3 DEF Satisfies
<1>5. ASSUME Annuls(n, t.mat, x) PROVE Annuls(n, s.mat, x)
  <2>1. Dot(n, t.mat[col], x) = {}
    BY <1>5 DEF Annuls
  <2>2. Dot(n, M[col], x) = {}
    <3>1. Dot(n, M[col], x) \in Words /\ GfMul(Dot(n, M[col], x), inv) = {}
      BY <1>2, <2>1
    <3> QED
      BY <1>1, <3>1, IsField
  <2>3. ASSUME NEW r \in 1 .. n \ {col} PROVE Dot(n, M[r], x) = {}
    <3>1. Dot(n, t.mat[r], x) = {}
      BY <1>5 DEF Annuls
    <3>2. GfMul({}, M[r][col]) = {}
      BY DEF GfMul
    <3>3. Xor(Dot(n, M[r], x), {}) = {}
      BY <1>2, <2>1, <3>1, <3>2
    <3> QED
      BY <3>3, XorFacts
  <2>4. \A r \in 1 .. n : Dot(n, M[r], x) = {}
    BY <2>2, <2>3
  <2> QED
    BY <1>1, <1>3, <2>4 DEF Annuls
<1> QED
  BY <1>4, <1>5

(***************************************************************************)
(* After k columns, the first k are those of the identity; what satisfies  *)
(* the system still does.  If a column had no entry left that is not zero, *)
(* there are unknowns, not all zero, of which the matrix makes nothing.    *)
(***************************************************************************)
Diagonal(n, k, mat) == \A r \in 1 .. n : \A c \in 1 .. k : mat[r][c] = IF r = c THEN One ELSE {}
Dependent(n, mat) == \E x \in Rows(n) : Annuls(n, mat, x) /\ \E c \in 1 .. n : x[c] # {}
Done(n, mat, rhs, k, s) ==
    /\ s \in Systems(n)
    /\ ~s.ok => Dependent(n, mat)
    /\ s.ok => /\ Diagonal(n, k, s.mat)
               /\ \A x \in Rows(n) : /\ Satisfies(n, mat, rhs, x) => Satisfies(n, s.mat, s.rhs, x)
                                     /\ Annuls(n, s.mat, x) => Annuls(n, mat, x)

LEMMA EliminatesDiagonal ==
    ASSUME NEW n \in Nat, NEW col \in 1 .. n, NEW p, NEW M, NEW R, NEW inv, NEW s \in Systems(n), NEW t,
           Eliminates(n, col, p, M, R, inv, s, t), Diagonal(n, col - 1, s.mat)
    PROVE  Diagonal(n, col, t.mat)
<1>1. /\ p \in col .. n /\ M \in Squares(n) /\ inv \in Words
      /\ \A r \in 1 .. n : M[r] = s.mat[Partner(col, p, r)]
      /\ GfMul(M[col][col], inv) = One
      /\ t.mat[col] = [c \in 1 .. n |-> GfMul(M[col][c], inv)]
      /\ \A r \in 1 .. n \ {col} : t.mat[r] = [c \in 1 .. n |-> Xor(M[r][c], GfMul(t.mat[col][c], M[r][col]))]
  BY DEF Eliminates, NonZero
<1>2. \A w : GfMul({}, w) = {}
  BY DEF GfMul
<1>3. \A r, c \in 1 .. n : M[r][c] \in Words
  BY <1>1 DEF Squares, Rows
<1>4. ASSUME NEW c \in 1 .. n, c < col PROVE \A r \in 1 .. n : t.mat[r][c] = IF r = c THEN One ELSE {}
  <2>1. c \in 1 .. col - 1
    BY <1>4
  <2>2. \A r \in 1 .. n : M[r][c] = IF r = c THEN One ELSE {}
    <3> SUFFICES ASSUME NEW r \in 1 .. n PROVE M[r][c] = IF r = c THEN One ELSE {}
      OBVIOUS
    <3>1. Partner(col, p, r) \in 1 .. n /\ (Partner(col, p, r) = c <=> r = c)
      BY <1>1, <1>4 DEF Partner
    <3>2. s.mat[Partner(col, p, r)][c] = IF Partner(col, p, r) = c THEN One ELSE {}
      BY <2>1, <3>1 DEF Diagonal
    <3> QED
      BY <1>1, <3>1, <3>2
  <2>3. M[col][c] = {} /\ col # c
    BY <1>4, <2>2
  <2>4. t.mat[col][c] = {}
    BY <1>1, <1>2, <2>3
  <2>5. \A r \in 1 .. n \ {col} : t.mat[r][c] = M[r][c]
    <3> TAKE r \in 1 .. n \ {col}
    <3>1. t.mat[r] = [d \in 1 .. n |-> Xor(M[r][d], GfMul(t.mat[col][d], M[r][col]))]
      BY <1>1
    <3>2. t.mat[r][c] = Xor(M[r][c], GfMul(t.mat[col][c], M[r][col]))
      BY <3>1
    <3>3. GfMul(t.mat[col][c], M[r][col]) = {}
      BY <1>2, <2>4
    <3>4. Xor(M[r][c], {}) = M[r][c]
      BY XorFacts
    <3> QED
      BY <3>2, <3>3, <3>4
  <2> QED
    BY <2>2, <2>3, <2>4, <2>5
<1>5. t.mat[col][col] = One
  BY <1>1
<1>6. ASSUME NEW r \in 1 .. n \ {col} PROVE t.mat[r][col] = {}
  <2>0. t.mat[r] = [d \in 1 .. n |-> Xor(M[r][d], GfMul(t.mat[col][d], M[r][col]))]
    BY <1>1
  <2>1. t.mat[r][col] = Xor(M[r][col], GfMul(t.mat[col][col], M[r][col]))
    BY <2>0
  <2>2. GfMul(One, M[r][col]) = M[r][col]
    BY <1>3, IsField
  <2> QED
    BY <1>5, <2>1, <2>2, XorFacts
<1>7. \A c \in 1 .. col : c \in 1 .. n /\ (c < col \/ c = col)
  OBVIOUS
<1>8. ASSUME NEW r \in 1 .. n, NEW c \in 1 .. col
      PROVE  t.mat[r][c] = IF r = c THEN One ELSE {}
  <2>1. CASE c < col
    BY <1>4, <1>7, <2>1
  <2>2. CASE c = col
    BY <1>5, <1>6, <2>2
  <2> QED
    BY <1>7, <2>1, <2>2
<1> QED
  BY <1>8 DEF Diagonal

\* A column with no entry left on or below the diagonal depends on those before it.
LEMMA NoPivotDependent ==
    ASSUME NEW n \in Nat, NEW col \in 1 .. n, NEW mat \in Squares(n), Diagonal(n, col - 1, mat),
           \A r \in col .. n : mat[r][col] = {}
    PROVE  Dependent(n, mat)
<1> DEFINE x == [c \in 1 .. n |-> IF c < col THEN mat[c][col] ELSE IF c = col THEN One ELSE {}]
<1>1. One \in Words /\ One # {} /\ {} \in Words /\ \A r, c \in 1 .. n : mat[r][c] \in Words
  BY LimitFacts DEF Squares, Rows, NonZero
<1>2. x \in Rows(n)
  BY <1>1 DEF Rows
<1>3. ASSUME NEW r \in 1 .. n PROVE Dot(n, mat[r], x) = {}
  <2> DEFINE I == 1 .. n
             f == [c \in I |-> GfMul(mat[r][c], x[c])]
  <2>1. Dot(n, mat[r], x) = Total(I, f)
    BY DEF Dot
  <2>2. IsFiniteSet(I) /\ \A c \in I : f[c] \in Words
    <3>1. \A c \in I : x[c] \in Words
      BY <1>2 DEF Rows
    <3>2. IsFiniteSet(I)
      BY FS_Interval
    <3>3. \A c \in I : f[c] \in Words
      <4> HIDE DEF x
      <4> QED
        BY <1>1, <3>1, IsField
    <3> QED
      BY <3>2, <3>3
  <2>3. \A w : GfMul(w, {}) = {} /\ GfMul({}, w) = {}
    BY DEF GfMul
  <2>4. \A c \in I : c < col /\ c # r => f[c] = {}
    BY <2>3 DEF Diagonal
  <2>5. \A c \in I : c > col => f[c] = {}
    BY <2>3
  <2>6. CASE r < col
    <3>1. f[r] = mat[r][col]
      <4>1. mat[r][r] = One /\ x[r] = mat[r][col]
        BY <2>6 DEF Diagonal
      <4>2. GfMul(One, mat[r][col]) = mat[r][col]
        BY <1>1, IsField
      <4> QED
        BY <4>1, <4>2
    <3>2. f[col] = mat[r][col]
      <4>1. GfMul(mat[r][col], One) = GfMul(One, mat[r][col]) /\ GfMul(One, mat[r][col]) = mat[r][col]
        BY <1>1, IsField
      <4>2. x[col] = One
        OBVIOUS
      <4> QED
        BY <4>1, <4>2
    <3>3. \A c \in I : c # r /\ c # col => f[c] = {}
      BY <2>4, <2>5
    <3> DEFINE J == I \ {col}
    <3>4. IsFiniteSet(J) /\ r \in J /\ IsFiniteSet({col}) /\ J \subseteq I /\ I \ J = {col} /\ r \in I /\ col \in I
      BY <2>2, <2>6, FS_Subset, FS_Singleton
    <3> HIDE DEF f, I, J
    <3>5. Total(J, f) = f[r]
      <4>1. \A t \in J : t # r => f[t] = {}
        BY <3>3, <3>4 DEF J
      <4> QED
        BY <2>2, <3>4, <4>1, TotalOfOne
    <3>6. Total({col}, f) = f[col]
      BY <2>2, <3>4, TotalOfOne
    <3>7. Total(I, f) = Xor(Total(J, f), Total(I \ J, f))
      <4>1. J \in SUBSET I
        BY <3>4
      <4> QED
        BY <2>2, <4>1, TotalOfParts, Zenon
    <3>8. Xor(mat[r][col], mat[r][col]) = {}
      BY XorFacts
    <3> QED
      BY <2>1, <3>1, <3>2, <3>4, <3>5, <3>6, <3>7, <3>8
  <2>7. CASE r >= col
    <3>1. mat[r][col] = {}
      BY <2>7
    <3>2. \A c \in I : c = col => f[c] = {}
      BY <2>3, <3>1
    <3>3. \A c \in I : c < col => f[c] = {}
      BY <2>4, <2>7
    <3>4. \A c \in I : f[c] = {}
      BY <2>5, <3>2, <3>3
    <3> HIDE DEF f, I
    <3> QED
      BY <2>1, <3>4, TotalOfZeros
  <2> QED
    BY <2>6, <2>7
<1>4. x[col] # {}
  BY <1>1
<1> HIDE DEF x
<1> QED
  BY <1>2, <1>3, <1>4 DEF Dependent, Annuls

LEMMA ColumnDone ==
    ASSUME NEW n \in Nat, NEW mat \in Squares(n), NEW rhs \in Rows(n), NEW col \in 1 .. n, NEW s,
           Done(n, mat, rhs, col - 1, s)
    PROVE  Done(n, mat, rhs, col, Column(s, col))
<1>1. s \in Systems(n)
  BY DEF Done
<1>2. s.ok \in BOOLEAN /\ s.mat \in Squares(n) /\ [s EXCEPT !.ok = FALSE] \in Systems(n) /\ ~[s EXCEPT !.ok = FALSE].ok
  BY <1>1 DEF Systems
<1>3. CASE ~s.ok
  <2>1. Column(s, col) = [s EXCEPT !.ok = FALSE]
    BY <1>1, <1>3, ColumnIs
  <2> QED
    BY <1>2, <1>3, <2>1 DEF Done
<1>4. CASE s.ok /\ \A r \in col .. n : s.mat[r][col] = {}
  <2>1. Column(s, col) = [s EXCEPT !.ok = FALSE]
    BY <1>1, <1>4, ColumnIs
  <2>2. Dependent(n, s.mat)
    BY <1>2, <1>4, NoPivotDependent DEF Done
  <2>3. Dependent(n, mat)
    BY <1>4, <2>2 DEF Done, Dependent
  <2> QED
    BY <1>2, <2>1, <2>3 DEF Done
<1>5. CASE s.ok /\ \E r \in col .. n : s.mat[r][col] # {}
  <2> DEFINE t == Column(s, col)
  <2>1. PICK p, M, R, inv : Eliminates(n, col, p, M, R, inv, s, t)
    BY <1>1, <1>5, ColumnIs
  <2> HIDE DEF t
  <2>2. t \in Systems(n) /\ t.ok
    BY <2>1 DEF Eliminates
  <2>3. Diagonal(n, col, t.mat)
    BY <1>1, <1>5, <2>1, EliminatesDiagonal DEF Done
  <2>4. \A x \in Rows(n) : /\ Satisfies(n, s.mat, s.rhs, x) => Satisfies(n, t.mat, t.rhs, x)
                           /\ Annuls(n, t.mat, x) => Annuls(n, s.mat, x)
    BY <1>1, <2>1, EliminatesKeeps
  <2>5. \A x \in Rows(n) : /\ Satisfies(n, mat, rhs, x) => Satisfies(n, s.mat, s.rhs, x)
                           /\ Annuls(n, s.mat, x) => Annuls(n, mat, x)
    BY <1>5 DEF Done
  <2>6. Done(n, mat, rhs, col, t)
    BY <2>2, <2>3, <2>4, <2>5 DEF Done
  <2> QED
    BY <2>6 DEF t
<1> QED
  BY <1>2, <1>3, <1>4, <1>5

\* The identity leaves the right-hand side as the only answer.
LEMMA DiagonalAnswers ==
    ASSUME NEW n \in Nat, NEW mat \in Squares(n), NEW rhs \in Rows(n), Diagonal(n, n, mat),
           NEW x \in Rows(n), Satisfies(n, mat, rhs, x)
    PROVE  \A r \in 1 .. n : rhs[r] = x[r]
<1> SUFFICES ASSUME NEW r \in 1 .. n PROVE rhs[r] = x[r]
  OBVIOUS
<1> DEFINE I == 1 .. n
           f == [c \in I |-> GfMul(mat[r][c], x[c])]
<1>1. rhs[r] = Total(I, f)
  BY DEF Satisfies, Dot
<1>2. \A c \in I : x[c] \in Words
  BY DEF Rows
<1>3. f[r] = x[r]
  <2>1. mat[r][r] = One
    BY DEF Diagonal
  <2> QED
    BY <1>2, <2>1, IsField
<1>4. \A c \in I : c # r => f[c] = {}
  <2>1. \A w : GfMul({}, w) = {}
    BY DEF GfMul
  <2> QED
    BY <2>1 DEF Diagonal
<1>5. IsFiniteSet(I) /\ r \in I
  BY FS_Interval
<1> HIDE DEF f, I
<1>6. Total(I, f) = f[r]
  BY <1>2, <1>3, <1>4, <1>5, TotalOfOne
<1> QED
  BY <1>1, <1>3, <1>6

LEMMA ColumnIsSystem ==
    ASSUME NEW n \in Nat, NEW s \in Systems(n), NEW col \in 1 .. n
    PROVE  Column(s, col) \in Systems(n)
<1>1. s.ok \in BOOLEAN /\ [s EXCEPT !.ok = FALSE] \in Systems(n)
  BY DEF Systems
<1>2. CASE ~s.ok \/ \A r \in col .. n : s.mat[r][col] = {}
  BY <1>1, <1>2, ColumnIs
<1>3. CASE s.ok /\ \E r \in col .. n : s.mat[r][col] # {}
  <2> DEFINE t == Column(s, col)
  <2>1. PICK p, M, R, inv : Eliminates(n, col, p, M, R, inv, s, t)
    BY <1>3, ColumnIs
  <2> HIDE DEF t
  <2>2. t \in Systems(n)
    BY <2>1 DEF Eliminates
  <2> QED
    BY <2>2 DEF t
<1> QED
  BY <1>1, <1>2, <1>3

\* The elimination goes through the columns one after the other.
LEMMA SolveSteps ==
    ASSUME NEW n \in Nat, NEW mat \in Squares(n), NEW rhs \in Rows(n)
    PROVE  \E after : /\ after[0] = [ok |-> TRUE, mat |-> mat, rhs |-> rhs]
                      /\ \A k \in 1 .. n : after[k] = Column(after[k - 1], k)
                      /\ Solve(mat, rhs) = [ok |-> after[n].ok, rhs |-> after[n].rhs]
<1> DEFINE b == [ok |-> TRUE, mat |-> mat, rhs |-> rhs]
           S == Systems(n)
           Step(k, s) == IF k \in 1 .. n THEN Column(s, k) ELSE s
           F == [p \in Nat \X S |-> Step(p[1], p[2])]
           start == [ok |-> TRUE,
                     mat |-> Tabulated([r \in DOMAIN mat |-> Tabulated(mat[r])]),
                     rhs |-> Tabulated(rhs)]
           Eq(f) == f = [col \in 0 .. Len(mat) |-> IF col = 0 THEN start ELSE Column(f[col - 1], col)]
           after == CHOOSE f : Eq(f)
           end == after[Len(mat)]
<1>1. Solve(mat, rhs) = [ok |-> end.ok, rhs |-> end.rhs]
  BY Zenon DEF Solve
<1>2. Len(mat) = n /\ mat = [r \in DOMAIN mat |-> mat[r]]
  <2>1. \A f \in Squares(n) : Len(f) = n /\ f = [r \in DOMAIN f |-> f[r]]
    BY DEF Squares
  <2> QED
    BY <2>1
<1>3. start = b
  <2>1. [r \in DOMAIN mat |-> Tabulated(mat[r])] = [r \in DOMAIN mat |-> mat[r]]
    BY TabulatedIsSame
  <2>2. Tabulated([r \in DOMAIN mat |-> Tabulated(mat[r])]) = mat
    BY <1>2, <2>1, TabulatedIsSame, Zenon
  <2> QED
    BY <2>2, TabulatedIsSame, Zenon
<1> HIDE DEF start
<1>4. b \in S
  BY DEF Systems
<1> HIDE DEF b
<1>5. F \in [Nat \X S -> S]
  <2>1. \A p \in Nat \X S : Step(p[1], p[2]) \in S
    <3> SUFFICES ASSUME NEW k \in Nat, NEW s \in S PROVE Step(k, s) \in S
      OBVIOUS
    <3> QED
      BY ColumnIsSystem
  <2> HIDE DEF Step, S
  <2> QED
    BY <2>1
<1>6. PICK h \in Iterates(S, b, F, n) : TRUE
  <2> HIDE DEF S, F
  <2>1. Iterates(S, b, F, n) # {}
    BY <1>4, <1>5, IteratesExist
  <2> QED
    BY <2>1
<1>7. /\ h \in [0 .. n -> S] /\ h[0] = b
      /\ \A k \in 1 .. n : h[k] = Column(h[k - 1], k)
  <2>1. h \in [0 .. n -> S] /\ h[0] = b /\ \A k \in 1 .. n : h[k] = F[<<k, h[k - 1]>>]
    <3> HIDE DEF S, F
    <3> QED
      BY <1>6 DEF Iterates
  <2>2. ASSUME NEW k \in 1 .. n PROVE h[k] = Column(h[k - 1], k)
    <3>1. h[k - 1] \in S /\ k \in Nat
      <4>1. k - 1 \in 0 .. n
        OBVIOUS
      <4> HIDE DEF S
      <4> QED
        BY <2>1, <4>1
    <3>2. F[<<k, h[k - 1]>>] = Step(k, h[k - 1])
      <4> HIDE DEF S, Step
      <4> QED
        BY <3>1
    <3> QED
      BY <2>1, <3>2
  <2> QED
    BY <2>1, <2>2
<1>8. Eq(h)
  <2>1. h = [k \in 0 .. n |-> h[k]]
    <3> HIDE DEF S
    <3> QED
      BY <1>7
  <2>2. \A k \in 0 .. n : h[k] = IF k = 0 THEN start ELSE Column(h[k - 1], k)
    <3>1. \A k \in 0 .. n : k = 0 \/ k \in 1 .. n
      OBVIOUS
    <3>2. \A k \in 1 .. n : k # 0
      OBVIOUS
    <3> QED
      BY <1>3, <1>7, <3>1, <3>2, Zenon
  <2>3. h = [k \in 0 .. n |-> IF k = 0 THEN start ELSE Column(h[k - 1], k)]
    <3> DEFINE g == [k \in 0 .. n |-> h[k]]
    <3>1. g = [k \in 0 .. n |-> IF k = 0 THEN start ELSE Column(h[k - 1], k)]
      BY <2>2
    <3> QED
      BY <2>1, <3>1
  <2> QED
    BY <1>2, <2>3
<1>9. Eq(after)
  <2> HIDE DEF Eq
  <2> QED
    BY <1>8
<1>10. after[0] = b /\ \A k \in 1 .. n : after[k] = Column(after[k - 1], k)
  <2>1. after = [k \in 0 .. n |-> IF k = 0 THEN start ELSE Column(after[k - 1], k)]
    BY <1>2, <1>9
  <2> HIDE DEF Eq, after
  <2>2. ASSUME NEW k \in 0 .. n PROVE after[k] = IF k = 0 THEN start ELSE Column(after[k - 1], k)
    BY <2>1
  <2>3. 0 \in 0 .. n /\ \A k \in 1 .. n : k \in 0 .. n /\ k # 0
    OBVIOUS
  <2> QED
    BY <1>3, <2>2, <2>3
<1> HIDE DEF Eq, after
<1> QED
  BY <1>1, <1>2, <1>10 DEF b

(***************************************************************************)
(* If the elimination goes through, it finds the only unknowns that        *)
(* satisfy the system, if any do; else the matrix makes nothing of unknowns *)
(* that are not all zero.                                                  *)
(***************************************************************************)
THEOREM SolveIsRight ==
    \A n \in Nat : \A mat \in Squares(n), rhs \in Rows(n) :
        /\ Solve(mat, rhs).ok \in BOOLEAN
        /\ Solve(mat, rhs).ok => \A x \in Rows(n) :
                Satisfies(n, mat, rhs, x) => \A r \in 1 .. n : Solve(mat, rhs).rhs[r] = x[r]
        /\ ~Solve(mat, rhs).ok => Dependent(n, mat)
<1> SUFFICES ASSUME NEW n \in Nat, NEW mat \in Squares(n), NEW rhs \in Rows(n)
             PROVE  /\ Solve(mat, rhs).ok \in BOOLEAN
                    /\ Solve(mat, rhs).ok => \A x \in Rows(n) :
                            Satisfies(n, mat, rhs, x) => \A r \in 1 .. n : Solve(mat, rhs).rhs[r] = x[r]
                    /\ ~Solve(mat, rhs).ok => Dependent(n, mat)
  OBVIOUS
<1>1. PICK after : /\ after[0] = [ok |-> TRUE, mat |-> mat, rhs |-> rhs]
                   /\ \A k \in 1 .. n : after[k] = Column(after[k - 1], k)
                   /\ Solve(mat, rhs) = [ok |-> after[n].ok, rhs |-> after[n].rhs]
  BY SolveSteps
<1> DEFINE Right(k) == Done(n, mat, rhs, k, after[k])
           P == [k \in 0 .. n |-> Right(k)]
<1>2. Right(0)
  <2>1. [ok |-> TRUE, mat |-> mat, rhs |-> rhs] \in Systems(n)
    BY DEF Systems
  <2>2. Diagonal(n, 0, mat)
    BY DEF Diagonal
  <2> QED
    BY <1>1, <2>1, <2>2 DEF Done
<1>3. ASSUME NEW k \in 1 .. n, Right(k - 1) PROVE Right(k)
  <2>1. Done(n, mat, rhs, k, Column(after[k - 1], k))
    BY <1>3, ColumnDone
  <2> QED
    BY <1>1, <2>1
<1>4. Right(n)
  <2>1. P[0] = TRUE /\ \A k \in 1 .. n : P[k - 1] = TRUE => P[k] = TRUE
    <3>1. \A k \in 1 .. n : k \in 0 .. n /\ k - 1 \in 0 .. n
      OBVIOUS
    <3>2. 0 \in 0 .. n
      OBVIOUS
    <3> HIDE DEF Right
    <3> QED
      BY <1>2, <1>3, <3>1, <3>2
  <2> HIDE DEF P
  <2>2. \A k \in 0 .. n : P[k] \in {TRUE}
    <3> DEFINE S == {TRUE}
    <3>1. P[0] \in S
      BY <2>1
    <3>2. \A k \in 1 .. n : P[k - 1] \in S => P[k] \in S
      BY <2>1
    <3> HIDE DEF S
    <3>3. \A k \in 0 .. n : P[k] \in S
      BY <3>1, <3>2, StaysIn
    <3> QED
      BY <3>3 DEF S
  <2>3. n \in 0 .. n
    OBVIOUS
  <2>4. P[n] = TRUE
    BY <2>2, <2>3
  <2> HIDE DEF Right
  <2> QED
    BY <2>3, <2>4 DEF P
<1> DEFINE s == after[n]
<1>5. s \in Systems(n) /\ s.ok \in BOOLEAN /\ s.mat \in Squares(n) /\ s.rhs \in Rows(n)
  BY <1>4 DEF Done, Systems
<1>6. Solve(mat, rhs).ok = s.ok /\ Solve(mat, rhs).rhs = s.rhs
  BY <1>1
<1>7. ASSUME s.ok, NEW x \in Rows(n), Satisfies(n, mat, rhs, x)
      PROVE  \A r \in 1 .. n : s.rhs[r] = x[r]
  <2>1. Diagonal(n, n, s.mat) /\ Satisfies(n, s.mat, s.rhs, x)
    BY <1>4, <1>7 DEF Done
  <2> HIDE DEF s
  <2> QED
    BY <1>5, <2>1, DiagonalAnswers
<1>8. ~s.ok => Dependent(n, mat)
  BY <1>4 DEF Done
<1> HIDE DEF s
<1> QED
  BY <1>5, <1>6, <1>7, <1>8

LEMMA PowAdds ==
    ASSUME NEW a \in NonZero, NEW e \in Nat
    PROVE  \A j \in Nat : GfPow(a, e + j) = GfMul(GfPow(a, j), GfPow(a, e))
<1> DEFINE P == { j \in Nat : GfPow(a, e + j) = GfMul(GfPow(a, j), GfPow(a, e)) }
<1>1. /\ \A k \in Nat : GfPow(a, k) \in Words /\ GfPow(a, k + 1) = GfMul(a, GfPow(a, k))
      /\ GfPow(a, 0) = One /\ a \in Words
  BY PowFacts DEF NonZero
<1>2. 0 \in P
  <2>1. GfMul(One, GfPow(a, e)) = GfPow(a, e)
    BY <1>1, IsField
  <2> QED
    BY <1>1, <2>1
<1>3. ASSUME NEW j \in Nat, j \in P PROVE j + 1 \in P
  <2>1. e + j \in Nat /\ e + (j + 1) = (e + j) + 1 /\ j + 1 \in Nat
    OBVIOUS
  <2>2. GfPow(a, (e + j) + 1) = GfMul(a, GfPow(a, e + j))
    BY <1>1, <2>1
  <2>3. GfPow(a, e + j) = GfMul(GfPow(a, j), GfPow(a, e))
    BY <1>3
  <2>4. GfMul(a, GfMul(GfPow(a, j), GfPow(a, e))) = GfMul(GfMul(a, GfPow(a, j)), GfPow(a, e))
    BY <1>1, IsField
  <2>5. GfMul(a, GfPow(a, j)) = GfPow(a, j + 1)
    BY <1>1
  <2> QED
    BY <2>1, <2>2, <2>3, <2>4, <2>5
<1> HIDE DEF P
<1>4. Nat \subseteq P
  BY <1>2, <1>3, NatSetInduction
<1> QED
  BY <1>4 DEF P

-----------------------------------------------------------------------------
(* Equations in the powers of different constants. *)

\* What the powers of the constants a[t] make of the unknowns y[t].
Moment(T, a, y, e) == Total(T, [t \in T |-> GfMul(GfPow(a[t], e), y[t])])

\* Each unknown multiplied by the difference between its constant and that of d.
Less(S, a, d, y) == [t \in S |-> GfMul(Xor(a[t], a[d]), y[t])]

LessGoesOn(S, a) ==
    \A y \in [S -> Words] : \A T \in SUBSET S : \A d \in S : \A j \in Nat :
        /\ Less(S, a, d, y) \in [S -> Words]
        /\ Moment(T, a, Less(S, a, d, y), j) = Xor(Moment(T, a, y, j + 1), GfMul(a[d], Moment(T, a, y, j)))

LEMMA MomentOfLess ==
    ASSUME NEW S, IsFiniteSet(S), NEW a \in [S -> NonZero]
    PROVE  LessGoesOn(S, a)
<1> SUFFICES ASSUME NEW y \in [S -> Words], NEW T \in SUBSET S, NEW d \in S, NEW j \in Nat
             PROVE  /\ Less(S, a, d, y) \in [S -> Words]
                    /\ Moment(T, a, Less(S, a, d, y), j)
                        = Xor(Moment(T, a, y, j + 1), GfMul(a[d], Moment(T, a, y, j)))
  BY DEF LessGoesOn
<1> DEFINE z == Less(S, a, d, y)
           f == [t \in T |-> GfMul(GfPow(a[t], j + 1), y[t])]
           g == [t \in T |-> GfMul(GfPow(a[t], j), y[t])]
           h == [t \in T |-> GfMul(a[d], g[t])]
           k == [t \in T |-> Xor(f[t], h[t])]
           l == [t \in T |-> GfMul(GfPow(a[t], j), z[t])]
<1>1. /\ a[d] \in Words
      /\ \A t \in S : /\ a[t] \in Words /\ y[t] \in Words /\ Xor(a[t], a[d]) \in Words
                      /\ GfPow(a[t], j) \in Words /\ GfPow(a[t], j + 1) \in Words
                      /\ GfPow(a[t], j + 1) = GfMul(a[t], GfPow(a[t], j))
  <2>1. a[d] \in NonZero /\ \A t \in S : a[t] \in NonZero
    OBVIOUS
  <2>2. j + 1 \in Nat
    OBVIOUS
  <2>3. \A w \in NonZero : w \in Words
    BY DEF NonZero
  <2>4. \A t \in S : GfPow(a[t], j) \in NonZero /\ GfPow(a[t], j + 1) \in NonZero
                     /\ GfPow(a[t], j + 1) = GfMul(a[t], GfPow(a[t], j))
    BY <2>1, <2>2, PowFacts
  <2> QED
    BY <2>1, <2>3, <2>4, XorIsWord
<1>2. z \in [S -> Words]
  BY <1>1, IsField DEF Less
<1>3. IsFiniteSet(T) /\ \A t \in T : t \in S
  BY FS_Subset
<1>4. \A t \in T : f[t] \in Words /\ g[t] \in Words /\ h[t] \in Words
  BY <1>1, <1>3, IsField
<1>5. ASSUME NEW t \in T PROVE l[t] = k[t]
  <2> DEFINE p == GfPow(a[t], j)
             u == a[t]
             v == a[d]
             w == y[t]
  <2>1. p \in Words /\ u \in Words /\ v \in Words /\ w \in Words /\ Xor(u, v) \in Words
    BY <1>1, <1>3
  <2>2. l[t] = GfMul(p, GfMul(Xor(u, v), w))
    BY <1>3 DEF Less
  <2>3. k[t] = Xor(GfMul(GfMul(u, p), w), GfMul(v, GfMul(p, w)))
    BY <1>1, <1>3
  <2> HIDE DEF p, u, v, w, l, k
  <2>4. GfMul(p, w) \in Words
    BY <2>1, IsField
  <2>5. GfMul(p, GfMul(Xor(u, v), w)) = GfMul(Xor(u, v), GfMul(p, w))
    <3>1. GfMul(p, GfMul(Xor(u, v), w)) = GfMul(GfMul(p, Xor(u, v)), w)
      BY <2>1, IsField
    <3>2. GfMul(p, Xor(u, v)) = GfMul(Xor(u, v), p)
      BY <2>1, IsField
    <3>3. GfMul(GfMul(Xor(u, v), p), w) = GfMul(Xor(u, v), GfMul(p, w))
      BY <2>1, IsField
    <3> QED
      BY <3>1, <3>2, <3>3
  <2>6. GfMul(Xor(u, v), GfMul(p, w)) = Xor(GfMul(u, GfMul(p, w)), GfMul(v, GfMul(p, w)))
    <3> DEFINE q == GfMul(p, w)
    <3>1. q \in Words
      BY <2>4
    <3> HIDE DEF q
    <3>2. GfMul(Xor(u, v), q) = GfMul(q, Xor(u, v)) /\ GfMul(u, q) = GfMul(q, u) /\ GfMul(v, q) = GfMul(q, v)
      BY <2>1, <3>1, IsField
    <3>3. GfMul(q, Xor(u, v)) = Xor(GfMul(q, u), GfMul(q, v))
      BY <2>1, <3>1, IsField
    <3>4. GfMul(Xor(u, v), q) = Xor(GfMul(u, q), GfMul(v, q))
      BY <3>2, <3>3
    <3> QED
      BY <3>4 DEF q
  <2>7. GfMul(u, GfMul(p, w)) = GfMul(GfMul(u, p), w)
    BY <2>1, IsField
  <2> QED
    BY <2>2, <2>3, <2>5, <2>6, <2>7
<1>6. Moment(T, a, z, j) = Total(T, l) /\ Moment(T, a, y, j + 1) = Total(T, f) /\ Moment(T, a, y, j) = Total(T, g)
  BY DEF Moment
<1>7. Total(T, l) = Total(T, k)
  <2> HIDE DEF l, k
  <2> QED
    BY <1>5, TotalSame
<1>8. Total(T, k) = Xor(Total(T, f), Total(T, h))
  <2> HIDE DEF f, h
  <2> QED
    BY <1>3, <1>4, TotalOfXor
<1>9. Total(T, h) = GfMul(a[d], Total(T, g))
  <2> HIDE DEF g
  <2> QED
    BY <1>1, <1>3, <1>4, TotalScaled
<1> HIDE DEF z, f, g, h, k, l
<1>10. Moment(T, a, z, j) = Xor(Moment(T, a, y, j + 1), GfMul(a[d], Moment(T, a, y, j)))
  BY <1>6, <1>7, <1>8, <1>9
<1> QED
  BY <1>2, <1>10 DEF z

\* A moment with one more unknown.
MoreAdds(S, a) ==
    \A y \in [S -> Words] : \A T \in SUBSET S : \A d \in S \ T : \A j \in Nat :
        Moment(T \cup {d}, a, y, j) = Xor(Moment(T, a, y, j), GfMul(GfPow(a[d], j), y[d]))

LEMMA MomentAdds ==
    ASSUME NEW S, IsFiniteSet(S), NEW a \in [S -> NonZero]
    PROVE  MoreAdds(S, a)
<1> SUFFICES ASSUME NEW y \in [S -> Words], NEW T \in SUBSET S, NEW d \in S \ T, NEW j \in Nat
             PROVE  Moment(T \cup {d}, a, y, j) = Xor(Moment(T, a, y, j), GfMul(GfPow(a[d], j), y[d]))
  BY DEF MoreAdds
<1> DEFINE f == [t \in T \cup {d} |-> GfMul(GfPow(a[t], j), y[t])]
           g == [t \in T |-> GfMul(GfPow(a[t], j), y[t])]
<1>1. IsFiniteSet(T) /\ \A t \in T \cup {d} : t \in S
  BY FS_Subset
<1>2. f[d] \in Words /\ f[d] = GfMul(GfPow(a[d], j), y[d])
  <2>1. GfPow(a[d], j) \in Words /\ y[d] \in Words
    BY PowFacts DEF NonZero
  <2> QED
    BY <2>1, IsField
<1>3. \A t \in T : f[t] = g[t]
  OBVIOUS
<1>4. Moment(T \cup {d}, a, y, j) = Total(T \cup {d}, f) /\ Moment(T, a, y, j) = Total(T, g)
  BY DEF Moment
<1> HIDE DEF f, g
<1>5. Total(T, f) = Total(T, g)
  BY <1>3, TotalSame
<1>6. Total(T \cup {d}, f) = Xor(Total(T, f), f[d])
  BY <1>1, <1>2, TotalAdds
<1> QED
  BY <1>2, <1>4, <1>5, <1>6

Vanish(T, a, y) == \A j \in 0 .. Cardinality(T) - 1 : Moment(T, a, y, j) = {}

\* As many equations as constants leave nothing but zeros.
LEMMA OnlyZeros ==
    ASSUME NEW S, IsFiniteSet(S), NEW a \in [S -> NonZero], \A t, u \in S : a[t] = a[u] => t = u
    PROVE  \A y \in [S -> Words] : Vanish(S, a, y) => \A t \in S : y[t] = {}
<1> DEFINE C == { T \in SUBSET S : \A y \in [S -> Words] : Vanish(T, a, y) => \A t \in T : y[t] = {} }
<1>a. LessGoesOn(S, a) /\ MoreAdds(S, a)
  BY MomentOfLess, MomentAdds
<1>1. {} \in C
  OBVIOUS
<1>2. ASSUME NEW T \in SUBSET S, NEW d \in S, T \in C, d \notin T PROVE T \cup {d} \in C
  <2> SUFFICES ASSUME NEW y \in [S -> Words], Vanish(T \cup {d}, a, y) PROVE \A t \in T \cup {d} : y[t] = {}
    BY <1>2
  <2> DEFINE U == T \cup {d}
             z == Less(S, a, d, y)
  <2>1. U \in SUBSET S /\ IsFiniteSet(T) /\ Cardinality(T) \in Nat /\ Cardinality(U) = Cardinality(T) + 1
    BY <1>2, FS_Subset, FS_CardinalityType, FS_AddElement
  <2>2. \A j \in 0 .. Cardinality(T) : Moment(U, a, y, j) = {}
    BY <2>1 DEF Vanish
  <2>3. z \in [S -> Words] /\ z[d] = {}
    <3>1. z \in [S -> Words]
      <4>1. 0 \in Nat
        OBVIOUS
      <4> QED
        BY <1>a, <4>1 DEF LessGoesOn
    <3>2. Xor(a[d], a[d]) = {} /\ GfMul({}, y[d]) = {}
      BY XorFacts DEF GfMul
    <3> QED
      BY <3>1, <3>2 DEF Less
  <2>4. Vanish(T, a, z)
    <3> SUFFICES ASSUME NEW j \in 0 .. Cardinality(T) - 1 PROVE Moment(T, a, z, j) = {}
      BY DEF Vanish
    <3>1. j \in Nat /\ j \in 0 .. Cardinality(T) /\ j + 1 \in 0 .. Cardinality(T)
      BY <2>1
    <3>2. Moment(U, a, z, j) = Xor(Moment(U, a, y, j + 1), GfMul(a[d], Moment(U, a, y, j)))
      <4>1. U \in SUBSET S /\ j \in Nat
        BY <2>1, <3>1
      <4> HIDE DEF U
      <4> QED
        BY <1>a, <4>1 DEF LessGoesOn
    <3>3. Moment(U, a, z, j) = {}
      <4>1. GfMul(a[d], {}) = {} /\ Xor({}, {}) = {}
        BY XorFacts DEF GfMul
      <4> HIDE DEF U, z
      <4> QED
        BY <2>2, <3>1, <3>2, <4>1
    <3>4. Moment(U, a, z, j) = Xor(Moment(T, a, z, j), GfMul(GfPow(a[d], j), z[d]))
      <4>1. z \in [S -> Words] /\ j \in Nat /\ d \notin T
        BY <1>2, <2>3, <3>1
      <4> HIDE DEF z
      <4> QED
        BY <1>a, <4>1 DEF MoreAdds
    <3>5. GfMul(GfPow(a[d], j), z[d]) = {}
      BY <2>3 DEF GfMul
    <3> HIDE DEF U, z
    <3>6. Xor(Moment(T, a, z, j), {}) = Moment(T, a, z, j)
      BY XorFacts
    <3> QED
      BY <3>3, <3>4, <3>5, <3>6
  <2>5. \A t \in T : z[t] = {}
    <3> HIDE DEF z
    <3> QED
      BY <1>2, <2>3, <2>4
  <2>6. ASSUME NEW t \in T PROVE y[t] = {}
    <3>1. Xor(a[t], a[d]) \in Words /\ y[t] \in Words /\ t \in S
      BY XorIsWord DEF NonZero
    <3>2. Xor(a[t], a[d]) # {}
      <4>1. a[t] # a[d]
        BY <1>2
      <4> QED
        BY <4>1, DifferentWords
    <3>3. GfMul(Xor(a[t], a[d]), y[t]) = {}
      BY <2>5, <3>1 DEF Less
    <3>4. \A p, q \in Words : GfMul(p, q) = {} => p = {} \/ q = {}
      BY IsField
    <3> QED
      BY <3>1, <3>2, <3>3, <3>4
  <2>7. y[d] = {}
    <3>1. Moment(U, a, y, 0) = Xor(Moment(T, a, y, 0), GfMul(GfPow(a[d], 0), y[d]))
      BY <1>2, <1>a DEF MoreAdds
    <3>2. Moment(U, a, y, 0) = {}
      BY <2>1, <2>2
    <3>3. Moment(T, a, y, 0) = {}
      <4> DEFINE f == [t \in T |-> GfMul(GfPow(a[t], 0), y[t])]
      <4>1. \A t \in T : f[t] = {}
        BY <2>6 DEF GfMul
      <4> HIDE DEF f
      <4>2. Total(T, f) = {}
        BY <4>1, TotalOfZeros
      <4> QED
        BY <4>2 DEF f, Moment
    <3>4. GfMul(GfPow(a[d], 0), y[d]) = y[d]
      <4>1. GfPow(a[d], 0) = One /\ y[d] \in Words
        BY PowFacts
      <4> QED
        BY <4>1, IsField
    <3>5. Xor({}, y[d]) = y[d]
      BY XorFacts
    <3> QED
      BY <3>1, <3>2, <3>3, <3>4, <3>5
  <2> QED
    BY <2>6, <2>7
<1> HIDE DEF C
<1>3. S \in C
  BY <1>1, <1>2, SubsetInduction
<1> QED
  BY <1>3 DEF C

\* So do powers that begin with a higher exponent.
VanishFrom(S, a, y, e) == \A j \in 0 .. Cardinality(S) - 1 : Moment(S, a, y, e + j) = {}

LEMMA OnlyZerosFrom ==
    ASSUME NEW S, IsFiniteSet(S), NEW a \in [S -> NonZero], \A t, u \in S : a[t] = a[u] => t = u
    PROVE  \A y \in [S -> Words] : \A e \in Nat : VanishFrom(S, a, y, e) => \A t \in S : y[t] = {}
<1> SUFFICES ASSUME NEW y \in [S -> Words], NEW e \in Nat, VanishFrom(S, a, y, e)
             PROVE  \A t \in S : y[t] = {}
  OBVIOUS
<1> DEFINE z == [t \in S |-> GfMul(GfPow(a[t], e), y[t])]
<1>1. \A t \in S : a[t] \in NonZero /\ y[t] \in Words /\ GfPow(a[t], e) \in NonZero
  BY PowFacts
<1>2. z \in [S -> Words]
  BY <1>1, IsField DEF NonZero
<1>3. ASSUME NEW j \in 0 .. Cardinality(S) - 1 PROVE Moment(S, a, z, j) = {}
  <2> DEFINE f == [t \in S |-> GfMul(GfPow(a[t], e + j), y[t])]
             g == [t \in S |-> GfMul(GfPow(a[t], j), z[t])]
  <2>1. j \in Nat
    BY FS_CardinalityType
  <2>2. ASSUME NEW t \in S PROVE f[t] = g[t]
    <3> DEFINE p == GfPow(a[t], j)
               q == GfPow(a[t], e)
    <3>1. p \in Words /\ q \in Words /\ y[t] \in Words
      BY <1>1, <2>1, PowFacts DEF NonZero
    <3>2. GfPow(a[t], e + j) = GfMul(p, q)
      BY <1>1, <2>1, PowAdds
    <3>3. f[t] = GfMul(GfPow(a[t], e + j), y[t]) /\ g[t] = GfMul(p, GfMul(q, y[t]))
      OBVIOUS
    <3> HIDE DEF p, q, f, g
    <3>4. GfMul(p, GfMul(q, y[t])) = GfMul(GfMul(p, q), y[t])
      BY <3>1, IsField
    <3> QED
      BY <3>2, <3>3, <3>4
  <2>3. Moment(S, a, y, e + j) = Total(S, f) /\ Moment(S, a, z, j) = Total(S, g)
    BY DEF Moment
  <2>4. Moment(S, a, y, e + j) = {}
    BY DEF VanishFrom
  <2> HIDE DEF f, g, z
  <2>5. Total(S, f) = Total(S, g)
    BY <2>2, TotalSame
  <2> QED
    BY <2>3, <2>4, <2>5
<1>4. \A t \in S : z[t] = {}
  <2> HIDE DEF z
  <2>1. Vanish(S, a, z)
    BY <1>3 DEF Vanish
  <2> QED
    BY <1>2, <2>1, OnlyZeros
<1>5. \A t \in S : GfMul(GfPow(a[t], e), y[t]) = {} /\ GfPow(a[t], e) \in Words /\ GfPow(a[t], e) # {}
  BY <1>1, <1>4 DEF NonZero
<1>6. \A p, q \in Words : GfMul(p, q) = {} => p = {} \/ q = {}
  BY IsField
<1> QED
  BY <1>1, <1>5, <1>6

-----------------------------------------------------------------------------
(* Numbers in ascending order, and the constants of the slices. *)

Below(S, x) == { y \in S : y < x }
Rank(S, x) == Cardinality(Below(S, x))

LEMMA RankFacts ==
    ASSUME NEW S \in SUBSET Nat, IsFiniteSet(S)
    PROVE  /\ \A x \in S : Rank(S, x) \in 0 .. Cardinality(S) - 1
           /\ \A x, z \in S : x < z => Rank(S, x) < Rank(S, z)
           /\ \A k \in 1 .. Cardinality(S) : \E x \in S : Rank(S, x) = k - 1
<1> DEFINE N == Cardinality(S)
           f == [x \in S |-> Rank(S, x)]
           I == 0 .. N - 1
<1>1. N \in Nat
  BY FS_CardinalityType
<1>2. \A x \in S : IsFiniteSet(Below(S, x)) /\ Rank(S, x) \in Nat
  BY FS_Subset, FS_CardinalityType DEF Below, Rank
<1>3. ASSUME NEW T \in SUBSET S, NEW x \in S, x \notin T PROVE Cardinality(T) < N
  <2>1. IsFiniteSet(T) /\ Cardinality(T) <= N /\ (Cardinality(S) = Cardinality(T) => S = T) /\ Cardinality(T) \in Nat
    BY FS_Subset, FS_CardinalityType
  <2>2. Cardinality(T) # N
    BY <1>3, <2>1
  <2> QED
    BY <1>1, <2>1, <2>2
<1>4. \A x \in S : Rank(S, x) \in I
  <2> SUFFICES ASSUME NEW x \in S PROVE Rank(S, x) \in I
    OBVIOUS
  <2>1. Below(S, x) \in SUBSET S /\ x \notin Below(S, x) /\ x \in Nat
    BY DEF Below
  <2>2. Rank(S, x) < N
    BY <1>3, <2>1 DEF Rank
  <2> QED
    BY <1>1, <1>2, <2>2
<1>5. ASSUME NEW x \in S, NEW z \in S, x < z PROVE Rank(S, x) < Rank(S, z)
  <2> DEFINE A == Below(S, x)
             B == Below(S, z)
  <2>1. x \in Nat /\ z \in Nat /\ \A y \in S : y \in Nat
    OBVIOUS
  <2>a. \A y \in S : y < x => y < z
    BY <1>5, <2>1
  <2>2. A \in SUBSET B /\ x \in B /\ x \notin A
    <3>1. A \subseteq B
      BY <2>a DEF Below
    <3>2. x \in B /\ x \notin A
      BY <1>5, <2>1 DEF Below
    <3> QED
      BY <3>1, <3>2
  <2>3. IsFiniteSet(B) /\ Cardinality(B) \in Nat /\ Cardinality(A) \in Nat
    BY <1>2 DEF Rank
  <2> HIDE DEF A, B
  <2>4. Cardinality(A) <= Cardinality(B) /\ (Cardinality(B) = Cardinality(A) => B = A)
    BY <2>2, <2>3, FS_Subset
  <2>5. Cardinality(A) # Cardinality(B)
    BY <2>2, <2>4
  <2>6. Cardinality(A) < Cardinality(B)
    BY <2>3, <2>4, <2>5
  <2> QED
    BY <2>6 DEF A, B, Rank
<1>6. f \in Injection(S, I)
  <2>1. f \in [S -> I]
    BY <1>4
  <2>2. \A x, z \in S : f[x] = f[z] => x = z
    <3> SUFFICES ASSUME NEW x \in S, NEW z \in S, x # z PROVE Rank(S, x) # Rank(S, z)
      OBVIOUS
    <3>1. x < z \/ z < x
      OBVIOUS
    <3>2. Rank(S, x) \in Nat /\ Rank(S, z) \in Nat
      BY <1>2
    <3> QED
      BY <1>5, <3>1, <3>2
  <2> QED
    BY <2>1, <2>2 DEF Injection, IsInjective
<1>7. IsFiniteSet(I) /\ Cardinality(I) = N
  <2>1. 0 \in Int /\ N - 1 \in Int
    BY <1>1
  <2>2. IsFiniteSet(I) /\ Cardinality(I) = IF 0 > N - 1 THEN 0 ELSE (N - 1) - 0 + 1
    BY <2>1, FS_Interval
  <2> QED
    BY <1>1, <2>2
<1>8. f \in Surjection(S, I)
  <2> HIDE DEF f, I, N
  <2> QED
    BY <1>6, <1>7, FS_Injection DEF N
<1>9. ASSUME NEW k \in 1 .. N PROVE \E x \in S : Rank(S, x) = k - 1
  <2>1. k - 1 \in I
    BY <1>1
  <2>2. \A i \in I : \E x \in S : f[x] = i
    BY <1>8 DEF Surjection
  <2> QED
    BY <2>1, <2>2
<1> QED
  BY <1>4, <1>5, <1>9

\* The numbers of a set, each in its place.
LEMMA SortedFacts ==
    ASSUME NEW S \in SUBSET Nat, IsFiniteSet(S)
    PROVE  /\ Cardinality(S) \in Nat
           /\ Sorted(S) \in [1 .. Cardinality(S) -> S] /\ DOMAIN Sorted(S) = 1 .. Cardinality(S)
           /\ \A k \in 1 .. Cardinality(S) : Rank(S, Sorted(S)[k]) = k - 1
           /\ \A j, k \in 1 .. Cardinality(S) : Sorted(S)[j] = Sorted(S)[k] => j = k
           /\ \A x \in S : \E k \in 1 .. Cardinality(S) : Sorted(S)[k] = x
<1> DEFINE N == Cardinality(S)
           f == [k \in 1 .. N |-> CHOOSE x \in S : Rank(S, x) = k - 1]
<1>1. Sorted(S) = f
  BY TabulatedIsSame DEF Sorted, Rank, Below
<1>2. N \in Nat
  BY FS_CardinalityType
<1>3. \A k \in 1 .. N : f[k] \in S /\ Rank(S, f[k]) = k - 1
  <2> SUFFICES ASSUME NEW k \in 1 .. N PROVE f[k] \in S /\ Rank(S, f[k]) = k - 1
    OBVIOUS
  <2>1. \E x \in S : Rank(S, x) = k - 1
    BY RankFacts
  <2>2. f[k] = CHOOSE x \in S : Rank(S, x) = k - 1
    OBVIOUS
  <2> HIDE DEF f
  <2> QED
    BY <2>1, <2>2
<1>4. f \in [1 .. N -> S] /\ DOMAIN f = 1 .. N
  BY <1>3
<1> HIDE DEF f
<1>5. \A j, k \in 1 .. N : f[j] = f[k] => j = k
  <2> SUFFICES ASSUME NEW j \in 1 .. N, NEW k \in 1 .. N, f[j] = f[k] PROVE j = k
    OBVIOUS
  <2>1. j - 1 = k - 1
    BY <1>3
  <2> QED
    BY <1>2, <2>1
<1>6. ASSUME NEW x \in S PROVE \E k \in 1 .. N : f[k] = x
  <2>1. Rank(S, x) \in 0 .. N - 1
    BY RankFacts
  <2> DEFINE k == Rank(S, x) + 1
  <2>2. k \in 1 .. N /\ k - 1 = Rank(S, x)
    BY <1>2, <2>1
  <2> HIDE DEF k
  <2>3. f[k] \in S /\ Rank(S, f[k]) = Rank(S, x)
    BY <1>3, <2>2
  <2>4. f[k] = x
    <3>1. x \in Nat /\ f[k] \in Nat /\ Rank(S, x) \in Int
      <4>1. \A y \in S : y \in Nat
        OBVIOUS
      <4>2. x \in Nat /\ f[k] \in Nat
        BY <2>3, <4>1
      <4> QED
        BY <2>1, <4>2
    <3>2. ~(x < f[k]) /\ ~(f[k] < x)
      BY <2>3, <3>1, RankFacts
    <3> QED
      BY <3>1, <3>2
  <2> QED
    BY <2>2, <2>4
<1> QED
  BY <1>1, <1>2, <1>3, <1>4, <1>5, <1>6

Gapless(S) == \A x, y \in S : \A z \in x .. y : z \in S

\* Numbers without a gap.
LEMMA SortedGapless ==
    ASSUME NEW S \in SUBSET Nat, IsFiniteSet(S), Gapless(S)
    PROVE  \A k \in 1 .. Cardinality(S) : Sorted(S)[k] = Sorted(S)[1] + (k - 1)
<1> SUFFICES ASSUME NEW k \in 1 .. Cardinality(S) PROVE Sorted(S)[k] = Sorted(S)[1] + (k - 1)
  OBVIOUS
<1> DEFINE m == Sorted(S)[1]
           x == Sorted(S)[k]
<1>1. Cardinality(S) \in Nat /\ 1 \in 1 .. Cardinality(S)
  BY SortedFacts
<1>2. m \in S /\ x \in S /\ Rank(S, m) = 0 /\ Rank(S, x) = k - 1
  <2>1. Rank(S, m) = 1 - 1 /\ Rank(S, x) = k - 1 /\ m \in S /\ x \in S
    BY <1>1, SortedFacts
  <2> QED
    BY <2>1
<1> HIDE DEF m, x
<1>3. m \in Nat /\ x \in Nat /\ \A y \in S : y \in Nat
  BY <1>2
<1>4. \A y \in S : y >= m
  <2> SUFFICES ASSUME NEW y \in S, y < m PROVE FALSE
    BY <1>3
  <2>1. Rank(S, y) < Rank(S, m) /\ Rank(S, y) \in 0 .. Cardinality(S) - 1
    BY <1>2, RankFacts
  <2> QED
    BY <1>1, <1>2, <2>1
<1>5. Below(S, x) = m .. x - 1
  <2>1. \A z \in m .. x - 1 : z \in m .. x /\ z < x
    BY <1>3
  <2>2. \A z \in m .. x - 1 : z \in S /\ z < x
    BY <1>2, <2>1 DEF Gapless
  <2>3. \A z \in S : z < x => z \in m .. x - 1
    BY <1>3, <1>4
  <2> QED
    BY <2>2, <2>3 DEF Below
<1>6. Cardinality(m .. x - 1) = x - m
  <2>1. x >= m
    BY <1>2, <1>4
  <2>2. x - 1 \in Int /\ m \in Int
    BY <1>3
  <2>3. Cardinality(m .. x - 1) = IF m > x - 1 THEN 0 ELSE (x - 1) - m + 1
    BY <2>2, FS_Interval
  <2> QED
    BY <1>3, <2>1, <2>3
<1>7. k - 1 = x - m
  BY <1>2, <1>5, <1>6 DEF Rank
<1>8. x = m + (k - 1)
  BY <1>3, <1>7
<1> QED
  BY <1>8 DEF m, x

\* The k lowest numbers are k.
LEMMA LowestOfSet ==
    ASSUME NEW S \in SUBSET Nat, IsFiniteSet(S), NEW k \in 0 .. Cardinality(S)
    PROVE  /\ IsFiniteSet({ x \in S : Rank(S, x) < k })
           /\ Cardinality({ x \in S : Rank(S, x) < k }) = k
<1> DEFINE T == { x \in S : Rank(S, x) < k }
           I == 1 .. k
           f == [i \in I |-> Sorted(S)[i]]
<1>1. Cardinality(S) \in Nat /\ k \in Nat /\ \A i \in I : i \in 1 .. Cardinality(S) /\ i - 1 < k
  BY SortedFacts
<1>2. \A i \in I : f[i] \in S /\ Rank(S, f[i]) = i - 1
  BY <1>1, SortedFacts
<1>3. \A i \in I : f[i] \in T
  BY <1>1, <1>2
<1>4. \A i, j \in I : f[i] = f[j] => i = j
  <2> SUFFICES ASSUME NEW i \in I, NEW j \in I, f[i] = f[j] PROVE i = j
    OBVIOUS
  <2>1. i - 1 = j - 1
    BY <1>2
  <2> QED
    BY <2>1
<1>5. ASSUME NEW x \in T PROVE \E i \in I : f[i] = x
  <2>1. PICK i \in 1 .. Cardinality(S) : Sorted(S)[i] = x
    BY SortedFacts
  <2>2. i - 1 < k
    BY <2>1, SortedFacts
  <2>3. i \in I
    BY <1>1, <2>2
  <2> QED
    BY <2>1, <2>3
<1>6. f \in [I -> T]
  BY <1>3
<1>7. f \in Bijection(I, T)
  <2> HIDE DEF f, I, T
  <2> QED
    BY <1>4, <1>5, <1>6 DEF Bijection, Injection, Surjection, IsInjective
<1>8. IsFiniteSet(I) /\ Cardinality(I) = k
  BY <1>1, FS_Interval
<1>9. ExistsBijection(I, T)
  BY <1>7 DEF ExistsBijection
<1> HIDE DEF I, T
<1>10. IsFiniteSet(T) /\ Cardinality(T) = k
  BY <1>8, <1>9, FS_Bijection
<1> QED
  BY <1>10 DEF T

\* No two slices have the same constant, as long as there are constants.
LEMMA ConstantsDiffer ==
    ASSUME NEW count \in Nat, count <= Cardinality(Coprimes)
    PROVE  /\ InputConstants(count) \in [1 .. count -> NonZero]
           /\ \A i, j \in 1 .. count : InputConstants(count)[i] = InputConstants(count)[j] => i = j
<1> DEFINE ks == Sorted(Coprimes)
           N == Cardinality(Coprimes)
           C == InputConstants(count)
<1>1. Coprimes \in SUBSET Nat /\ IsFiniteSet(Coprimes) /\ \A k \in Coprimes : k \in 0 .. GfLimit - 1
  <2>1. IsFiniteSet(1 .. GfLimit - 1)
    BY LimitFacts, FS_Interval
  <2>2. Coprimes \in SUBSET (1 .. GfLimit - 1)
    BY DEF Coprimes
  <2>3. IsFiniteSet(Coprimes)
    BY <2>1, <2>2, FS_Subset
  <2>4. \A k \in 1 .. GfLimit - 1 : k \in Nat /\ k \in 0 .. GfLimit - 1
    BY LimitFacts
  <2> QED
    BY <2>2, <2>3, <2>4
<1>2. /\ N \in Nat /\ ks \in [1 .. N -> Coprimes]
      /\ \A i, j \in 1 .. N : ks[i] = ks[j] => i = j
  BY <1>1, SortedFacts
<1>3. C = [i \in 1 .. count |-> GfExp[ks[i]]]
  BY DEF InputConstants
<1> HIDE DEF ks, N, C
<1>4. \A i \in 1 .. count : i \in 1 .. N
  BY <1>2 DEF N
<1>5. \A i \in 1 .. count : ks[i] \in 0 .. GfLimit - 1
  BY <1>1, <1>2, <1>4
<1>6. C \in [1 .. count -> NonZero]
  BY <1>3, <1>5, ExpFacts
<1>7. ASSUME NEW i \in 1 .. count, NEW j \in 1 .. count, C[i] = C[j] PROVE i = j
  <2>1. ks[i] = ks[j]
    BY <1>3, <1>5, <1>7, ExpFacts
  <2> QED
    BY <1>2, <1>4, <2>1
<1> QED
  BY <1>6, <1>7 DEF C

\* The powers of different constants: one row per exponent, one column per constant.
PowerRows(n, a, es) == [r \in 1 .. n |-> [c \in 1 .. n |-> GfPow(a[c], es[r])]]

LEMMA PowerRowsType ==
    ASSUME NEW n \in Nat, NEW a \in [1 .. n -> NonZero], NEW es \in [1 .. n -> Nat]
    PROVE  /\ PowerRows(n, a, es) \in Squares(n)
           /\ \A x \in Rows(n) : \A r \in 1 .. n :
                Dot(n, PowerRows(n, a, es)[r], x) = Moment(1 .. n, a, x, es[r])
<1>1. \A c, r \in 1 .. n : GfPow(a[c], es[r]) \in Words
  <2> SUFFICES ASSUME NEW c \in 1 .. n, NEW r \in 1 .. n PROVE GfPow(a[c], es[r]) \in Words
    OBVIOUS
  <2>1. a[c] \in NonZero /\ es[r] \in Nat
    OBVIOUS
  <2>2. \A b \in NonZero : \A e \in Nat : GfPow(b, e) \in NonZero
    BY PowFacts
  <2> QED
    BY <2>1, <2>2 DEF NonZero
<1>2. PowerRows(n, a, es) \in Squares(n)
  BY <1>1 DEF PowerRows, Squares, Rows
<1>3. ASSUME NEW x \in Rows(n), NEW r \in 1 .. n
      PROVE  Dot(n, PowerRows(n, a, es)[r], x) = Moment(1 .. n, a, x, es[r])
  <2> DEFINE I == 1 .. n
             row == PowerRows(n, a, es)[r]
             f == [c \in I |-> GfMul(row[c], x[c])]
             g == [c \in I |-> GfMul(GfPow(a[c], es[r]), x[c])]
  <2>1. row = [c \in I |-> GfPow(a[c], es[r])]
    BY DEF PowerRows
  <2> HIDE DEF row
  <2>2. \A c \in I : f[c] = g[c]
    BY <2>1
  <2>3. Dot(n, row, x) = Total(I, f) /\ Moment(I, a, x, es[r]) = Total(I, g)
    BY DEF Dot, Moment
  <2> HIDE DEF f, g, I
  <2>4. Total(I, f) = Total(I, g)
    BY <2>2, TotalSame
  <2> QED
    BY <2>3, <2>4 DEF row, I
<1> QED
  BY <1>2, <1>3

(***************************************************************************)
(* Recovery slices with exponents that follow one another are solved for   *)
(* as many lost slices, whichever those are.                               *)
(***************************************************************************)
THEOREM RunsSolve ==
    ASSUME NEW n \in Nat, NEW a \in [1 .. n -> NonZero], \A b, c \in 1 .. n : a[b] = a[c] => b = c,
           NEW e \in Nat, NEW es \in [1 .. n -> Nat], \A r \in 1 .. n : es[r] = e + (r - 1),
           NEW rhs \in Rows(n)
    PROVE  Solve(PowerRows(n, a, es), rhs).ok
<1> DEFINE mat == PowerRows(n, a, es)
           I == 1 .. n
<1>1. mat \in Squares(n) /\ \A x \in Rows(n) : \A r \in I : Dot(n, mat[r], x) = Moment(I, a, x, es[r])
  BY PowerRowsType
<1> HIDE DEF mat
<1>2. ASSUME NEW x \in Rows(n), Annuls(n, mat, x) PROVE \A c \in I : x[c] = {}
  <2>1. IsFiniteSet(I) /\ Cardinality(I) = n
    BY FS_Interval
  <2>2. x \in [I -> Words]
    BY DEF Rows
  <2>3. ASSUME NEW j \in 0 .. Cardinality(I) - 1 PROVE Moment(I, a, x, e + j) = {}
    <3>1. j + 1 \in I /\ (j + 1) - 1 = j
      BY <2>1
    <3>2. es[j + 1] = e + j
      BY <3>1
    <3>3. Moment(I, a, x, es[j + 1]) = {}
      BY <1>1, <1>2, <3>1 DEF Annuls
    <3> QED
      BY <3>2, <3>3
  <2>a. VanishFrom(I, a, x, e)
    BY <2>3 DEF VanishFrom
  <2> HIDE DEF I
  <2>4. a \in [I -> NonZero] /\ \A b, c \in I : a[b] = a[c] => b = c
    BY DEF I
  <2> QED
    BY <2>1, <2>2, <2>a, <2>4, OnlyZerosFrom
<1>3. ~Dependent(n, mat)
  BY <1>2 DEF Dependent
<1> QED
  BY <1>1, <1>3, SolveIsRight DEF mat
=============================================================================
