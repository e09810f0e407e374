------------------------------ MODULE ScanProofs ------------------------------
(***************************************************************************)
(* What the search finds, for files, slices and chunks of any length, any  *)
(* filter and any polynomial.  First the checksum: on words, sets of bits, *)
(* a byte advances the register by a linear map, so the register of a      *)
(* stream is the sum of what each byte has become, and rolling takes away  *)
(* what the byte that leaves has become.  Then that nothing is recognised  *)
(* that is not there, and last, from the invariant ScanInv, that nothing   *)
(* that stands apart is missed.                                            *)
(***************************************************************************)
EXTENDS SlidingScan, Induction

LEMMA TabulatedIsSame == \A f : Tabulated(f) = f
  BY DEF Tabulated

\* Words are a group whose every element is its own inverse.
LEMMA XorFacts ==
    \A a, b, c : /\ Xor(a, Xor(b, c)) = Xor(Xor(a, b), c) /\ Xor(a, b) = Xor(b, a)
                 /\ Xor(a, {}) = a /\ Xor({}, a) = a /\ Xor(a, a) = {} /\ Xor(Xor(a, b), b) = a
  BY DEF Xor

LEMMA XorIsWord == \A a, b \in Words : Xor(a, b) \in Words
  BY DEF Xor, Words

LEMMA InShiftedRight ==
    ASSUME NEW w \in Words, NEW n \in Nat
    PROVE  ShiftedRight(w, n) = { k \in Nat : k + n \in w }
<1>1. w \subseteq Nat
  BY WidthAssumption DEF Words, WidthAssumption
<1>2. ASSUME NEW k \in ShiftedRight(w, n) PROVE k \in Nat /\ k + n \in w
  <2>1. PICK j \in w : j >= n /\ k = j - n
    BY DEF ShiftedRight
  <2> QED
    BY <1>1, <2>1
<1>3. ASSUME NEW k \in Nat, k + n \in w PROVE k \in ShiftedRight(w, n)
  <2>1. k = (k + n) - n /\ k + n >= n
    OBVIOUS
  <2> QED
    BY <1>3, <2>1 DEF ShiftedRight
<1> QED
  BY <1>2, <1>3

LEMMA ShiftedRightIsLinear ==
    ASSUME NEW a \in Words, NEW b \in Words, NEW n \in Nat
    PROVE  /\ ShiftedRight(a, n) \in Words
           /\ ShiftedRight(Xor(a, b), n) = Xor(ShiftedRight(a, n), ShiftedRight(b, n))
<1>1. Xor(a, b) \in Words
  BY XorIsWord
<1>2. ShiftedRight(a, n) \in Words
  BY InShiftedRight, WidthAssumption DEF Words
<1> QED
  BY <1>1, <1>2, InShiftedRight DEF Xor

-----------------------------------------------------------------------------
(* Maps that respect the addition of words. *)

Maps == [Words -> Words]
Linear == { f \in Maps : \A a, b \in Words : f[Xor(a, b)] = Xor(f[a], f[b]) }

LEMMA LinearOfZero == ASSUME NEW f \in Linear PROVE {} \in Words /\ f[{}] = {}
<1>1. {} \in Words /\ f[{}] \in Words
  BY DEF Words, Linear, Maps
<1>2. f[Xor({}, {})] = Xor(f[{}], f[{}])
  BY <1>1, Zenon DEF Linear
<1> QED
  BY <1>1, <1>2, XorFacts

\* A linear map, applied so many times, is linear.
LEMMA RepeatedIsLinear ==
    ASSUME NEW f \in Linear
    PROVE  \A k \in Nat : Repeated(Words, f)[k] \in Linear
<1> DEFINE g == Repeated(Words, f)
           P == { k \in Nat : g[k] \in Linear }
<1>1. f \in [Words -> Words]
  BY DEF Linear, Maps
<1>2. /\ g \in [Nat -> [Words -> Words]] /\ \A x \in Words : g[0][x] = x
      /\ \A k \in Nat : \A x \in Words : g[k + 1][x] = f[g[k][x]]
  BY <1>1, RepeatedFacts
<1> HIDE DEF g
<1>3. 0 \in P
  <2>1. g[0] \in Maps
    BY <1>2 DEF Maps
  <2>2. ASSUME NEW a \in Words, NEW b \in Words PROVE g[0][Xor(a, b)] = Xor(g[0][a], g[0][b])
    BY <1>2, XorIsWord
  <2> QED
    BY <2>1, <2>2 DEF Linear
<1>4. ASSUME NEW k \in Nat, k \in P PROVE k + 1 \in P
  <2>1. g[k + 1] \in Maps
    BY <1>2 DEF Maps
  <2>2. ASSUME NEW a \in Words, NEW b \in Words
        PROVE  g[k + 1][Xor(a, b)] = Xor(g[k + 1][a], g[k + 1][b])
    <3>1. Xor(a, b) \in Words /\ g[k][a] \in Words /\ g[k][b] \in Words
      BY <1>2, XorIsWord
    <3>2. g[k][Xor(a, b)] = Xor(g[k][a], g[k][b])
      BY <1>4 DEF Linear
    <3>3. f[Xor(g[k][a], g[k][b])] = Xor(f[g[k][a]], f[g[k][b]])
      BY <3>1 DEF Linear
    <3> QED
      BY <1>2, <3>1, <3>2, <3>3
  <2>3. g[k + 1] \in Linear
    BY <2>1, <2>2, Zenon DEF Linear
  <2>4. k + 1 \in Nat
    OBVIOUS
  <2> QED
    BY <2>3, <2>4
<1> HIDE DEF P
<1> QED
  BY <1>3, <1>4, NatSetInduction DEF P, g

-----------------------------------------------------------------------------
(* The table and the step of the register. *)

\* One bit of a byte is taken in.
BitStep == [r \in Words |-> IF 0 \in r THEN Xor(ShiftedRight(r, 1), Poly) ELSE ShiftedRight(r, 1)]

LEMMA BitStepIsLinear == BitStep \in Linear
<1>1. BitStep \in Maps
  BY ShiftedRightIsLinear, XorIsWord, CrcAssumption DEF Maps, BitStep, CrcAssumption
<1>2. ASSUME NEW a \in Words, NEW b \in Words
      PROVE  BitStep[Xor(a, b)] = Xor(BitStep[a], BitStep[b])
  <2> DEFINE s == ShiftedRight(a, 1)  t == ShiftedRight(b, 1)
  <2>1. Xor(a, b) \in Words /\ ShiftedRight(Xor(a, b), 1) = Xor(s, t)
    BY XorIsWord, ShiftedRightIsLinear
  <2>2. 0 \in Xor(a, b) <=> (0 \in a) # (0 \in b)
    BY DEF Xor
  <2>3. /\ BitStep[Xor(a, b)] = IF 0 \in Xor(a, b) THEN Xor(Xor(s, t), Poly) ELSE Xor(s, t)
        /\ BitStep[a] = IF 0 \in a THEN Xor(s, Poly) ELSE s
        /\ BitStep[b] = IF 0 \in b THEN Xor(t, Poly) ELSE t
    BY <2>1 DEF BitStep
  <2>4. /\ Xor(Xor(s, Poly), Xor(t, Poly)) = Xor(s, t)
        /\ Xor(s, Xor(t, Poly)) = Xor(Xor(s, t), Poly)
        /\ Xor(Xor(s, Poly), t) = Xor(Xor(s, t), Poly)
    BY DEF Xor
  <2> HIDE DEF s, t
  <2> QED
    BY <2>2, <2>3, <2>4
<1> QED
  BY <1>1, <1>2, Zenon DEF Linear

LEMMA BytesAreWords == Bytes \subseteq Words /\ \A r \in Words : LowByte(r) \in Bytes
<1>1. 0 .. ByteBits - 1 \subseteq 0 .. Width - 1
  BY CrcAssumption, WidthAssumption DEF CrcAssumption
<1> QED
  BY <1>1 DEF Bytes, Words, LowByte

\* An entry of the table is its index, moved on by the bits of a byte.
LEMMA TableFacts ==
    \A b \in Bytes : CrcTable[b] = Repeated(Words, BitStep)[ByteBits][b] /\ CrcTable[b] \in Words
<1> DEFINE g == Repeated(Words, BitStep)
           n == ByteBits
<1>1. BitStep \in [Words -> Words]
  BY BitStepIsLinear DEF Linear, Maps
<1>2. /\ g \in [Nat -> [Words -> Words]] /\ \A x \in Words : g[0][x] = x
      /\ \A k \in Nat : \A x \in Words : g[k + 1][x] = BitStep[g[k][x]]
  BY <1>1, RepeatedFacts
<1>3. n \in Nat
  BY CrcAssumption DEF CrcAssumption
<1> HIDE DEF g, n
<1>4. ASSUME NEW b \in Bytes PROVE CrcTable[b] = g[n][b] /\ g[n][b] \in Words
  <2>0. b \in Words
    BY BytesAreWords
  <2> DEFINE Eq(f) == f = [k \in 0 .. n |->
                        IF k = 0 THEN b
                        ELSE LET r == f[k - 1]
                             IN  IF 0 \in r THEN Xor(ShiftedRight(r, 1), Poly) ELSE ShiftedRight(r, 1)]
             h == [k \in 0 .. n |-> g[k][b]]
             f == CHOOSE f : Eq(f)
  <2>1. Eq(h)
    <3>1. ASSUME NEW k \in 0 .. n
          PROVE  g[k][b] = IF k = 0 THEN b
                           ELSE LET r == h[k - 1]
                                IN  IF 0 \in r THEN Xor(ShiftedRight(r, 1), Poly) ELSE ShiftedRight(r, 1)
      <4>1. CASE k = 0
        BY <1>2, <2>0, <4>1
      <4>2. CASE k # 0
        <5>1. k - 1 \in 0 .. n /\ k - 1 \in Nat /\ (k - 1) + 1 = k
          BY <1>3, <4>2
        <5>2. g[k][b] = BitStep[g[k - 1][b]] /\ g[k - 1][b] \in Words
          BY <1>2, <2>0, <5>1
        <5>3. h[k - 1] = g[k - 1][b]
          BY <5>1
        <5> HIDE DEF h
        <5> QED
          BY <4>2, <5>2, <5>3 DEF BitStep
      <4> QED
        BY <4>1, <4>2
    <3> QED
      BY <3>1
  <2>2. Eq(f)
    <3> HIDE DEF Eq
    <3> QED
      BY <2>1
  <2>3. CrcTable[b] = f[n]
    BY TabulatedIsSame DEF CrcTable, n
  <2>4. /\ f[0] = b
        /\ \A k \in 1 .. n : f[k] = LET r == f[k - 1]
                                    IN  IF 0 \in r THEN Xor(ShiftedRight(r, 1), Poly) ELSE ShiftedRight(r, 1)
    <3> HIDE DEF f
    <3>1. \A k \in 0 .. n : f[k] = IF k = 0 THEN b
                           ELSE LET r == f[k - 1]
                                IN  IF 0 \in r THEN Xor(ShiftedRight(r, 1), Poly) ELSE ShiftedRight(r, 1)
      BY <2>2
    <3>2. 0 \in 0 .. n /\ \A k \in 1 .. n : k \in 0 .. n /\ k # 0
      BY <1>3
    <3> QED
      BY <3>1, <3>2
  <2> HIDE DEF f, Eq
  <2>5. f[0] = h[0]
    BY <1>2, <1>3, <2>0, <2>4
  <2>6. ASSUME NEW k \in 1 .. n, f[k - 1] = h[k - 1] PROVE f[k] = h[k]
    <3>1. k - 1 \in 0 .. n /\ k - 1 \in Nat /\ (k - 1) + 1 = k
      BY <1>3
    <3>2. f[k - 1] = g[k - 1][b] /\ g[k - 1][b] \in Words /\ h[k] = g[k][b]
      BY <1>2, <1>3, <2>0, <2>6, <3>1
    <3>3. g[k][b] = BitStep[g[k - 1][b]]
      BY <1>2, <2>0, <3>1
    <3>4. f[k] = LET r == f[k - 1]
                 IN  IF 0 \in r THEN Xor(ShiftedRight(r, 1), Poly) ELSE ShiftedRight(r, 1)
      BY <2>4
    <3> QED
      BY <3>2, <3>3, <3>4 DEF BitStep
  <2>7. f[n] = g[n][b]
    <3> HIDE DEF h
    <3>1. f[n] = h[n]
      BY <1>3, <2>5, <2>6, GoOnAlike
    <3> QED
      BY <1>3, <3>1 DEF h
  <2> QED
    BY <1>2, <1>3, <2>0, <2>3, <2>7
<1> QED
  BY <1>4 DEF g, n

LEMMA TableIsLinear ==
    /\ {} \in Bytes /\ CrcTable[{}] = {}
    /\ \A a, b \in Bytes : Xor(a, b) \in Bytes /\ CrcTable[Xor(a, b)] = Xor(CrcTable[a], CrcTable[b])
<1>1. Repeated(Words, BitStep)[ByteBits] \in Linear
  BY BitStepIsLinear, RepeatedIsLinear, CrcAssumption DEF CrcAssumption
<1>2. {} \in Bytes /\ \A a, b \in Bytes : Xor(a, b) \in Bytes
  BY DEF Bytes, Xor
<1>3. CrcTable[{}] = {}
  BY <1>1, <1>2, TableFacts, LinearOfZero
<1>4. ASSUME NEW a \in Bytes, NEW b \in Bytes PROVE CrcTable[Xor(a, b)] = Xor(CrcTable[a], CrcTable[b])
  <2>1. a \in Words /\ b \in Words
    BY BytesAreWords
  <2> DEFINE h == Repeated(Words, BitStep)[ByteBits]
  <2>2. CrcTable[Xor(a, b)] = h[Xor(a, b)] /\ CrcTable[a] = h[a] /\ CrcTable[b] = h[b]
    BY <1>2, TableFacts
  <2>3. h[Xor(a, b)] = Xor(h[a], h[b])
    BY <1>1, <2>1, Zenon DEF Linear
  <2> QED
    BY <2>2, <2>3
<1> QED
  BY <1>2, <1>3, <1>4

\* A zero byte moves the register on by a linear map; another one adds its entry.
Advanced == [r \in Words |-> CrcStep(r, {})]

LEMMA StepFacts ==
    /\ Advanced \in Linear
    /\ \A r \in Words, b \in Bytes : CrcStep(r, b) = Xor(Advanced[r], CrcTable[b]) /\ CrcStep(r, b) \in Words
<1> DEFINE n == ByteBits
<1>1. n \in Nat
  BY CrcAssumption DEF CrcAssumption
<1>2. ASSUME NEW r \in Words, NEW b \in Bytes
      PROVE  /\ CrcStep(r, b) = Xor(Advanced[r], CrcTable[b]) /\ CrcStep(r, b) \in Words
             /\ Advanced[r] = Xor(CrcTable[LowByte(r)], ShiftedRight(r, n))
  <2> DEFINE l == LowByte(r)  s == ShiftedRight(r, n)
  <2>1. l \in Bytes /\ s \in Words
    BY <1>1, BytesAreWords, ShiftedRightIsLinear
  <2>2. CrcStep(r, b) = Xor(CrcTable[Xor(l, b)], s) /\ Advanced[r] = Xor(CrcTable[Xor(l, {})], s)
    BY DEF CrcStep, Advanced
  <2> HIDE DEF l, s, n
  <2>3. CrcTable[Xor(l, b)] = Xor(CrcTable[l], CrcTable[b]) /\ Xor(l, {}) = l
    BY <2>1, TableIsLinear, XorFacts
  <2>4. Xor(Xor(CrcTable[l], CrcTable[b]), s) = Xor(Xor(CrcTable[l], s), CrcTable[b])
    BY DEF Xor
  <2>5. CrcTable[l] \in Words /\ CrcTable[b] \in Words
    BY <2>1, TableFacts
  <2>6. CrcStep(r, b) \in Words
    BY <2>1, <2>2, <2>3, <2>5, XorIsWord
  <2> QED
    BY <2>2, <2>3, <2>4, <2>6 DEF l, s
<1>3. {} \in Bytes
  BY TableIsLinear
<1>4. Advanced \in Maps
  BY <1>2, <1>3 DEF Advanced, Maps
<1>5. ASSUME NEW a \in Words, NEW b \in Words PROVE Advanced[Xor(a, b)] = Xor(Advanced[a], Advanced[b])
  <2>1. Xor(a, b) \in Words
    BY XorIsWord
  <2>2. LowByte(Xor(a, b)) = Xor(LowByte(a), LowByte(b))
    BY DEF LowByte, Xor
  <2>3. LowByte(a) \in Bytes /\ LowByte(b) \in Bytes
    BY BytesAreWords
  <2>4. CrcTable[Xor(LowByte(a), LowByte(b))] = Xor(CrcTable[LowByte(a)], CrcTable[LowByte(b)])
    BY <2>3, TableIsLinear
  <2>5. ShiftedRight(Xor(a, b), n) = Xor(ShiftedRight(a, n), ShiftedRight(b, n))
    BY <1>1, ShiftedRightIsLinear
  <2>6. /\ Advanced[Xor(a, b)] = Xor(CrcTable[LowByte(Xor(a, b))], ShiftedRight(Xor(a, b), n))
        /\ Advanced[a] = Xor(CrcTable[LowByte(a)], ShiftedRight(a, n))
        /\ Advanced[b] = Xor(CrcTable[LowByte(b)], ShiftedRight(b, n))
    BY <1>2, <1>3, <2>1
  <2>7. \A p, q, u, v : Xor(Xor(p, q), Xor(u, v)) = Xor(Xor(p, u), Xor(q, v))
    BY DEF Xor
  <2> QED
    BY <2>2, <2>4, <2>5, <2>6, <2>7
<1>6. Advanced \in Linear
  BY <1>4, <1>5, Zenon DEF Linear
<1> QED
  BY <1>2, <1>6

-----------------------------------------------------------------------------
(* Matrices. *)

Matrices == [0 .. Width - 1 -> Words]
MatrixOf(f) == [i \in 0 .. Width - 1 |-> f[{i}]]

LEMMA SingleBits == \A i \in 0 .. Width - 1 : {i} \in Words
  BY DEF Words

LEMMA ApplyIs == ASSUME NEW f \in Linear, NEW x \in Words PROVE Apply(MatrixOf(f), x) = f[x]
<1> DEFINE m == MatrixOf(f)
           part(k) == x \cap (0 .. k - 1)
           h == [k \in 0 .. Width |-> f[part(k)]]
           Eq(o) == o = [k \in 0 .. Width |->
                            IF k = 0 THEN {}
                            ELSE IF k - 1 \in x THEN Xor(o[k - 1], m[k - 1]) ELSE o[k - 1]]
           out == CHOOSE o : Eq(o)
<1>1. Width \in Nat
  BY WidthAssumption DEF WidthAssumption
<1>2. h[0] = {}
  <2>1. part(0) = {}
    OBVIOUS
  <2>2. f[{}] = {}
    BY LinearOfZero
  <2> QED
    BY <1>1, <2>1, <2>2
<1>3. ASSUME NEW k \in 1 .. Width
      PROVE  h[k] = IF k - 1 \in x THEN Xor(h[k - 1], m[k - 1]) ELSE h[k - 1]
  <2>1. k - 1 \in 0 .. Width - 1 /\ k \in 0 .. Width /\ k - 1 \in 0 .. Width
    BY <1>1
  <2>2. m[k - 1] = f[{k - 1}]
    BY <2>1 DEF MatrixOf
  <2>3. 0 .. k - 1 = (0 .. (k - 1) - 1) \cup {k - 1} /\ k - 1 \notin 0 .. (k - 1) - 1
    BY <1>1
  <2>4. CASE k - 1 \in x
    <3>1. part(k) = Xor(part(k - 1), {k - 1})
      BY <2>3, <2>4 DEF Xor
    <3>2. part(k - 1) \in Words /\ {k - 1} \in Words
      BY <2>1, SingleBits DEF Words
    <3>3. f[part(k)] = Xor(f[part(k - 1)], f[{k - 1}])
      <4> HIDE DEF part
      <4> QED
        BY <3>1, <3>2 DEF Linear
    <3> QED
      BY <2>1, <2>2, <2>4, <3>3
  <2>5. CASE k - 1 \notin x
    <3>1. part(k) = part(k - 1)
      BY <2>3, <2>5
    <3> QED
      BY <2>1, <2>5, <3>1
  <2> QED
    BY <2>4, <2>5
<1> HIDE DEF m
<1>4. Eq(h)
  <2>1. h = [k \in 0 .. Width |-> h[k]]
    OBVIOUS
  <2>2. ASSUME NEW k \in 0 .. Width
        PROVE  h[k] = IF k = 0 THEN {}
                      ELSE IF k - 1 \in x THEN Xor(h[k - 1], m[k - 1]) ELSE h[k - 1]
    <3>1. k = 0 \/ k \in 1 .. Width
      BY <1>1
    <3> HIDE DEF h
    <3> QED
      BY <1>2, <1>3, <3>1
  <2> HIDE DEF h
  <2> QED
    BY <2>1, <2>2
<1>5. Eq(out)
  <2> HIDE DEF Eq, h
  <2> QED
    BY <1>4
<1>6. Apply(m, x) = out[Width]
  BY DEF Apply
<1> HIDE DEF out, h
<1>7. \A k \in 0 .. Width : out[k] = IF k = 0 THEN {}
                      ELSE IF k - 1 \in x THEN Xor(out[k - 1], m[k - 1]) ELSE out[k - 1]
  BY <1>5
<1> HIDE DEF Eq
<1>8. out[0] = h[0]
  BY <1>1, <1>2, <1>7
<1>9. \A k \in 1 .. Width : out[k - 1] = h[k - 1] => out[k] = h[k]
  <2>1. \A k \in 1 .. Width : k \in 0 .. Width /\ k # 0
    BY <1>1
  <2> QED
    BY <1>3, <1>7, <2>1
<1>10. out[Width] = h[Width]
  BY <1>1, <1>8, <1>9, GoOnAlike
<1>11. part(Width) = x /\ Width \in 0 .. Width
  <2>1. x \subseteq 0 .. Width - 1
    BY DEF Words
  <2>2. part(Width) = x
    BY <2>1
  <2> QED
    BY <1>1, <2>2
<1> QED
  BY <1>6, <1>10, <1>11 DEF h, m

LEMMA MulIs ==
    ASSUME NEW f \in Linear, NEW g \in Linear
    PROVE  Mul(MatrixOf(f), MatrixOf(g)) = MatrixOf([x \in Words |-> f[g[x]]])
<1>1. ASSUME NEW i \in 0 .. Width - 1 PROVE Apply(MatrixOf(f), MatrixOf(g)[i]) = f[g[{i}]]
  <2>1. g[{i}] \in Words /\ MatrixOf(g)[i] = g[{i}]
    BY SingleBits DEF Linear, Maps, MatrixOf
  <2> QED
    BY <2>1, ApplyIs
<1>2. Mul(MatrixOf(f), MatrixOf(g)) = [i \in 0 .. Width - 1 |-> Apply(MatrixOf(f), MatrixOf(g)[i])]
  BY TabulatedIsSame DEF Mul
<1>3. MatrixOf([x \in Words |-> f[g[x]]]) = [i \in 0 .. Width - 1 |-> f[g[{i}]]]
  BY SingleBits DEF MatrixOf
<1> QED
  BY <1>1, <1>2, <1>3

\* What so many zero bytes do to the register.
Past(k) == Repeated(Words, Advanced)[k]

LEMMA PastFacts ==
    /\ \A k \in Nat : Past(k) \in Linear
    /\ \A x \in Words : Past(0)[x] = x
    /\ \A k \in Nat, x \in Words : Past(k)[x] \in Words /\ Past(k + 1)[x] = Advanced[Past(k)[x]]
    /\ \A k, l \in Nat, x \in Words : Past(k + l)[x] = Past(k)[Past(l)[x]]
<1>1. Advanced \in Linear /\ Advanced \in [Words -> Words]
  BY StepFacts DEF Linear, Maps
<1>2. \A k \in Nat : Past(k) \in Linear
  BY <1>1, RepeatedIsLinear DEF Past
<1>3. /\ Repeated(Words, Advanced) \in [Nat -> [Words -> Words]]
      /\ \A x \in Words : Past(0)[x] = x
      /\ \A k \in Nat : \A x \in Words : Past(k + 1)[x] = Advanced[Past(k)[x]]
  BY <1>1, RepeatedFacts DEF Past
<1>4. \A k \in Nat, x \in Words : Past(k)[x] \in Words
  BY <1>2 DEF Linear, Maps
<1>5. \A k, l \in Nat, x \in Words : Past(k + l)[x] = Past(k)[Past(l)[x]]
  BY <1>1, RepeatedAdds DEF Past
<1> QED
  BY <1>2, <1>3, <1>4, <1>5

LEMMA PastComposed ==
    ASSUME NEW k \in Nat, NEW l \in Nat
    PROVE  Mul(MatrixOf(Past(k)), MatrixOf(Past(l))) = MatrixOf(Past(k + l))
<1>1. Mul(MatrixOf(Past(k)), MatrixOf(Past(l))) = MatrixOf([x \in Words |-> Past(k)[Past(l)[x]]])
  BY PastFacts, MulIs
<1>2. \A i \in 0 .. Width - 1 : Past(k)[Past(l)[{i}]] = Past(k + l)[{i}]
  BY PastFacts, SingleBits
<1> QED
  BY <1>1, <1>2, SingleBits DEF MatrixOf

\* After k turns of the squaring the lowest k bits of n are taken in.
LEMMA AdvanceByIs == ASSUME NEW n \in Nat PROVE AdvanceBy(n) = MatrixOf(Past(n))
<1> DEFINE next(k, t) == [out |-> IF Bit(n, k - 1) = 1 THEN Mul(t.base, t.out) ELSE t.out,
                          base |-> Mul(t.base, t.base)]
           Eq(f) == f = [k \in 0 .. n |->
                            IF k = 0 THEN [out |-> Identity, base |-> AdvanceOne]
                            ELSE [out |-> IF Bit(n, k - 1) = 1
                                          THEN Mul(f[k - 1].base, f[k - 1].out)
                                          ELSE f[k - 1].out,
                                  base |-> Mul(f[k - 1].base, f[k - 1].base)]]
           h == [k \in 0 .. n |-> [out |-> MatrixOf(Past(n % 2^k)), base |-> MatrixOf(Past(2^k))]]
           turn == CHOOSE f : Eq(f)
<1>1. h[0] = [out |-> Identity, base |-> AdvanceOne]
  <2>1. 2^0 = 1 /\ n % 1 = 0 /\ 0 \in 0 .. n
    OBVIOUS
  <2>2. Identity = MatrixOf(Past(0))
    BY TabulatedIsSame, SingleBits, PastFacts DEF Identity, MatrixOf
  <2>3. AdvanceOne = MatrixOf(Past(1))
    <3>1. \A x \in Words : Past(0)[x] = x /\ Past(0 + 1)[x] = Advanced[Past(0)[x]]
      BY PastFacts
    <3>2. \A x \in Words : Past(1)[x] = Advanced[x]
      BY <3>1
    <3>3. \A i \in 0 .. Width - 1 : Past(1)[{i}] = CrcStep({i}, {})
      BY <3>2, SingleBits DEF Advanced
    <3> QED
      BY <3>3, TabulatedIsSame DEF AdvanceOne, MatrixOf
  <2> QED
    BY <2>1, <2>2, <2>3
<1>2. ASSUME NEW k \in 1 .. n PROVE h[k] = next(k, h[k - 1])
  <2> DEFINE j == k - 1
             p == 2^j
             d == n % p
             b == Bit(n, j)
  <2>1. j \in Nat /\ k = j + 1 /\ k \in 0 .. n /\ j \in 0 .. n
    OBVIOUS
  <2> HIDE DEF j
  <2>2. p \in Nat \ {0} /\ 2^k = 2 * p
    BY <2>1, NextPower
  <2>3. n % (2 * p) = d + p * b /\ b \in {0, 1} /\ d \in Nat
    <3>1. b = (n \div p) % 2
      BY DEF Bit
    <3> HIDE DEF b, p
    <3>2. n % (2 * p) = (n % p) + p * ((n \div p) % 2)
      BY <2>2, Halving
    <3> QED
      BY <2>2, <3>1, <3>2
  <2>4. h[j] = [out |-> MatrixOf(Past(d)), base |-> MatrixOf(Past(p))]
    BY <2>1
  <2>5. h[k] = [out |-> MatrixOf(Past(d + p * b)), base |-> MatrixOf(Past(2 * p))]
    BY <2>1, <2>2, <2>3
  <2> HIDE DEF h, p, d, b
  <2>6. Mul(MatrixOf(Past(p)), MatrixOf(Past(p))) = MatrixOf(Past(2 * p))
    <3>1. 2 * p = p + p
      BY <2>2
    <3> QED
      BY <2>2, <3>1, PastComposed
  <2>7. (IF b = 1 THEN Mul(MatrixOf(Past(p)), MatrixOf(Past(d))) ELSE MatrixOf(Past(d)))
            = MatrixOf(Past(d + p * b))
    <3>1. CASE b = 1
      <4>1. d + p * b = p + d
        BY <2>2, <2>3, <3>1
      <4> QED
        BY <2>2, <2>3, <3>1, <4>1, PastComposed
    <3>2. CASE b = 0
      <4>1. d + p * b = d
        BY <2>2, <2>3, <3>2
      <4> QED
        BY <3>2, <4>1
    <3> QED
      BY <2>3, <3>1, <3>2
  <2>8. h[k] = [out |-> IF b = 1 THEN Mul(h[j].base, h[j].out) ELSE h[j].out,
                base |-> Mul(h[j].base, h[j].base)]
    BY <2>4, <2>5, <2>6, <2>7
  <2> QED
    BY <2>8 DEF b, j
<1>3. Eq(h)
  <2>1. h = [k \in 0 .. n |-> h[k]]
    OBVIOUS
  <2>2. \A k \in 0 .. n : k = 0 \/ k \in 1 .. n
    OBVIOUS
  <2> HIDE DEF h
  <2>3. \A k \in 0 .. n : h[k] = IF k = 0 THEN [out |-> Identity, base |-> AdvanceOne]
                                 ELSE next(k, h[k - 1])
    BY <1>1, <1>2, <2>2
  <2> QED
    BY <2>1, <2>3
<1>4. Eq(turn)
  <2> HIDE DEF Eq, h
  <2> QED
    BY <1>3
<1>5. AdvanceBy(n) = turn[n].out
  BY DEF AdvanceBy
<1> HIDE DEF turn, h
<1>6. turn[0] = [out |-> Identity, base |-> AdvanceOne]
      /\ \A k \in 1 .. n : turn[k] = next(k, turn[k - 1])
  <2>1. 0 \in 0 .. n /\ \A k \in 1 .. n : k \in 0 .. n /\ k # 0
    OBVIOUS
  <2>2. \A k \in 0 .. n : turn[k] = IF k = 0 THEN [out |-> Identity, base |-> AdvanceOne]
                                    ELSE next(k, turn[k - 1])
    BY <1>4
  <2> QED
    BY <2>1, <2>2
<1> HIDE DEF Eq, next
<1>7. turn[n] = h[n]
  <2>1. turn[0] = h[0]
    BY <1>1, <1>6
  <2>2. \A k \in 1 .. n : turn[k - 1] = h[k - 1] => turn[k] = h[k]
    BY <1>2, <1>6
  <2> QED
    BY <2>1, <2>2, GoOnAlike
<1>8. n % 2^n = n
  <2>1. n < 2^n /\ 2^n \in Nat \ {0}
    BY PowerIsLarger, NextPower
  <2> QED
    BY <2>1
<1>9. h[n].out = MatrixOf(Past(n))
  BY <1>8 DEF h
<1> QED
  BY <1>5, <1>7, <1>9

LEMMA WindowTableIs ==
    ASSUME NEW n \in Nat
    PROVE  /\ \A b \in Bytes : WindowTable(n)[b] = Past(n)[CrcTable[b]]
           /\ MaskOf(n) = Xor(Past(n)[Ones], Ones)
<1>1. Past(n) \in Linear /\ AdvanceBy(n) = MatrixOf(Past(n))
  BY PastFacts, AdvanceByIs
<1>2. \A x \in Words : Apply(AdvanceBy(n), x) = Past(n)[x]
  BY <1>1, ApplyIs
<1>3. Ones \in Words /\ \A b \in Bytes : CrcTable[b] \in Words
  BY TableFacts DEF Ones, Words
<1> QED
  BY <1>2, <1>3, TabulatedIsSame DEF WindowTable, MaskOf

-----------------------------------------------------------------------------
(* The register over a stream of bytes. *)

\* The register after the bytes from o on, started from zero.
Registers(s, o) ==
    CHOOSE g : DefinedBy(Words, {}, [p \in Nat \X Words |-> CrcStep(p[2], s[o + p[1] - 1])], g)
Register(s, o, k) == Registers(s, o)[k]

LEMMA RegisterFacts ==
    ASSUME NEW s \in [Nat -> Bytes], NEW o \in Nat
    PROVE  /\ Register(s, o, 0) = {}
           /\ \A k \in Nat : /\ Register(s, o, k) \in Words
                             /\ Register(s, o, k + 1) = CrcStep(Register(s, o, k), s[o + k])
<1> DEFINE F == [p \in Nat \X Words |-> CrcStep(p[2], s[o + p[1] - 1])]
           B == [p \in Nat \X Words |-> IF p[1] = 0 THEN {} ELSE F[p]]
           g == Registers(s, o)
<1>1. \A k \in Nat \ {0}, x \in Words : o + k - 1 \in Nat /\ CrcStep(x, s[o + k - 1]) \in Words
  BY StepFacts
<1>2. {} \in Words /\ B \in StepOn(Words)
  <2>1. {} \in Words
    BY DEF Words
  <2>2. ASSUME NEW p \in Nat \X Words PROVE (IF p[1] = 0 THEN {} ELSE F[p]) \in Words
    BY <1>1, <2>1
  <2> QED
    BY <2>1, <2>2 DEF StepOn
<1>3. \A k \in Nat \ {0}, x \in Words : B[<<k, x>>] = F[<<k, x>>] /\ F[<<k, x>>] = CrcStep(x, s[o + k - 1])
  OBVIOUS
<1> HIDE DEF F, B
<1>4. PICK h : DefinedBy(Words, {}, B, h)
  BY <1>2, Recursion
<1>5. DefinedBy(Words, {}, F, h)
  BY <1>3, <1>4 DEF DefinedBy
<1>6. DefinedBy(Words, {}, F, g)
  BY <1>5 DEF Registers, F
<1> HIDE DEF g
<1>7. g[0] = {} /\ \A k \in Nat : g[k] \in Words
  BY <1>6 DEF DefinedBy
<1>8. ASSUME NEW k \in Nat PROVE g[k + 1] = CrcStep(g[k], s[o + k])
  <2>1. k + 1 \in Nat \ {0} /\ (k + 1) - 1 = k /\ o + (k + 1) - 1 = o + k
    OBVIOUS
  <2>2. g[k + 1] = F[<<k + 1, g[k]>>] /\ g[k] \in Words
    BY <1>6, <2>1 DEF DefinedBy
  <2> QED
    BY <1>3, <2>1, <2>2
<1> QED
  BY <1>7, <1>8 DEF g, Register

\* The first byte is what it leaves in the register, moved on to the end.
LEMMA FirstByte ==
    ASSUME NEW s \in [Nat -> Bytes], NEW o \in Nat
    PROVE  \A k \in Nat : Register(s, o, k + 1) = Xor(Past(k)[CrcTable[s[o]]], Register(s, o + 1, k))
<1> DEFINE T == CrcTable[s[o]]
           P == { k \in Nat : Register(s, o, k + 1) = Xor(Past(k)[T], Register(s, o + 1, k)) }
<1>1. T \in Words /\ o + 1 \in Nat
  BY TableFacts
<1>2. 0 \in P
  <2>1. Register(s, o, 0 + 1) = CrcStep({}, s[o])
    <3>1. Register(s, o, 0 + 1) = CrcStep(Register(s, o, 0), s[o + 0]) /\ Register(s, o, 0) = {}
      BY RegisterFacts
    <3>2. o + 0 = o
      OBVIOUS
    <3> QED
      BY <3>1, <3>2
  <2>2. {} \in Words /\ Advanced[{}] = {}
    BY LinearOfZero, StepFacts
  <2>3. CrcStep({}, s[o]) = Xor(Advanced[{}], T)
    BY <2>2, StepFacts
  <2>4. Past(0)[T] = T /\ Register(s, o + 1, 0) = {}
    BY <1>1, PastFacts, RegisterFacts
  <2>5. Register(s, o, 0 + 1) = Xor(Past(0)[T], Register(s, o + 1, 0))
    <3> HIDE DEF T
    <3>1. Xor({}, T) = T /\ Xor(T, {}) = T
      BY XorFacts
    <3> QED
      BY <2>1, <2>2, <2>3, <2>4, <3>1
  <2> QED
    BY <2>5
<1>3. ASSUME NEW k \in Nat, k \in P PROVE k + 1 \in P
  <2> DEFINE u == Past(k)[T]
             v == Register(s, o + 1, k)
             c == s[o + 1 + k]
  <2>1. u \in Words /\ v \in Words /\ c \in Bytes
    <3>1. u \in Words
      BY <1>1, PastFacts
    <3>2. v \in Words
      <4>1. \A j \in Nat : Register(s, o + 1, j) \in Words
        BY <1>1, RegisterFacts, Zenon
      <4> QED
        BY <4>1
    <3>3. o + 1 + k \in Nat
      OBVIOUS
    <3> QED
      BY <3>1, <3>2, <3>3
  <2>2. Register(s, o, (k + 1) + 1) = CrcStep(Register(s, o, k + 1), c)
    <3>1. o + (k + 1) = o + 1 + k /\ k + 1 \in Nat
      OBVIOUS
    <3> QED
      BY <3>1, RegisterFacts
  <2>3. Register(s, o, k + 1) = Xor(u, v)
    BY <1>3
  <2>4. Register(s, o + 1, k + 1) = CrcStep(v, c)
    BY <1>1, RegisterFacts
  <2>5. Past(k + 1)[T] = Advanced[u]
    BY <1>1, PastFacts
  <2> HIDE DEF u, v, c, T
  <2>6. Advanced[Xor(u, v)] = Xor(Advanced[u], Advanced[v])
    BY <2>1, StepFacts DEF Linear
  <2>7. CrcStep(Xor(u, v), c) = Xor(Advanced[Xor(u, v)], CrcTable[c]) /\ CrcStep(v, c) = Xor(Advanced[v], CrcTable[c])
    BY <2>1, XorIsWord, StepFacts
  <2>8. CrcStep(Xor(u, v), c) = Xor(Advanced[u], CrcStep(v, c))
    BY <2>6, <2>7, XorFacts
  <2> QED
    BY <2>2, <2>3, <2>4, <2>5, <2>8
<1> HIDE DEF P
<1> QED
  BY <1>2, <1>3, NatSetInduction DEF P

\* The checksum of a block is its register from zero and what becomes of the ones.
LEMMA CrcIs ==
    ASSUME NEW s \in [Nat -> Bytes], NEW o \in Nat, NEW n \in Nat
    PROVE  Crc([k \in 1 .. n |-> s[o + k - 1]]) = Xor(Register(s, o, n), MaskOf(n))
<1> DEFINE block == [k \in 1 .. n |-> s[o + k - 1]]
           h == [k \in 0 .. n |-> Xor(Past(k)[Ones], Register(s, o, k))]
           Eq(f) == f = [k \in 0 .. n |-> IF k = 0 THEN Ones ELSE CrcStep(f[k - 1], block[k])]
           register == CHOOSE f : Eq(f)
<1>0. Ones \in Words /\ \A k \in 0 .. n : k \in Nat /\ Past(k)[Ones] \in Words
  <2>1. Ones \in Words
    BY DEF Ones, Words
  <2> QED
    BY <2>1, PastFacts
<1>1. h[0] = Ones
  <2>1. h[0] = Xor(Past(0)[Ones], Register(s, o, 0))
    OBVIOUS
  <2>2. Past(0)[Ones] = Ones /\ Register(s, o, 0) = {}
    BY <1>0, PastFacts, RegisterFacts
  <2> HIDE DEF h
  <2> QED
    BY <2>1, <2>2, XorFacts
<1>2. ASSUME NEW k \in 1 .. n PROVE h[k] = CrcStep(h[k - 1], block[k])
  <2> DEFINE j == k - 1
             u == Past(j)[Ones]
             v == Register(s, o, j)
             c == s[o + j]
  <2>1. j \in 0 .. n /\ j \in Nat /\ k = j + 1 /\ o + k - 1 = o + j /\ o + j \in Nat /\ k \in 0 .. n
    OBVIOUS
  <2>2. block[k] = c
    BY <2>1
  <2> HIDE DEF j
  <2>3. u \in Words /\ v \in Words /\ c \in Bytes
    BY <1>0, <2>1, RegisterFacts
  <2>4. h[j] = Xor(u, v) /\ h[k] = Xor(Advanced[u], CrcStep(v, c))
    <3>1. Past(j + 1)[Ones] = Advanced[u] /\ Register(s, o, j + 1) = CrcStep(v, c)
      BY <1>0, <2>1, PastFacts, RegisterFacts
    <3> QED
      BY <2>1, <3>1
  <2> HIDE DEF h, u, v, c, block
  <2>5. Advanced[Xor(u, v)] = Xor(Advanced[u], Advanced[v])
    BY <2>3, StepFacts DEF Linear
  <2>6. CrcStep(Xor(u, v), c) = Xor(Advanced[Xor(u, v)], CrcTable[c]) /\ CrcStep(v, c) = Xor(Advanced[v], CrcTable[c])
    BY <2>3, XorIsWord, StepFacts
  <2>7. CrcStep(Xor(u, v), c) = Xor(Advanced[u], CrcStep(v, c))
    BY <2>5, <2>6, XorFacts
  <2> QED
    BY <2>2, <2>4, <2>7 DEF j
<1>3. Eq(h)
  <2>1. h = [k \in 0 .. n |-> h[k]]
    OBVIOUS
  <2>2. \A k \in 0 .. n : k = 0 \/ k \in 1 .. n
    OBVIOUS
  <2> HIDE DEF h, block
  <2>3. \A k \in 0 .. n : h[k] = IF k = 0 THEN Ones ELSE CrcStep(h[k - 1], block[k])
    BY <1>1, <1>2, <2>2
  <2> QED
    BY <2>1, <2>3
<1>4. Eq(register)
  <2> HIDE DEF Eq, h
  <2> QED
    BY <1>3
<1>5. Len(block) = n
  BY DEF block
<1>6. Crc(block) = Xor(register[n], Ones)
  <2>1. Crc(block) = LET r[k \in 0 .. Len(block)] == IF k = 0 THEN Ones ELSE CrcStep(r[k - 1], block[k])
                     IN  Xor(r[Len(block)], Ones)
    BY DEF Crc
  <2> QED
    BY <1>5, <2>1
<1> HIDE DEF register, h, block
<1>7. register[0] = Ones /\ \A k \in 1 .. n : register[k] = CrcStep(register[k - 1], block[k])
  <2>1. 0 \in 0 .. n /\ \A k \in 1 .. n : k \in 0 .. n /\ k # 0
    OBVIOUS
  <2>2. \A k \in 0 .. n : register[k] = IF k = 0 THEN Ones ELSE CrcStep(register[k - 1], block[k])
    BY <1>4
  <2> QED
    BY <2>1, <2>2
<1> HIDE DEF Eq
<1>8. register[n] = h[n]
  <2>1. register[0] = h[0]
    BY <1>1, <1>7
  <2>2. \A k \in 1 .. n : register[k - 1] = h[k - 1] => register[k] = h[k]
    BY <1>2, <1>7
  <2> QED
    BY <2>1, <2>2, GoOnAlike
<1>9. h[n] = Xor(Past(n)[Ones], Register(s, o, n))
  BY DEF h
<1>10. MaskOf(n) = Xor(Past(n)[Ones], Ones)
  BY WindowTableIs
<1>11. \A p, q, r : Xor(Xor(p, q), r) = Xor(q, Xor(p, r))
  BY DEF Xor
<1> QED
  BY <1>6, <1>8, <1>9, <1>10, <1>11 DEF block

-----------------------------------------------------------------------------
(* Nothing is invented. *)

\* A set of natural numbers has a least one, and Min is it.
LEMMA MinIsMember ==
    ASSUME NEW S \in SUBSET Nat, S # {}
    PROVE  Min(S) \in S
<1>1. \E m \in S : \A k \in S : m <= k
  BY LeastOfNats
<1> QED
  BY <1>1 DEF Min

\* The slice a window is taken for has the content of the window.
LEMMA MatchIsRight ==
    ASSUME Matches
    PROVE  Slices[Match] = Window(base + at)
<1>1. Candidates \subseteq Nat
  BY ScanAssumption DEF ScanAssumption, Candidates
<1>2. Match \in Candidates
  BY <1>1, MinIsMember DEF Matches, Match
<1> QED
  BY <1>2 DEF Candidates

\* A slice that is added to what was found is where it is said to be.
LEMMA FoundStaysRight ==
    ASSUME FoundIsThere, content' = content, NEW s, NEW off,
           Window(off) = Slices[s], found' = Found(s, off) \/ found' = found
    PROVE  FoundIsThere'
<1>1. \A o : Window(o)' = Window(o)
  BY DEF Window, Byte
<1>2. CASE found' = Found(s, off)
  <2>1. DOMAIN found' = DOMAIN found \cup {s}
    BY <1>2 DEF Found
  <2>2. \A t \in DOMAIN found' : found'[t] = IF t = s THEN off ELSE found[t]
    BY <1>2 DEF Found
  <2>3. ASSUME NEW t \in DOMAIN found' PROVE Window(found'[t]) = Slices[t]
    BY <2>1, <2>2 DEF FoundIsThere
  <2> QED
    BY <1>1, <2>3 DEF FoundIsThere
<1>3. CASE found' = found
  BY <1>1, <1>3 DEF FoundIsThere
<1> QED
  BY <1>2, <1>3

LEMMA NextFound == FoundIsThere /\ [Next]_vars => FoundIsThere'
<1> SUFFICES ASSUME FoundIsThere, [Next]_vars PROVE FoundIsThere'
  OBVIOUS
<1>1. CASE AlignedHit
  BY <1>1, FoundStaysRight DEF AlignedHit
<1>2. CASE Recognise
  <2>1. Slices[Match] = Window(base + at) /\ content' = content
    BY <1>2, MatchIsRight DEF Recognise
  <2>2. found' = Found(Match, base + at) \/ found' = found
    BY <1>2 DEF Recognise
  <2> QED
    BY <2>1, <2>2, FoundStaysRight
<1>3. CASE ~AlignedHit /\ ~Recognise
  <2>1. content' = content /\ found' = found
    BY <1>3 DEF Next, Step, Finished, AlignedMiss, AlignedEnd, ReadChunk, StepOverKnown, Roll, vars
  <2>2. \A o : Window(o)' = Window(o)
    BY <2>1 DEF Window, Byte
  <2> QED
    BY <2>1, <2>2 DEF FoundIsThere
<1> QED
  BY <1>1, <1>2, <1>3

\* What is found is there: a slice is never recognised where another content
\* is, whatever the filter and the rolled checksum let through.
\* (scan.go:76-95, :194-222)
THEOREM NothingIsInvented == Spec => []FoundIsThere
<1>1. Init => FoundIsThere
  BY DEF Init, FoundIsThere
<1> QED
  BY <1>1, NextFound, PTL DEF Spec

-----------------------------------------------------------------------------
(* The rolled register is that of the window. *)

Stream == [o \in Nat |-> Byte(o)]

LEMMA StreamIsBytes ==
    ASSUME content \in Contents
    PROVE  /\ Len(content) \in Nat /\ Stream \in [Nat -> Bytes]
           /\ \A o \in Nat : Byte(o) = Stream[o] /\ Window(o) = [k \in 1 .. Size |-> Stream[o + k - 1]]
<1>1. content \in Seq(Bytes)
  BY ScanAssumption DEF ScanAssumption
<1>2. Len(content) \in Nat
  BY <1>1
<1>3. ASSUME NEW o \in Nat PROVE Byte(o) \in Bytes
  <2>1. o < Len(content) => o + 1 \in 1 .. Len(content)
    BY <1>2
  <2> QED
    BY <1>1, <2>1, TableIsLinear DEF Byte
<1>4. ASSUME NEW o \in Nat PROVE Window(o) = [k \in 1 .. Size |-> Stream[o + k - 1]]
  <2>1. \A k \in 1 .. Size : o + k - 1 \in Nat
    BY ScanAssumption DEF ScanAssumption
  <2> QED
    BY <2>1 DEF Window, Stream
<1> QED
  BY <1>2, <1>3, <1>4 DEF Stream

\* A register that is computed from the bytes of a window.
LEMMA RawIs ==
    ASSUME content \in Contents, NEW o \in Nat
    PROVE  /\ RawOf(o) = Register(Stream, o, Size)
           /\ Xor(Register(Stream, o, Size), Mask) = Crc(Window(o))
<1>1. Size \in Nat
  BY ScanAssumption DEF ScanAssumption
<1>2. Stream \in [Nat -> Bytes] /\ Window(o) = [k \in 1 .. Size |-> Stream[o + k - 1]]
  BY StreamIsBytes
<1>3. Crc(Window(o)) = Xor(Register(Stream, o, Size), MaskOf(Size))
  BY <1>1, <1>2, CrcIs
<1> QED
  BY <1>3, XorFacts DEF RawOf, Mask

\* A register that is rolled on by one byte.
LEMMA RolledIs ==
    ASSUME content \in Contents, base + at \in Nat, raw = Register(Stream, base + at, Size)
    PROVE  Rolled = Register(Stream, base + at + 1, Size)
<1> DEFINE o == base + at
           p == Past(Size)[CrcTable[Stream[o]]]
           r == Register(Stream, o + 1, Size)
<1>1. Size \in Nat /\ o \in Nat /\ o + Size \in Nat
  BY ScanAssumption DEF ScanAssumption
<1>2. Stream \in [Nat -> Bytes] /\ Byte(o) = Stream[o] /\ Byte(o + Size) = Stream[o + Size]
  BY <1>1, StreamIsBytes
<1>3. Rolled = Xor(CrcStep(raw, Stream[o + Size]), WindowTable(Size)[Stream[o]])
  <2>1. base + at + Size = o + Size
    OBVIOUS
  <2> QED
    BY <1>2, <2>1 DEF Rolled, Outgoing
<1> HIDE DEF o
<1>4. CrcStep(Register(Stream, o, Size), Stream[o + Size]) = Register(Stream, o, Size + 1)
  BY <1>1, <1>2, RegisterFacts
<1>5. Register(Stream, o, Size + 1) = Xor(p, r)
  BY <1>1, <1>2, FirstByte
<1>6. WindowTable(Size)[Stream[o]] = p
  BY <1>1, <1>2, WindowTableIs
<1> HIDE DEF p, r
<1>7. Xor(Xor(p, r), p) = r
  BY DEF Xor
<1>8. Rolled = r
  BY <1>3, <1>4, <1>5, <1>6, <1>7 DEF o
<1> QED
  BY <1>8 DEF r, o

-----------------------------------------------------------------------------
(* What the search has passed. *)

FoundAt(off) == \E s \in DOMAIN found : Slices[s] = Window(off)
Isolated(off) == \A q \in Hits : q # off => q + Size <= off \/ off + Size <= q

\* Offsets below this one have been looked at in the search with the window.
Passed == IF pc = "walk" THEN base + at ELSE base

(***************************************************************************)
(* The chunk is a part of the file, and the whole rest of it if it is not  *)
(* full; the window is in it, with its register.  What the first pass      *)
(* accepted is found, and so is everything as long as nothing differed;    *)
(* and no occurrence that stands apart has been passed without finding its *)
(* slice.                                                                  *)
(***************************************************************************)
ChunkInv ==
    pc = "walk" =>
        /\ got \in 1 .. Chunk /\ base + got <= Len(content)
        /\ got < Chunk => base + got = Len(content)
        /\ at \in Nat /\ at <= LastAt
        /\ raw = Register(Stream, base + at, Size)

ScanInv ==
    /\ content \in Contents
    /\ pc \in {"aligned", "read", "walk", "done"}
    /\ slice \in Nat \ {0} /\ base \in Nat
    /\ DOMAIN found \subseteq DOMAIN Slices
    /\ pc = "aligned" => base = 0
    /\ ChunkInv
    /\ \A off \in known : FoundAt(off)
    /\ pc = "aligned" /\ complete => \A s \in DOMAIN Slices : s < slice => s \in DOMAIN found
    /\ pc # "aligned" => \A off \in Hits : (pc = "done" \/ off < Passed) /\ Isolated(off) => FoundAt(off)

\* The last window of a chunk is in the file, and what follows it is the next chunk's.
LEMMA LastWindow ==
    ASSUME ScanInv, pc = "walk"
    PROVE  /\ Size \in Nat \ {0} /\ Len(content) \in Nat /\ at \in Nat /\ base + at \in Nat
           /\ LastAt \in Nat /\ at <= LastAt /\ base + LastAt < Len(content)
           /\ LastChunk => base + LastAt = Len(content) - 1
           /\ ~LastChunk => NextBase = base + LastAt + 1
<1>1. Size \in Nat \ {0} /\ Chunk \in Nat /\ Chunk >= 4 * Size
  BY ScanAssumption DEF ScanAssumption
<1>2. Len(content) \in Nat
  BY StreamIsBytes DEF ScanInv
<1>3. base \in Nat /\ got \in 1 .. Chunk /\ base + got <= Len(content)
      /\ (got < Chunk => base + got = Len(content)) /\ at \in Nat /\ at <= LastAt
  BY DEF ScanInv, ChunkInv
<1> QED
  BY <1>1, <1>2, <1>3 DEF LastAt, LastChunk, NextBase

\* The window moves on, or the chunk is finished: nothing is left out.
LEMMA Moved ==
    ASSUME ScanInv, pc = "walk", UNCHANGED <<content, got>>,
           NEW i \in Nat, i > at, NEW r, MoveTo(i, r),
           i <= LastAt => r = Register(Stream, base + i, Size)
    PROVE  /\ ChunkInv' /\ base' \in Nat /\ pc' \in {"read", "walk", "done"}
           /\ \A off \in Hits : (pc' = "done" \/ off < Passed') => off < base + i
<1> DEFINE last == LastAt  len == Len(content)
<1>1. /\ len \in Nat /\ at \in Nat /\ base \in Nat /\ last \in Nat /\ at <= last
      /\ LastChunk => base + last = len - 1
      /\ ~LastChunk => NextBase = base + last + 1
  BY LastWindow DEF ScanInv
<1>2. /\ got \in 1 .. Chunk /\ base + got <= len /\ (got < Chunk => base + got = len)
  BY DEF ScanInv, ChunkInv
<1>3. Stream' = Stream /\ LastAt' = last /\ Len(content') = len
  BY DEF Stream, Byte, LastAt, LastChunk
<1>4. \A off \in Hits : off \in Nat /\ off <= len - 1
  BY <1>1 DEF Hits
<1> HIDE DEF last, len
<1>5. CASE i <= LastAt
  <2>1. at' = i /\ raw' = r /\ pc' = "walk" /\ base' = base
    BY <1>5 DEF MoveTo
  <2>2. i <= last
    BY <1>5 DEF last
  <2>3. raw' = Register(Stream, base' + at', Size)
    BY <1>5, <2>1
  <2>4. ChunkInv'
    BY <1>2, <1>3, <2>1, <2>2, <2>3 DEF ChunkInv, len
  <2>5. \A off \in Hits : (pc' = "done" \/ off < Passed') => off < base + i
    BY <2>1 DEF Passed
  <2> QED
    BY <1>1, <2>1, <2>4, <2>5
<1>6. CASE ~(i <= LastAt)
  <2>1. pc' = (IF LastChunk THEN "done" ELSE "read") /\ base' = (IF LastChunk THEN base ELSE NextBase)
    BY <1>6 DEF MoveTo
  <2>2. last < i
    BY <1>1, <1>6 DEF last
  <2>3. ChunkInv'
    BY <2>1 DEF ChunkInv
  <2>4. ASSUME NEW off \in Hits, pc' = "done" \/ off < Passed' PROVE off < base + i
    <3>1. off \in Nat /\ off <= len - 1
      BY <1>4
    <3>2. CASE LastChunk
      BY <1>1, <2>2, <3>1, <3>2
    <3>3. CASE ~LastChunk
      <4>1. Passed' = base + last + 1 /\ off < Passed'
        BY <1>1, <2>1, <2>4, <3>3 DEF Passed
      <4> QED
        BY <1>1, <2>2, <3>1, <4>1
    <3> QED
      BY <3>2, <3>3
  <2> QED
    BY <1>1, <2>1, <2>3, <2>4
<1> QED
  BY <1>5, <1>6

LEMMA SameFile ==
    ASSUME content' = content
    PROVE  /\ \A off : Window(off)' = Window(off) /\ (Isolated(off))' = Isolated(off)
           /\ Hits' = Hits
<1>1. \A off : Window(off)' = Window(off)
  BY DEF Window, Byte
<1>2. Hits' = Hits
  BY <1>1 DEF Hits
<1> QED
  BY <1>1, <1>2 DEF Isolated

\* What was found stays found.
LEMMA StaysFound ==
    ASSUME content' = content, DOMAIN found \subseteq DOMAIN found', NEW off, FoundAt(off)
    PROVE  (FoundAt(off))'
  BY SameFile DEF FoundAt

\* After a window that equals a slice the search goes on behind it.
LEMMA SkipInv ==
    ASSUME NEW o, o = base + at,
           ScanInv, pc = "walk", Skip, UNCHANGED <<content, got, slice, complete, known>>,
           DOMAIN found \subseteq DOMAIN found', DOMAIN found' \subseteq DOMAIN Slices,
           Window(o) \in SliceContents, (FoundAt(o))'
    PROVE  ScanInv'
<1>1. Size \in Nat \ {0} /\ at \in Nat /\ base \in Nat /\ o \in Nat /\ o < Len(content) /\ Len(content) \in Nat
  <2>1. at <= LastAt /\ LastAt \in Nat /\ base + LastAt < Len(content) /\ at \in Nat /\ base \in Nat
        /\ Len(content) \in Nat /\ Size \in Nat \ {0}
    BY LastWindow DEF ScanInv
  <2> QED
    BY <2>1
<1>2. o \in Hits
  BY <1>1 DEF Hits
<1>3. RawOf(base + at + Size) = Register(Stream, base + (at + Size), Size)
  <2>1. base + at + Size = base + (at + Size) /\ base + at + Size \in Nat
    BY <1>1
  <2> QED
    BY <2>1, RawIs DEF ScanInv
<1>4. /\ ChunkInv' /\ base' \in Nat /\ pc' \in {"read", "walk", "done"}
      /\ \A off \in Hits : (pc' = "done" \/ off < Passed') => off < base + (at + Size)
  <2>1. MoveTo(at + Size, RawOf(base + at + Size)) /\ at + Size \in Nat /\ at + Size > at
    BY <1>1 DEF Skip
  <2> QED
    BY <1>3, <2>1, Moved
<1>5. ASSUME NEW off \in Hits, pc' = "done" \/ off < Passed', Isolated(off)
      PROVE  (FoundAt(off))'
  <2>1. off < o + Size /\ off \in Nat
    <3>1. off \in Nat
      BY <1>1 DEF Hits
    <3> QED
      BY <1>1, <1>4, <1>5, <3>1
  <2>2. CASE off < o
    <3>1. FoundAt(off)
      BY <1>5, <2>2 DEF ScanInv, Passed
    <3> QED
      BY <3>1, StaysFound
  <2>3. CASE off = o
    BY <2>3
  <2>4. CASE off > o
    <3>1. o + Size <= off \/ off + Size <= o
      BY <1>1, <1>2, <1>5, <2>4 DEF Isolated
    <3> QED
      BY <1>1, <2>1, <2>4, <3>1
  <2> QED
    BY <1>1, <2>1, <2>2, <2>3, <2>4
<1>6. \A off \in known : (FoundAt(off))'
  BY StaysFound DEF ScanInv
<1>7. \A off \in Hits' : (pc' = "done" \/ off < Passed') /\ (Isolated(off))' => (FoundAt(off))'
  BY <1>5, SameFile
<1>8. content' \in Contents /\ slice' \in Nat \ {0} /\ pc' # "aligned"
  BY <1>4 DEF ScanInv
<1> QED
  BY <1>4, <1>6, <1>7, <1>8 DEF ScanInv

LEMMA StepOverKnownInv == ASSUME ScanInv, StepOverKnown PROVE ScanInv'
<1> SUFFICES ASSUME NEW o, o = base + at PROVE ScanInv'
  OBVIOUS
<1>1. /\ pc = "walk" /\ Skip /\ UNCHANGED <<content, got, slice, complete, known, found>>
      /\ o \in known
  BY DEF StepOverKnown
<1>2. FoundAt(o)
  BY <1>1 DEF ScanInv
<1>3. (FoundAt(o))'
  BY <1>1, <1>2, StaysFound
<1>4. Window(o) \in SliceContents /\ DOMAIN found \subseteq DOMAIN Slices
  BY <1>2 DEF FoundAt, SliceContents, ScanInv
<1> QED
  BY <1>1, <1>3, <1>4, SkipInv

\* A slice that is added, or found already, is found where its content is.
LEMMA AddedIsFound ==
    ASSUME NEW s \in DOMAIN Slices, NEW o, NEW at0, Slices[s] = Window(o), content' = content,
           DOMAIN found \subseteq DOMAIN Slices,
           found' = (IF s \in DOMAIN found THEN found ELSE Found(s, at0)) \/ found' = Found(s, at0)
    PROVE  /\ DOMAIN found \subseteq DOMAIN found' /\ DOMAIN found' \subseteq DOMAIN Slices
           /\ s \in DOMAIN found' /\ (FoundAt(o))'
<1>1. DOMAIN Found(s, at0) = DOMAIN found \cup {s}
  BY DEF Found
<1>2. DOMAIN found' = DOMAIN found \cup {s}
  BY <1>1
<1>3. Window(o)' = Window(o)
  BY SameFile
<1> QED
  BY <1>2, <1>3 DEF FoundAt

LEMMA RecogniseInv == ASSUME ScanInv, Recognise PROVE ScanInv'
<1> SUFFICES ASSUME NEW o, o = base + at PROVE ScanInv'
  OBVIOUS
<1>1. /\ pc = "walk" /\ Matches /\ Skip /\ UNCHANGED <<content, got, slice, complete, known>>
      /\ found' = IF Match \in DOMAIN found THEN found ELSE Found(Match, o)
  BY DEF Recognise
<1>2. Match \in DOMAIN Slices /\ Slices[Match] = Window(o)
  <2>1. Candidates \subseteq Nat
    BY ScanAssumption DEF ScanAssumption, Candidates
  <2>2. Match \in Candidates
    BY <1>1, <2>1, MinIsMember DEF Matches, Match
  <2> QED
    BY <2>2 DEF Candidates
<1>3. PICK s \in DOMAIN Slices : s = Match
  BY <1>2
<1>4. /\ DOMAIN found \subseteq DOMAIN found' /\ DOMAIN found' \subseteq DOMAIN Slices
      /\ (FoundAt(o))'
  BY <1>1, <1>2, <1>3, AddedIsFound DEF ScanInv
<1>5. Window(o) \in SliceContents
  BY <1>2 DEF SliceContents
<1> QED
  BY <1>1, <1>4, <1>5, SkipInv

\* Where a slice is, the checksum of the window passes the filter and the slice is a candidate.
LEMMA NothingHidden ==
    ASSUME ScanInv, pc = "walk", Window(base + at) \in SliceContents
    PROVE  Plausible /\ Matches
<1>1. base + at \in Nat
  BY LastWindow
<1>2. raw = Register(Stream, base + at, Size)
  BY DEF ScanInv, ChunkInv
<1>3. WindowCrc = Crc(Window(base + at))
  BY <1>1, <1>2, RawIs DEF WindowCrc, ScanInv
<1>4. PICK s \in DOMAIN Slices : Slices[s] = Window(base + at)
  BY DEF SliceContents
<1>5. SliceCrc[s] = Crc(Slices[s])
  BY TabulatedIsSame DEF SliceCrc
<1>6. SliceCrc[s] = WindowCrc
  BY <1>3, <1>4, <1>5
<1>7. s \in Candidates
  BY <1>4, <1>6 DEF Candidates
<1> QED
  BY <1>6, <1>7 DEF Plausible, Filter, Matches

LEMMA RollInv == ASSUME ScanInv, Roll PROVE ScanInv'
<1> SUFFICES ASSUME NEW o, o = base + at PROVE ScanInv'
  OBVIOUS
<1>1. /\ pc = "walk" /\ Unrecognised /\ MoveTo(at + 1, Rolled)
      /\ UNCHANGED <<content, got, slice, complete, known, found>>
  BY DEF Roll
<1>2. at \in Nat /\ base \in Nat /\ o \in Nat
  BY <1>1, LastWindow DEF ScanInv
<1>3. Rolled = Register(Stream, base + (at + 1), Size)
  <2>1. raw = Register(Stream, base + at, Size) /\ content \in Contents
    BY <1>1 DEF ScanInv, ChunkInv
  <2>2. base + (at + 1) = base + at + 1 /\ base + at \in Nat
    BY <1>2
  <2> QED
    BY <2>1, <2>2, RolledIs
<1>4. /\ ChunkInv' /\ base' \in Nat /\ pc' \in {"read", "walk", "done"}
      /\ \A off \in Hits : (pc' = "done" \/ off < Passed') => off < base + (at + 1)
  <2>1. at + 1 \in Nat /\ at + 1 > at
    BY <1>2
  <2> QED
    BY <1>1, <1>3, <2>1, Moved
<1>5. ASSUME NEW off \in Hits, pc' = "done" \/ off < Passed', Isolated(off)
      PROVE  (FoundAt(off))'
  <2>1. off \in Nat /\ off < o + 1
    <3>1. Len(content) \in Nat
      BY StreamIsBytes DEF ScanInv
    <3>2. off \in Nat
      BY <3>1 DEF Hits
    <3> QED
      BY <1>2, <1>4, <1>5, <3>2
  <2>2. FoundAt(off)
    <3>1. CASE off < o
      BY <1>1, <1>5, <3>1 DEF ScanInv, Passed
    <3>2. CASE off = o
      <4>1. Window(o) \in SliceContents
        BY <3>2 DEF Hits
      <4>2. base + at \in known
        BY <1>1, <4>1, NothingHidden DEF Unrecognised
      <4> QED
        BY <3>2, <4>2 DEF ScanInv
    <3> QED
      BY <1>2, <2>1, <3>1, <3>2
  <2> QED
    BY <1>1, <2>2, StaysFound
<1>6. \A off \in known : (FoundAt(off))'
  BY <1>1, StaysFound DEF ScanInv
<1>7. \A off \in Hits' : (pc' = "done" \/ off < Passed') /\ (Isolated(off))' => (FoundAt(off))'
  BY <1>1, <1>5, SameFile
<1>8. /\ content' \in Contents /\ slice' \in Nat \ {0} /\ pc' # "aligned"
      /\ DOMAIN found' \subseteq DOMAIN Slices
  BY <1>1, <1>4 DEF ScanInv
<1> QED
  BY <1>1, <1>4, <1>6, <1>7, <1>8 DEF ScanInv

LEMMA AlignedHitInv == ASSUME ScanInv, AlignedHit PROVE ScanInv'
<1> SUFFICES ASSUME NEW s, s = slice, NEW o, o = Offset(s) PROVE ScanInv'
  OBVIOUS
<1>1. /\ pc = "aligned" /\ s <= Len(Slices) /\ Window(o) = Slices[s]
      /\ found' = Found(s, o) /\ known' = known \cup {o} /\ slice' = s + 1
      /\ UNCHANGED <<content, pc, complete, scanVars>>
  BY DEF AlignedHit
<1>2. /\ DOMAIN found \subseteq DOMAIN found' /\ DOMAIN found' \subseteq DOMAIN found \cup {s}
      /\ s \in DOMAIN found'
  BY <1>1 DEF Found
<1>3. content' = content /\ pc' = "aligned" /\ complete' = complete /\ base' = base
  BY <1>1 DEF scanVars
<1>4. (FoundAt(o))'
  BY <1>1, <1>2, <1>3, SameFile DEF FoundAt
<1>5. /\ s \in Nat \ {0} /\ DOMAIN found \subseteq DOMAIN Slices /\ content \in Contents /\ base = 0
      /\ \A off \in known : FoundAt(off)
      /\ complete => \A t \in DOMAIN Slices : t < s => t \in DOMAIN found
  BY <1>1 DEF ScanInv
<1>6. s \in DOMAIN Slices /\ DOMAIN Slices \subseteq Nat
  BY <1>1, <1>5, ScanAssumption DEF ScanAssumption
<1>7. \A off \in known' : (FoundAt(off))'
  BY <1>1, <1>2, <1>3, <1>4, <1>5, StaysFound
<1>8. complete' => \A t \in DOMAIN Slices : t < slice' => t \in DOMAIN found'
  <2>1. \A t \in DOMAIN Slices : t < s + 1 => t < s \/ t = s
    BY <1>5, <1>6
  <2> QED
    BY <1>1, <1>2, <1>3, <1>5, <2>1
<1>9. DOMAIN found' \subseteq DOMAIN Slices /\ slice' \in Nat \ {0}
  BY <1>1, <1>2, <1>5, <1>6
<1> QED
  BY <1>3, <1>5, <1>7, <1>8, <1>9 DEF ScanInv, ChunkInv

LEMMA AlignedMissInv == ASSUME ScanInv, AlignedMiss PROVE ScanInv'
<1>1. /\ pc = "aligned" /\ UNCHANGED <<content, pc, found, known>> /\ base' = base
      /\ complete' = FALSE /\ slice' \in {Len(Slices) + 1, slice + 1}
  BY DEF AlignedMiss, scanVars
<1>2. \A off \in known : (FoundAt(off))'
  BY <1>1, StaysFound DEF ScanInv
<1>3. slice' \in Nat \ {0}
  <2>1. Len(Slices) \in Nat /\ slice \in Nat
    BY ScanAssumption DEF ScanAssumption, ScanInv
  <2> QED
    BY <1>1, <2>1
<1> QED
  BY <1>1, <1>2, <1>3 DEF ScanInv, ChunkInv

\* The search ends after the first pass only if every slice was found.
LEMMA AlignedEndInv == ASSUME ScanInv, AlignedEnd PROVE ScanInv'
<1>1. /\ pc = "aligned" /\ slice > Len(Slices)
      /\ UNCHANGED <<content, slice, complete, found, known>> /\ base' = base
      /\ pc' = "read" \/ (pc' = "done" /\ (complete \/ DOMAIN found = DOMAIN Slices))
  BY DEF AlignedEnd, scanVars
<1>2. \A off \in known : (FoundAt(off))'
  BY <1>1, StaysFound DEF ScanInv
<1>3. ASSUME NEW off \in Hits, pc' = "done" PROVE (FoundAt(off))'
  <2>1. PICK s \in DOMAIN Slices : Slices[s] = Window(off)
    BY DEF Hits, SliceContents
  <2>2. s \in Nat /\ s <= Len(Slices) /\ Len(Slices) \in Nat /\ slice \in Nat
    BY ScanAssumption DEF ScanAssumption, ScanInv
  <2>3. s < slice
    BY <1>1, <2>2
  <2>4. s \in DOMAIN found
    BY <1>1, <1>3, <2>3 DEF ScanInv
  <2>5. FoundAt(off)
    BY <2>1, <2>4 DEF FoundAt
  <2> QED
    BY <1>1, <2>5, StaysFound
<1>4. pc' = "read" => \A off \in Hits : ~(off < Passed')
  <2>1. base' = 0 /\ Len(content) \in Nat
    BY <1>1, StreamIsBytes DEF ScanInv
  <2>2. \A off \in Hits : off \in Nat
    BY <2>1 DEF Hits
  <2> QED
    BY <2>1, <2>2 DEF Passed
<1>5. \A off \in Hits' : (pc' = "done" \/ off < Passed') /\ (Isolated(off))' => (FoundAt(off))'
  BY <1>1, <1>3, <1>4, SameFile
<1> QED
  BY <1>1, <1>2, <1>5 DEF ScanInv, ChunkInv

\* A chunk is read from where the last one was left.
LEMMA ReadChunkInv == ASSUME ScanInv, ReadChunk PROVE ScanInv'
<1> DEFINE len == Len(content)
<1>1. /\ pc = "read" /\ at' = 0 /\ raw' = RawOf(base)
      /\ got' = (IF base + Chunk <= len THEN Chunk ELSE IF base <= len THEN len - base ELSE 0)
      /\ pc' = (IF got' = 0 THEN "done" ELSE "walk")
      /\ UNCHANGED <<content, slice, complete, found, known, base>>
  BY DEF ReadChunk
<1>2. len \in Nat /\ base \in Nat /\ Size \in Nat \ {0} /\ Chunk \in Nat /\ Chunk >= 4 * Size
  BY StreamIsBytes, ScanAssumption DEF ScanAssumption, ScanInv
<1>3. Stream' = Stream
  BY <1>1 DEF Stream, Byte
<1>4. raw' = Register(Stream', base' + at', Size)
  <2>1. base + 0 = base
    BY <1>2
  <2> QED
    BY <1>1, <1>2, <1>3, <2>1, RawIs DEF ScanInv
<1>5. ChunkInv'
  <2> SUFFICES ASSUME pc' = "walk" PROVE ChunkInv'
    BY DEF ChunkInv
  <2>1. got' # 0 /\ len' = len /\ base' = base
    BY <1>1
  <2> HIDE DEF len
  <2>2. /\ got' \in 1 .. Chunk /\ base' + got' <= len
        /\ got' < Chunk => base' + got' = len
    BY <1>1, <1>2, <2>1
  <2>3. at' \in Nat /\ at' <= LastAt'
    BY <1>1, <1>2, <2>2 DEF LastAt, LastChunk
  <2> QED
    BY <1>4, <2>1, <2>2, <2>3 DEF ChunkInv, len
<1>6. \A off \in known : (FoundAt(off))'
  BY <1>1, StaysFound DEF ScanInv
<1>7. ASSUME NEW off \in Hits, pc' = "done" \/ off < Passed', Isolated(off)
      PROVE  (FoundAt(off))'
  <2>1. off \in Nat /\ off < len
    BY <1>2 DEF Hits
  <2> HIDE DEF len
  <2>2. off < base
    <3>1. CASE pc' = "done"
      <4>1. got' = 0
        BY <1>1, <3>1
      <4> QED
        BY <1>1, <1>2, <2>1, <4>1
    <3>2. CASE pc' # "done"
      <4>1. Passed' = base + 0
        BY <1>1, <3>2 DEF Passed
      <4> QED
        BY <1>2, <1>7, <2>1, <3>2, <4>1
    <3> QED
      BY <3>1, <3>2
  <2>3. FoundAt(off)
    BY <1>1, <1>7, <2>2 DEF ScanInv, Passed
  <2> QED
    BY <1>1, <2>3, StaysFound
<1>8. \A off \in Hits' : (pc' = "done" \/ off < Passed') /\ (Isolated(off))' => (FoundAt(off))'
  BY <1>1, <1>7, SameFile
<1>9. pc' \in {"walk", "done"}
  BY <1>1
<1> QED
  BY <1>1, <1>5, <1>6, <1>8, <1>9 DEF ScanInv

LEMMA StandStillInv == ASSUME ScanInv, UNCHANGED vars PROVE ScanInv'
<1>1. UNCHANGED <<content, pc, slice, complete, found, known, base, got, at, raw>>
  BY DEF vars
<1>2. Stream' = Stream /\ LastAt' = LastAt
  BY <1>1 DEF Stream, Byte, LastAt, LastChunk
<1>3. ChunkInv'
  BY <1>1, <1>2 DEF ScanInv, ChunkInv
<1>4. Hits' = Hits /\ Passed' = Passed /\ \A off : (Isolated(off))' = Isolated(off) /\ (FoundAt(off) => (FoundAt(off))')
  BY <1>1, SameFile, StaysFound DEF Passed
<1> QED
  BY <1>1, <1>3, <1>4 DEF ScanInv

LEMMA InitScanInv == Init => ScanInv
<1> SUFFICES ASSUME Init PROVE ScanInv
  OBVIOUS
<1>1. /\ content \in Contents /\ pc = "aligned" /\ slice = 1 /\ base = 0 /\ known = {}
      /\ DOMAIN found = {}
  BY DEF Init
<1>2. DOMAIN Slices \subseteq Nat \ {0}
  BY ScanAssumption DEF ScanAssumption
<1>3. \A s \in DOMAIN Slices : ~(s < slice)
  BY <1>1, <1>2
<1> QED
  BY <1>1, <1>3 DEF ScanInv, ChunkInv

LEMMA NextScanInv == ScanInv /\ [Next]_vars => ScanInv'
  BY AlignedHitInv, AlignedMissInv, AlignedEndInv, ReadChunkInv, StepOverKnownInv, RecogniseInv,
     RollInv, StandStillInv DEF Next, Step, Finished

LEMMA AlwaysScanInv == Spec => []ScanInv
  BY InitScanInv, NextScanInv, PTL DEF Spec

\* The checksum that is rolled on is that of the bytes of the window: through
\* every jump, across the chunks, for every polynomial and size of a window.
\* (rolling.go:13-110, scan.go:189-230)
THEOREM RolledIsChecksum == Spec => []RollingIsExact
<1>1. ScanInv => RollingIsExact
  <2> SUFFICES ASSUME ScanInv, pc = "walk" PROVE WindowCrc = Crc(Window(base + at))
    BY DEF RollingIsExact
  <2>1. base + at \in Nat /\ content \in Contents /\ raw = Register(Stream, base + at, Size)
    BY LastWindow DEF ScanInv, ChunkInv
  <2> QED
    BY <2>1, RawIs DEF WindowCrc
<1> QED
  BY <1>1, AlwaysScanInv, PTL

\* An occurrence of a slice that no other one overlaps is never missed: its
\* slice, or an equal one, is found when the search ends. (scan.go:76-230)
THEOREM NothingIsolatedIsMissed == Spec => []IsolatedHitFound
<1>1. ScanInv => IsolatedHitFound
  <2> SUFFICES ASSUME ScanInv, pc = "done", NEW off \in Hits, Isolated(off)
               PROVE  \E s \in DOMAIN found : Slices[s] = Window(off)
    BY DEF IsolatedHitFound, Isolated
  <2> QED
    BY DEF ScanInv, FoundAt
<1> QED
  BY <1>1, AlwaysScanInv, PTL

==============================================================================
