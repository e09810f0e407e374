---------------------------- MODULE PacketsProofs ----------------------------
(***************************************************************************)
(* Proofs about the packets of PAR2 files, for every set of files, stored  *)
(* in any way and damaged in any way: what survives is read, and the set   *)
(* that Parse returns is made of it.                                       *)
(***************************************************************************)
EXTENDS Par2Packets, Induction, SequenceTheorems

-----------------------------------------------------------------------------
(* Sequences that are put together. *)

\* What the first sequences are together.
IsParts(ss, g) ==
    /\ g = [k \in 0 .. Len(ss) |-> g[k]]
    /\ g[0] = << >>
    /\ \A k \in 1 .. Len(ss) : g[k] = g[k - 1] \o ss[k]
Parts(ss) == CHOOSE g : IsParts(ss, g)

LEMMA PartsFacts ==
    ASSUME NEW S, NEW ss \in Seq(Seq(S))
    PROVE  /\ Len(ss) \in Nat /\ IsParts(ss, Parts(ss))
           /\ \A k \in 0 .. Len(ss) : Parts(ss)[k] \in Seq(S)
           /\ FlattenSeq(ss) = Parts(ss)[Len(ss)]
<1> DEFINE n == Len(ss)
           F == [p \in Nat \X Seq(S) |-> IF p[1] \in 1 .. n THEN p[2] \o ss[p[1]] ELSE << >>]
<1>1. n \in Nat /\ \A k \in 1 .. n : ss[k] \in Seq(S)
  OBVIOUS
<1>2. << >> \in Seq(S)
  OBVIOUS
<1>3. F \in StepOn(Seq(S)) /\ \A k \in 1 .. n, s \in Seq(S) : F[<<k, s>>] = s \o ss[k]
  <2>1. ASSUME NEW p \in Nat \X Seq(S)
        PROVE  (IF p[1] \in 1 .. n THEN p[2] \o ss[p[1]] ELSE << >>) \in Seq(S)
    <3>1. p[1] \in Nat /\ p[2] \in Seq(S)
      OBVIOUS
    <3>2. CASE p[1] \in 1 .. n
      <4>1. ss[p[1]] \in Seq(S)
        BY <1>1, <3>2
      <4>2. p[2] \o ss[p[1]] \in Seq(S)
        BY <3>1, <4>1, ConcatProperties
      <4> QED
        BY <3>2, <4>2
    <3> QED
      BY <1>2, <3>2
  <2>2. F \in StepOn(Seq(S))
    BY <2>1 DEF StepOn
  <2>3. \A k \in 1 .. n, s \in Seq(S) : <<k, s>> \in Nat \X Seq(S)
    BY <1>1
  <2> QED
    BY <2>2, <2>3
<1> HIDE DEF F
<1>4. PICK h : DefinedBy(Seq(S), << >>, F, h)
  BY <1>2, <1>3, Recursion
<1> DEFINE g == [k \in 0 .. n |-> h[k]]
<1>5. IsParts(ss, g)
  <2>1. h[0] = << >> /\ \A k \in Nat \ {0} : h[k - 1] \in Seq(S) /\ h[k] = F[<<k, h[k - 1]>>]
    BY <1>4 DEF DefinedBy
  <2>2. ASSUME NEW k \in 1 .. n PROVE g[k] = g[k - 1] \o ss[k]
    <3>1. k \in Nat \ {0} /\ k \in 0 .. n /\ k - 1 \in 0 .. n
      BY <1>1
    <3>2. h[k] = h[k - 1] \o ss[k]
      BY <1>3, <2>1, <3>1
    <3> QED
      BY <3>1, <3>2
  <2>3. g[0] = << >> /\ g = [k \in 0 .. n |-> g[k]]
    BY <1>1, <2>1
  <2> HIDE DEF g
  <2> QED
    BY <2>2, <2>3 DEF IsParts
<1> HIDE DEF g
<1>6. IsParts(ss, Parts(ss))
  BY <1>5 DEF Parts
<1> DEFINE p == Parts(ss)
<1> HIDE DEF p
<1>7. p[0] = << >> /\ \A k \in 1 .. n : p[k] = p[k - 1] \o ss[k]
  BY <1>6 DEF IsParts, p
<1>8. \A k \in 0 .. n : p[k] \in Seq(S)
  <2> DEFINE P == { k \in Nat : k <= n => p[k] \in Seq(S) }
  <2>1. 0 \in P
    BY <1>2, <1>7
  <2>2. ASSUME NEW k \in Nat, k \in P PROVE k + 1 \in P
    <3> SUFFICES ASSUME k + 1 <= n PROVE p[k + 1] \in Seq(S)
      OBVIOUS
    <3>1. k + 1 \in 1 .. n /\ (k + 1) - 1 = k /\ p[k] \in Seq(S)
      BY <1>1, <2>2
    <3>2. p[k + 1] = p[k] \o ss[k + 1]
      BY <1>7, <3>1
    <3> QED
      BY <1>1, <3>1, <3>2, ConcatProperties
  <2> HIDE DEF P
  <2>3. Nat \subseteq P
    BY <2>1, <2>2, NatSetInduction
  <2> QED
    BY <1>1, <2>3 DEF P
<1>9. FlattenSeq(ss) = p[n]
  <2>1. CASE n = 0
    <3>1. ss = << >>
      BY <2>1
    <3> QED
      BY <1>7, <2>1, <3>1 DEF FlattenSeq
  <2>2. CASE n # 0
    <3> DEFINE Eq(f) == f = [i \in 1 .. n |-> IF i = 1 THEN ss[i] ELSE f[i - 1] \o ss[i]]
               f == CHOOSE f : Eq(f)
    <3>1. FlattenSeq(ss) = f[n]
      BY <2>2 DEF FlattenSeq
    <3>2. Eq([i \in 1 .. n |-> p[i]])
      <4>1. ASSUME NEW i \in 1 .. n
            PROVE  p[i] = IF i = 1 THEN ss[i] ELSE p[i - 1] \o ss[i]
        <5>1. p[i] = p[i - 1] \o ss[i] /\ ss[i] \in Seq(S)
          BY <1>1, <1>7
        <5>2. << >> \o ss[i] = ss[i]
          BY <5>1, ConcatEmptySeq
        <5>3. CASE i = 1
          <6>1. p[i - 1] = << >>
            BY <1>7, <5>3
          <6> QED
            BY <5>1, <5>2, <5>3, <6>1, Zenon
        <5> QED
          BY <5>1, <5>3, Zenon
      <4>2. \A i \in 1 .. n : i # 1 => i - 1 \in 1 .. n
        BY <1>1
      <4> QED
        BY <4>1, <4>2
    <3> HIDE DEF Eq
    <3>3. Eq(f)
      BY <3>2
    <3> HIDE DEF f
    <3>4. \A i \in 1 .. n : f[i] = IF i = 1 THEN ss[i] ELSE f[i - 1] \o ss[i]
      BY <3>3 DEF Eq
    <3> DEFINE P == { k \in Nat : k + 1 <= n => f[k + 1] = p[k + 1] }
    <3>5. 0 \in P
      <4>1. 1 \in 1 .. n
        BY <1>1, <2>2
      <4>2. p[1] = p[1 - 1] \o ss[1] /\ ss[1] \in Seq(S)
        BY <1>1, <1>7, <4>1, Zenon
      <4>3. << >> \o ss[1] = ss[1]
        BY <4>2, ConcatEmptySeq
      <4>4. p[1 - 1] = << >>
        BY <1>7
      <4>5. f[1] = ss[1]
        BY <3>4, <4>1, Zenon
      <4> QED
        BY <4>2, <4>3, <4>4, <4>5
    <3>6. ASSUME NEW k \in Nat, k \in P PROVE k + 1 \in P
      <4> SUFFICES ASSUME (k + 1) + 1 <= n PROVE f[(k + 1) + 1] = p[(k + 1) + 1]
        OBVIOUS
      <4>1. PICK m \in 1 .. n : m = (k + 1) + 1 /\ m # 1 /\ m - 1 = k + 1 /\ f[m - 1] = p[m - 1]
        BY <1>1, <3>6
      <4>2. p[m] = p[m - 1] \o ss[m]
        BY <1>7, Zenon
      <4>3. f[m] = f[m - 1] \o ss[m]
        BY <3>4, <4>1, Zenon
      <4> QED
        BY <4>1, <4>2, <4>3
    <3> HIDE DEF P
    <3>7. Nat \subseteq P
      BY <3>5, <3>6, NatSetInduction
    <3>8. n - 1 \in P /\ (n - 1) + 1 = n
      BY <1>1, <2>2, <3>7
    <3> QED
      BY <3>1, <3>8 DEF P
  <2> QED
    BY <2>1, <2>2
<1> QED
  BY <1>1, <1>6, <1>8, <1>9 DEF p

\* Sequences that are empty add nothing.
LEMMA NothingBetween ==
    ASSUME NEW S, NEW ss \in Seq(Seq(S)), NEW a \in 0 .. Len(ss), NEW b \in a .. Len(ss),
           \A k \in a + 1 .. b : ss[k] = << >>
    PROVE  Parts(ss)[b] = Parts(ss)[a]
<1> DEFINE p == Parts(ss)
           P == { k \in Nat : a + k <= b => p[a + k] = p[a] }
<1>1. /\ Len(ss) \in Nat /\ \A k \in 0 .. Len(ss) : p[k] \in Seq(S)
      /\ \A k \in 1 .. Len(ss) : p[k] = p[k - 1] \o ss[k]
  BY PartsFacts DEF IsParts
<1> HIDE DEF p
<1>2. 0 \in P
  BY <1>1
<1>3. ASSUME NEW k \in Nat, k \in P PROVE k + 1 \in P
  <2> SUFFICES ASSUME a + (k + 1) <= b PROVE p[a + (k + 1)] = p[a]
    OBVIOUS
  <2>1. PICK m \in 1 .. Len(ss) :
          m = a + (k + 1) /\ m \in a + 1 .. b /\ m - 1 \in 0 .. Len(ss) /\ p[m - 1] = p[a]
    BY <1>1, <1>3
  <2>2. p[m] = p[m - 1] \o ss[m] /\ ss[m] = << >> /\ p[m - 1] \in Seq(S)
    BY <1>1, <2>1, Zenon
  <2>3. p[m] = p[m - 1]
    BY <2>2, ConcatEmptySeq
  <2> QED
    BY <2>1, <2>3
<1> HIDE DEF P
<1>4. Nat \subseteq P
  BY <1>2, <1>3, NatSetInduction
<1>5. b - a \in P /\ a + (b - a) = b
  BY <1>1, <1>4
<1> QED
  BY <1>5 DEF P, p

-----------------------------------------------------------------------------
(* What ReadPackets finds. *)

\* The packets of a file where they survive.
Outer(data) == [i \in DOMAIN data |-> IF i \in Outermost(data) THEN <<data[i].packet>> ELSE << >>]

\* Packets that are intact do not overlap, unless one is in the other.
Laminar(data) ==
    \A i, j \in DOMAIN data :
        IntactAt(data, i) /\ IntactAt(data, j) /\ i < j /\ j < i + data[i].length
            => j + data[j].length <= i + data[i].length

\* A file of cells whose headers have packets of S.
FileOf(S, data) ==
    /\ Len(data) \in Nat /\ DOMAIN data = 1 .. Len(data)
    /\ \A i \in 1 .. Len(data) : data[i].kind = "head" => data[i].packet \in S

\* Behind the one at off the next packet may begin here.
NextTo(data, off) == IF IntactAt(data, off) THEN off + data[off].length ELSE off + 1

\* What ReadPackets finds from off on.
ReadStep(data, r, off) ==
    IF off > Len(data) THEN << >>
    ELSE IF IntactAt(data, off) THEN <<data[off].packet>> \o r[off + data[off].length]
    ELSE r[off + 1]
IsRead(data, r) == r = [off \in 1 .. Len(data) + 1 |-> ReadStep(data, r, off)]

LEMMA NextToFacts ==
    ASSUME NEW S, NEW data, FileOf(S, data), NEW off \in 1 .. Len(data)
    PROVE  /\ NextTo(data, off) \in off + 1 .. Len(data) + 1
           /\ IntactAt(data, off) =>
                data[off].length \in Nat \ {0} /\ data[off].packet \in S
  BY DEF FileOf, NextTo, IntactAt

\* The scan is well defined.
LEMMA ReadFacts ==
    ASSUME NEW S, NEW data, FileOf(S, data)
    PROVE  \E r : IsRead(data, r) /\ ReadPackets(data) = r[1]
<1> DEFINE n == Len(data)
           Upto(k, r) == \A off \in (n + 1) - k .. n + 1 : r[off] = ReadStep(data, r, off)
           P == { k \in Nat : k <= n => \E r : Upto(k, r) }
<1>1. n \in Nat
  BY DEF FileOf
<1> HIDE DEF n
<1>2. 0 \in P
  <2>1. Upto(0, [off \in {n + 1} |-> << >>])
    BY <1>1 DEF ReadStep, n
  <2> QED
    BY <2>1
<1>3. ASSUME NEW k \in Nat, k \in P PROVE k + 1 \in P
  <2> SUFFICES ASSUME k + 1 <= n PROVE \E r : Upto(k + 1, r)
    OBVIOUS
  <2>1. PICK r : Upto(k, r)
    BY <1>1, <1>3
  <2>2. PICK m \in 1 .. n : m = (n + 1) - (k + 1) /\ m + 1 = (n + 1) - k
    BY <1>1
  <2> DEFINE q == [off \in m .. n + 1 |-> IF off = m THEN ReadStep(data, r, m) ELSE r[off]]
  <2>3. ASSUME NEW off \in m .. n + 1 PROVE ReadStep(data, q, off) = ReadStep(data, r, off)
    <3>1. CASE off > n
      BY <3>1 DEF ReadStep, n
    <3>2. CASE off <= n
      <4>1. NextTo(data, off) \in off + 1 .. n + 1
        BY <1>1, <2>2, <3>2, NextToFacts DEF n
      <4>2. NextTo(data, off) \in m .. n + 1 /\ NextTo(data, off) # m
        BY <1>1, <2>2, <3>2, <4>1
      <4>3. q[NextTo(data, off)] = r[NextTo(data, off)]
        BY <4>2
      <4> HIDE DEF q
      <4> QED
        BY <4>3, Zenon DEF ReadStep, NextTo
    <3> QED
      BY <1>1, <2>2, <3>1, <3>2
  <2>4. ASSUME NEW off \in m .. n + 1 PROVE q[off] = ReadStep(data, q, off)
    <3>1. CASE off = m
      BY <2>3, <3>1
    <3>2. CASE off # m
      <4>1. off \in (n + 1) - k .. n + 1
        BY <1>1, <2>2, <3>2
      <4>2. q[off] = r[off]
        BY <3>2
      <4> HIDE DEF q
      <4> QED
        BY <2>1, <2>3, <4>1, <4>2
    <3> QED
      BY <3>1, <3>2
  <2> HIDE DEF q
  <2>5. Upto(k + 1, q)
    BY <2>2, <2>4
  <2> HIDE DEF Upto
  <2> QED
    BY <2>5
<1> HIDE DEF P
<1>4. Nat \subseteq P
  BY <1>2, <1>3, NatSetInduction
<1>5. PICK r : Upto(n, r)
  BY <1>1, <1>4 DEF P
<1> DEFINE f == [off \in 1 .. n + 1 |-> r[off]]
<1>6. ASSUME NEW off \in 1 .. n + 1 PROVE r[off] = ReadStep(data, f, off)
  <2>1. r[off] = ReadStep(data, r, off)
    BY <1>1, <1>5
  <2>2. CASE off > n
    BY <2>1, <2>2 DEF ReadStep, n
  <2>3. CASE off <= n
    <3>1. NextTo(data, off) \in off + 1 .. n + 1
      BY <1>1, <2>3, NextToFacts DEF n
    <3>2. f[NextTo(data, off)] = r[NextTo(data, off)]
      BY <1>1, <3>1
    <3> HIDE DEF f
    <3> QED
      BY <2>1, <3>2, Zenon DEF ReadStep, NextTo
  <2> QED
    BY <1>1, <2>2, <2>3
<1>7. IsRead(data, f)
  BY <1>6 DEF IsRead, n
<1> DEFINE read == CHOOSE q : IsRead(data, q)
<1>8. IsRead(data, read)
  BY <1>7
<1>9. ReadPackets(data) = read[1]
  BY DEF ReadPackets, IsRead, ReadStep
<1> QED
  BY <1>8, <1>9

\* Every packet between two that survive is part of the first one or damaged.
LEMMA ReadIsSurviving ==
    ASSUME NEW S, NEW data, FileOf(S, data), Laminar(data)
    PROVE  ReadPackets(data) = Surviving(data) /\ Surviving(data) \in Seq(S)
<1> DEFINE n == Len(data)
           ss == Outer(data)
           parts == Parts(ss)
           In(off) == IntactAt(data, off)
           Point(off) == \A j \in 1 .. off - 1 : In(j) => j + data[j].length <= off
<1>1. n \in Nat /\ DOMAIN data = 1 .. n
  BY DEF FileOf
<1>2. \A off \in 1 .. n : In(off) => data[off].packet \in S /\ data[off].length \in Nat \ {0}
  BY NextToFacts
<1>3. \A off \in 1 .. n : off \in Outermost(data) <=> In(off) /\ Point(off)
  BY <1>1 DEF Outermost
<1>4. \A i, j \in 1 .. n :
        In(i) /\ In(j) /\ i < j /\ j < i + data[i].length
            => j + data[j].length <= i + data[i].length
  BY <1>1 DEF Laminar
<1>5. PICK read : IsRead(data, read) /\ ReadPackets(data) = read[1]
  BY ReadFacts
<1>6. /\ read[n + 1] = << >>
      /\ \A off \in 1 .. n : /\ NextTo(data, off) \in off + 1 .. n + 1
                             /\ In(off) => NextTo(data, off) = off + data[off].length
                             /\ ~In(off) => NextTo(data, off) = off + 1
                             /\ read[off] = IF In(off)
                                            THEN <<data[off].packet>> \o read[NextTo(data, off)]
                                            ELSE read[NextTo(data, off)]
  <2>1. \A off \in 1 .. n + 1 : read[off] = ReadStep(data, read, off)
    BY <1>5, Zenon DEF IsRead
  <2>2. n + 1 \in 1 .. n + 1 /\ n + 1 > n /\ \A off \in 1 .. n : off \in 1 .. n + 1 /\ ~(off > n)
    BY <1>1
  <2>3. read[n + 1] = << >>
    BY <2>1, <2>2, Zenon DEF ReadStep
  <2>4. \A off \in 1 .. n : NextTo(data, off) \in off + 1 .. n + 1
    BY NextToFacts
  <2>5. ASSUME NEW off \in 1 .. n
        PROVE  /\ In(off) => NextTo(data, off) = off + data[off].length
               /\ ~In(off) => NextTo(data, off) = off + 1
               /\ read[off] = IF In(off)
                              THEN <<data[off].packet>> \o read[NextTo(data, off)]
                              ELSE read[NextTo(data, off)]
    BY <2>1, <2>2, Zenon DEF ReadStep, NextTo
  <2> QED
    BY <2>3, <2>4, <2>5
<1>7. /\ ss \in Seq(Seq(S)) /\ Len(ss) = n
      /\ \A off \in 1 .. n : ss[off] = IF off \in Outermost(data) THEN <<data[off].packet>>
                                                                  ELSE << >>
  <2>1. \A off \in 1 .. n : off \in Outermost(data) => data[off].packet \in S
    BY <1>2, <1>3
  <2>2. ss \in [1 .. n -> Seq(S)]
    BY <1>1, <2>1 DEF Outer
  <2>3. ss \in Seq(Seq(S)) /\ Len(ss) = n
    BY <1>1, <2>2, SeqDef, LenProperties
  <2> QED
    BY <1>1, <2>3 DEF Outer
<1> HIDE DEF ss
<1>8. /\ parts[0] = << >> /\ \A k \in 1 .. n : parts[k] = parts[k - 1] \o ss[k]
      /\ \A k \in 0 .. n : parts[k] \in Seq(S)
      /\ FlattenSeq(ss) = parts[n]
  BY <1>7, PartsFacts DEF IsParts
<1> HIDE DEF parts
<1>9. Surviving(data) = FlattenSeq(ss)
  BY DEF Surviving, Outer, ss
<1> DEFINE Right(off) == read[off] \in Seq(S) /\ parts[n] = parts[off - 1] \o read[off]
           P == { k \in Nat : \A off \in 1 .. n + 1 :
                                off + k >= n + 1 /\ Point(off) => Right(off) }
<1> HIDE DEF n, In, Right, Point
<1>10. 0 \in P
  <2>1. (n + 1) - 1 = n /\ parts[n] \in Seq(S) /\ << >> \in Seq(S)
    BY <1>1, <1>8
  <2>2. Right(n + 1)
    BY <1>6, <2>1, ConcatEmptySeq DEF Right
  <2>3. \A off \in 1 .. n + 1 : off + 0 >= n + 1 => off = n + 1
    BY <1>1
  <2> QED
    BY <2>2, <2>3
<1>11. ASSUME NEW k \in Nat, k \in P PROVE k + 1 \in P
  <2> SUFFICES ASSUME NEW off \in 1 .. n, off + (k + 1) >= n + 1, Point(off)
               PROVE  Right(off)
    <3>1. ASSUME NEW off \in 1 .. n + 1, off + (k + 1) >= n + 1, Point(off), off \notin 1 .. n
          PROVE  Right(off)
      <4>1. off + k >= n + 1
        BY <1>1, <3>1
      <4> QED
        BY <1>11, <3>1, <4>1
    <3> QED
      BY <3>1
  <2> DEFINE e == NextTo(data, off)
  <2>0. e \in off + 1 .. n + 1
    BY <1>6, Zenon DEF e
  <2> HIDE DEF e
  <2>1. e \in 1 .. n + 1 /\ off < e /\ e + k >= n + 1
    BY <1>1, <2>0
  <2>2. off - 1 \in 0 .. n /\ off \in 0 .. n /\ e - 1 \in off .. n /\ e - 1 \in 0 .. n
    BY <1>1, <2>1
  <2>3. CASE In(off)
    <3>1. e = off + data[off].length /\ read[off] = <<data[off].packet>> \o read[e]
      BY <1>6, <2>3, Zenon DEF e
    <3>2. ss[off] = <<data[off].packet>> /\ data[off].packet \in S
      BY <1>2, <1>3, <1>7, <2>3
    <3>3. Point(e)
      <4> SUFFICES ASSUME NEW j \in 1 .. e - 1, In(j) PROVE j + data[j].length <= e
        BY DEF Point
      <4>1. j \in 1 .. n /\ data[j].length \in Nat
        BY <1>1, <1>2, <2>1
      <4>2. CASE j < off
        <5>1. j \in 1 .. off - 1
          BY <4>1, <4>2
        <5>2. j + data[j].length <= off
          BY <5>1 DEF Point
        <5> QED
          BY <2>1, <4>1, <5>2
      <4>3. CASE j = off
        BY <2>1, <3>1, <4>3
      <4>4. CASE off < j
        <5>1. j < off + data[off].length
          BY <2>1, <3>1
        <5> QED
          BY <1>4, <2>3, <3>1, <4>1, <4>4, <5>1
      <4> QED
        BY <4>1, <4>2, <4>3, <4>4
    <3>4. ASSUME NEW j \in off + 1 .. e - 1 PROVE ss[j] = << >>
      <4>1. j \in 1 .. n /\ off \in 1 .. j - 1 /\ ~(off + data[off].length <= j)
        BY <1>1, <2>1, <2>2, <3>1
      <4>2. ~Point(j)
        BY <2>3, <4>1 DEF Point
      <4> QED
        BY <1>3, <1>7, <4>1, <4>2
    <3>5. parts[e - 1] = parts[off]
      <4>1. Len(ss) = n
        BY <1>7 DEF n
      <4> QED
        BY <1>7, <2>2, <3>4, <4>1, NothingBetween DEF parts
    <3>6. parts[off] = parts[off - 1] \o <<data[off].packet>>
      BY <1>8, <3>2
    <3>7. Right(e)
      BY <1>11, <2>1, <3>3
    <3>11. read[e] \in Seq(S) /\ parts[n] = parts[e - 1] \o read[e]
      BY <3>7 DEF Right
    <3>8. <<data[off].packet>> \in Seq(S) /\ parts[off - 1] \in Seq(S)
      BY <1>8, <2>2, <3>2
    <3>9. <<data[off].packet>> \o read[e] \in Seq(S)
      BY <3>11, <3>8, ConcatProperties
    <3>10. (parts[off - 1] \o <<data[off].packet>>) \o read[e]
            = parts[off - 1] \o (<<data[off].packet>> \o read[e])
      <4>1. \A x, y, z \in Seq(S) : (x \o y) \o z = x \o (y \o z)
        <5> TAKE x, y, z \in Seq(S)
        <5> QED
          BY ConcatAssociative, SMTT(20)
      <4> QED
        BY <3>11, <3>8, <4>1, Zenon
    <3> QED
      BY <3>1, <3>5, <3>6, <3>11, <3>9, <3>10, Zenon DEF Right
  <2>4. CASE ~In(off)
    <3>1. e = off + 1 /\ read[off] = read[e]
      BY <1>6, <2>4, Zenon DEF e
    <3>6. e - 1 = off
      BY <3>1
    <3>2. ss[off] = << >>
      BY <1>3, <1>7, <2>4
    <3>3. Point(e)
      <4> SUFFICES ASSUME NEW j \in 1 .. e - 1, In(j) PROVE j + data[j].length <= e
        BY DEF Point
      <4>1. j # off /\ j \in 1 .. off - 1
        BY <2>4, <3>1
      <4>2. j + data[j].length <= off /\ data[j].length \in Nat
        BY <1>1, <1>2, <4>1 DEF Point
      <4> QED
        BY <3>1, <4>2
    <3>4. parts[off] = parts[off - 1]
      <4>1. parts[off] = parts[off - 1] \o << >> /\ parts[off - 1] \in Seq(S)
        BY <1>8, <2>2, <3>2
      <4> QED
        BY <4>1, ConcatEmptySeq
    <3>5. Right(e)
      BY <1>11, <2>1, <3>3
    <3> QED
      BY <3>1, <3>4, <3>5, <3>6 DEF Right
  <2> QED
    BY <2>3, <2>4
<1> HIDE DEF P
<1>12. n \in P
  BY <1>1, <1>10, <1>11, NatSetInduction
<1>13. Right(1)
  <2>1. 1 \in 1 .. n + 1 /\ 1 + n >= n + 1 /\ Point(1)
    BY <1>1 DEF Point
  <2> QED
    BY <1>12, <2>1 DEF P
<1>14. read[1] \in Seq(S) /\ parts[n] = parts[1 - 1] \o read[1] /\ parts[1 - 1] = << >>
  BY <1>8, <1>13 DEF Right
<1>15. parts[n] = read[1]
  BY <1>14, ConcatEmptySeq
<1> QED
  BY <1>5, <1>8, <1>9, <1>14, <1>15

-----------------------------------------------------------------------------
(* What damage may make of the files. *)

IsSeq(s) == \E S : s \in Seq(S)

\* A part of a sequence.
LEMMA PartFacts ==
    ASSUME NEW S, NEW s \in Seq(S), NEW a \in Nat \ {0}, NEW b \in Nat, a <= b + 1, b <= Len(s)
    PROVE  /\ SubSeq(s, a, b) \in Seq(S) /\ Len(SubSeq(s, a, b)) = (b + 1) - a
           /\ \A k \in 1 .. (b + 1) - a : SubSeq(s, a, b)[k] = s[(a + k) - 1]
<1>1. a \in Int /\ b \in Int /\ \A k \in a .. b : s[k] \in S
  OBVIOUS
<1>2. SubSeq(s, a, b) \in Seq(S) /\ Len(SubSeq(s, a, b)) = IF a <= b THEN b - a + 1 ELSE 0
  BY <1>1, SubSeqProperties
<1>3. Len(SubSeq(s, a, b)) = (b + 1) - a
  BY <1>2
<1> DEFINE t == SubSeq(s, a, b)
<1>4. t = [k \in 1 .. b - a + 1 |-> s[a + k - 1]]
  BY <1>1
<1> HIDE DEF t
<1>5. \A k \in 1 .. (b + 1) - a : t[k] = s[(a + k) - 1]
  BY <1>1, <1>4
<1> QED
  BY <1>2, <1>3, <1>5 DEF t

LEMMA SeqFacts ==
    ASSUME NEW s, IsSeq(s)
    PROVE  /\ Len(s) \in Nat /\ DOMAIN s = 1 .. Len(s)
           /\ \A i \in DOMAIN s : \A x :
                /\ IsSeq([s EXCEPT ![i] = x]) /\ Len([s EXCEPT ![i] = x]) = Len(s)
                /\ DOMAIN [s EXCEPT ![i] = x] = DOMAIN s
           /\ \A n \in 0 .. Len(s) :
                /\ IsSeq(SubSeq(s, 1, n)) /\ Len(SubSeq(s, 1, n)) = n
                /\ \A k \in 1 .. n : SubSeq(s, 1, n)[k] = s[k]
<1>1. PICK S : s \in Seq(S)
  BY DEF IsSeq
<1>2. Len(s) \in Nat /\ DOMAIN s = 1 .. Len(s) /\ \A k \in 1 .. Len(s) : s[k] \in S
  BY <1>1
<1>3. ASSUME NEW i \in DOMAIN s, NEW x
      PROVE  /\ IsSeq([s EXCEPT ![i] = x]) /\ Len([s EXCEPT ![i] = x]) = Len(s)
             /\ DOMAIN [s EXCEPT ![i] = x] = DOMAIN s
  <2> DEFINE t == [s EXCEPT ![i] = x]
  <2>1. t \in [1 .. Len(s) -> S \cup {x}]
    BY <1>1, <1>2
  <2>2. t \in Seq(S \cup {x}) /\ Len(t) = Len(s)
    BY <1>2, <2>1, SeqDef, LenProperties
  <2> QED
    BY <2>2 DEF IsSeq
<1>4. ASSUME NEW n \in 0 .. Len(s)
      PROVE  /\ IsSeq(SubSeq(s, 1, n)) /\ Len(SubSeq(s, 1, n)) = n
             /\ \A k \in 1 .. n : SubSeq(s, 1, n)[k] = s[k]
  <2> DEFINE t == SubSeq(s, 1, n)
  <2>1. 1 \in Nat \ {0} /\ n \in Nat /\ 1 <= n + 1 /\ n <= Len(s)
    BY <1>2
  <2>2. /\ t \in Seq(S) /\ Len(t) = (n + 1) - 1
        /\ \A k \in 1 .. (n + 1) - 1 : t[k] = s[(1 + k) - 1]
    BY <1>1, <2>1, PartFacts
  <2> HIDE DEF t
  <2>3. \A k \in 1 .. n : k \in 1 .. (n + 1) - 1 /\ (1 + k) - 1 = k
    BY <2>1
  <2>4. IsSeq(t) /\ Len(t) = n /\ \A k \in 1 .. n : t[k] = s[k]
    BY <2>1, <2>2, <2>3 DEF IsSeq
  <2> QED
    BY <2>4 DEF t
<1> QED
  BY <1>2, <1>3, <1>4

\* What a cell may have become, and a file.
Became(cell, was) ==
    \/ cell = was
    \/ cell = [kind |-> "junk"]
    \/ /\ cell.kind = "head" /\ was.kind = "head"
       /\ cell.packet = was.packet /\ DOMAIN cell = DOMAIN was
IsDamaged(file, was) ==
    /\ IsSeq(file) /\ Len(file) <= Len(was)
    /\ \A i \in 1 .. Len(file) : Became(file[i], was[i])

\* What is assumed of a file that was stored.
SoundFile(S, file) ==
    /\ IsSeq(file)
    /\ \A i \in 1 .. Len(file) : file[i].kind = "head" =>
        /\ {"kind", "packet", "length"} \subseteq DOMAIN file[i]
        /\ WellFormed(file[i].packet) /\ file[i].packet \in S
    /\ \A i, j \in 1 .. Len(file) :
        WholeAt(file, i) /\ WholeAt(file, j) /\ i < j /\ j <= End(file, i)
            => End(file, j) <= End(file, i)

\* A packet that is intact in the damaged file was whole.
LEMMA IntactWasWhole ==
    ASSUME NEW S, NEW file, NEW was, SoundFile(S, was), IsDamaged(file, was),
           NEW i \in 1 .. Len(file), IntactAt(file, i)
    PROVE  WholeAt(was, i) /\ i + file[i].length = End(was, i) + 1 /\ End(was, i) \in Nat
<1> DEFINE body == was[i].packet.body
           m == file[i].length
<1>1. /\ Len(file) \in Nat /\ DOMAIN file = 1 .. Len(file) /\ Len(was) \in Nat
      /\ Len(file) <= Len(was) /\ i \in 1 .. Len(was)
  BY SeqFacts DEF IsDamaged, SoundFile
<1>2. file[i].kind = "head" /\ was[i].kind = "head" /\ file[i].packet = was[i].packet
  <2>1. Became(file[i], was[i]) /\ file[i].kind = "head"
    BY DEF IsDamaged, IntactAt
  <2> QED
    BY <2>1 DEF Became
<1>3. Len(body) \in Nat /\ DOMAIN body = 1 .. Len(body)
  <2>1. body \in Seq(Cells(body))
    BY <1>1, <1>2 DEF SoundFile, WellFormed
  <2> HIDE DEF body
  <2> QED
    BY <2>1
<1>4. m \in 1 .. Len(file) - i + 1 /\ SubSeq(file, i + 1, i + m - 1) = body
  BY <1>2 DEF IntactAt
<1> HIDE DEF body, m
<1>5. i + 1 \in Int /\ i + m - 1 \in Int
  BY <1>1, <1>4
<1>6. Len(body) = m - 1 /\ \A k \in 1 .. m - 1 : body[k] = file[i + k]
  <2>1. PICK T : file \in Seq(T)
    BY DEF IsDamaged, IsSeq
  <2> DEFINE a == i + 1
             b == i + m - 1
  <2>2. a \in Nat \ {0} /\ b \in Nat /\ a <= b + 1 /\ b <= Len(file)
    BY <1>1, <1>4
  <2>3. body = SubSeq(file, a, b)
    BY <1>4
  <2>4. (b + 1) - a = m - 1 /\ \A k \in 1 .. m - 1 : (a + k) - 1 = i + k
    BY <1>1, <1>4
  <2> HIDE DEF a, b
  <2>5. Len(body) = (b + 1) - a /\ \A k \in 1 .. (b + 1) - a : body[k] = file[(a + k) - 1]
    BY <2>1, <2>2, <2>3, PartFacts
  <2> QED
    BY <2>4, <2>5
<1>7. i + m = End(was, i) + 1 /\ End(was, i) \in Nat /\ End(was, i) <= Len(was)
  BY <1>1, <1>4, <1>6 DEF End, body
<1>8. ASSUME NEW k \in 1 .. m - 1 PROVE MayBe(was[i + k], body[k])
  <2>1. i + k \in 1 .. Len(file)
    BY <1>1, <1>4
  <2>2. Became(file[i + k], was[i + k]) /\ body[k] = file[i + k]
    BY <1>6, <2>1 DEF IsDamaged
  <2> QED
    BY <2>2 DEF Became, MayBe
<1>9. WholeAt(was, i)
  BY <1>2, <1>3, <1>6, <1>7, <1>8 DEF WholeAt, body
<1> QED
  BY <1>7, <1>9 DEF m

\* Damaged files are scanned right.
LEMMA DamagedFacts ==
    ASSUME NEW S, NEW file, NEW was, SoundFile(S, was), IsDamaged(file, was)
    PROVE  FileOf(S, file) /\ Laminar(file)
<1>1. /\ Len(file) \in Nat /\ DOMAIN file = 1 .. Len(file) /\ Len(was) \in Nat
      /\ Len(file) <= Len(was)
  BY SeqFacts DEF IsDamaged, SoundFile
<1>2. FileOf(S, file)
  <2>1. ASSUME NEW i \in 1 .. Len(file), file[i].kind = "head" PROVE file[i].packet \in S
    <3>1. i \in 1 .. Len(was) /\ Became(file[i], was[i])
      BY <1>1 DEF IsDamaged
    <3>2. was[i].kind = "head" /\ file[i].packet = was[i].packet
      BY <2>1, <3>1 DEF Became
    <3> QED
      BY <3>1, <3>2 DEF SoundFile
  <2> QED
    BY <1>1, <2>1 DEF FileOf
<1>3. Laminar(file)
  <2> SUFFICES ASSUME NEW i \in 1 .. Len(file), NEW j \in 1 .. Len(file),
                      IntactAt(file, i), IntactAt(file, j), i < j, j < i + file[i].length
               PROVE  j + file[j].length <= i + file[i].length
    BY <1>1 DEF Laminar
  <2>1. /\ WholeAt(was, i) /\ i + file[i].length = End(was, i) + 1 /\ End(was, i) \in Nat
        /\ WholeAt(was, j) /\ j + file[j].length = End(was, j) + 1 /\ End(was, j) \in Nat
    BY IntactWasWhole
  <2>2. j <= End(was, i) /\ i \in 1 .. Len(was) /\ j \in 1 .. Len(was)
    BY <1>1, <2>1
  <2>3. End(was, j) <= End(was, i)
    BY <2>1, <2>2 DEF SoundFile
  <2> QED
    BY <2>1, <2>3
<1> QED
  BY <1>2, <1>3

-----------------------------------------------------------------------------
(* The set that the packets are of. *)

IsMain(p) == p.type = "Main" /\ p.body # << >>

LEMMA FirstMainFacts ==
    ASSUME NEW S, NEW t \in Seq(S)
    PROVE  /\ FirstMain(t) \in 0 .. Len(t) /\ Len(t) \in Nat
           /\ FirstMain(t) = 0 => \A k \in 1 .. Len(t) : ~IsMain(t[k])
           /\ FirstMain(t) # 0 => /\ IsMain(t[FirstMain(t)])
                                  /\ \A k \in 1 .. FirstMain(t) - 1 : ~IsMain(t[k])
<1> DEFINE I == { k \in 1 .. Len(t) : IsMain(t[k]) }
<1>1. FirstMain(t) = IF I # {} THEN Min(I) ELSE 0
  BY DEF FirstMain, SelectInSeq, IsMain
<1>2. Len(t) \in Nat
  OBVIOUS
<1>3. CASE I = {}
  BY <1>1, <1>2, <1>3
<1>4. CASE I # {}
  <2>1. I \in SUBSET Nat
    OBVIOUS
  <2>2. \E m \in I : \A k \in I : m <= k
    BY <1>4, <2>1, LeastOfNats
  <2>3. Min(I) \in I /\ \A k \in I : Min(I) <= k
    BY <2>2 DEF Min
  <2> DEFINE m == Min(I)
  <2> HIDE DEF m
  <2>4. m \in 1 .. Len(t) /\ IsMain(t[m])
    BY <2>3 DEF m
  <2>5. ASSUME NEW k \in 1 .. m - 1 PROVE ~IsMain(t[k])
    <3>1. k \in 1 .. Len(t) /\ ~(m <= k)
      BY <1>2, <2>4
    <3> QED
      BY <2>3, <3>1 DEF m
  <2>6. FirstMain(t) = m /\ m # 0
    BY <1>1, <1>4, <2>4 DEF m
  <2> QED
    BY <1>2, <2>4, <2>5, <2>6
<1> QED
  BY <1>3, <1>4

LEMMA AppendFacts ==
    ASSUME NEW S, NEW t \in Seq(S), NEW p \in S
    PROVE  /\ Append(t, p) \in Seq(S) /\ Len(Append(t, p)) = Len(t) + 1 /\ Len(t) \in Nat
           /\ \A k \in 1 .. Len(t) : Append(t, p)[k] = t[k]
           /\ Append(t, p)[Len(t) + 1] = p
  OBVIOUS

LEMMA FirstMainNext ==
    ASSUME NEW S, NEW t \in Seq(S), NEW p \in S
    PROVE  FirstMain(Append(t, p)) = IF FirstMain(t) # 0 THEN FirstMain(t)
                                     ELSE IF IsMain(p) THEN Len(t) + 1 ELSE 0
<1> DEFINE u == Append(t, p)
           n == Len(t)
           f == FirstMain(t)
           g == FirstMain(u)
<1>1. u \in Seq(S) /\ Len(u) = n + 1 /\ n \in Nat /\ (\A k \in 1 .. n : u[k] = t[k]) /\ u[n + 1] = p
  BY AppendFacts
<1>2. /\ f \in 0 .. n
      /\ f = 0 => \A k \in 1 .. n : ~IsMain(t[k])
      /\ f # 0 => IsMain(t[f]) /\ \A k \in 1 .. f - 1 : ~IsMain(t[k])
  BY FirstMainFacts
<1> HIDE DEF u, f
<1>3. /\ g \in 0 .. n + 1
      /\ g = 0 => \A k \in 1 .. n + 1 : ~IsMain(u[k])
      /\ g # 0 => IsMain(u[g]) /\ \A k \in 1 .. g - 1 : ~IsMain(u[k])
  <2>1. u \in Seq(S)
    BY <1>1
  <2> QED
    BY <1>1, <2>1, FirstMainFacts
<1> HIDE DEF n, g
<1>4. CASE f # 0
  <2>1. f \in 1 .. n /\ f \in 1 .. n + 1 /\ IsMain(u[f])
    BY <1>1, <1>2, <1>4
  <2>2. g # 0 /\ ~(f \in 1 .. g - 1)
    BY <1>3, <2>1
  <2>3. ~(g < f)
    <3> SUFFICES ASSUME g < f PROVE FALSE
      OBVIOUS
    <3>1. g \in 1 .. f - 1 /\ g \in 1 .. n
      BY <1>1, <1>2, <1>3, <2>1, <2>2
    <3> QED
      BY <1>1, <1>2, <1>3, <1>4, <2>2, <3>1
  <2>4. g = f
    BY <1>1, <1>2, <1>3, <2>1, <2>2, <2>3
  <2> QED
    BY <1>4, <2>4 DEF u, g, f
<1>5. CASE f = 0
  <2>1. \A k \in 1 .. n : ~IsMain(u[k])
    BY <1>1, <1>2, <1>5
  <2>2. g # 0 => g = n + 1
    BY <1>1, <1>3, <2>1
  <2>3. IsMain(p) <=> g # 0
    <3>1. n + 1 \in 1 .. n + 1
      BY <1>1
    <3> QED
      BY <1>1, <1>3, <2>2, <3>1
  <2> QED
    BY <1>5, <2>2, <2>3 DEF u, g, f, n
<1> QED
  BY <1>4, <1>5

\* Of the packets that were taken those that Parse did not ignore.
RelevantTo(t, k) ==
    /\ t[k].body # << >>
    /\ FirstMain(t) = 0 \/ k <= FirstMain(t) \/ t[k].set = t[FirstMain(t)].set
Relevant(t) == { t[k] : k \in { j \in 1 .. Len(t) : RelevantTo(t, j) } }

LEMMA RelevantNext ==
    ASSUME NEW S, NEW t \in Seq(S), NEW p \in S
    PROVE  Relevant(Append(t, p)) =
             IF p.body = << >> \/ (FirstMain(t) # 0 /\ p.set # t[FirstMain(t)].set)
             THEN Relevant(t) ELSE Relevant(t) \cup {p}
<1> DEFINE u == Append(t, p)
           n == Len(t)
           f == FirstMain(t)
           g == FirstMain(u)
           Out == p.body = << >> \/ (f # 0 /\ p.set # t[f].set)
<1>1. u \in Seq(S) /\ Len(u) = n + 1 /\ n \in Nat /\ (\A k \in 1 .. n : u[k] = t[k]) /\ u[n + 1] = p
  BY AppendFacts
<1>2. f \in 0 .. n /\ g = IF f # 0 THEN f ELSE IF IsMain(p) THEN n + 1 ELSE 0
  BY FirstMainFacts, FirstMainNext
<1>3. ASSUME NEW k \in 1 .. n PROVE RelevantTo(u, k) <=> RelevantTo(t, k)
  <2>1. u[k] = t[k] /\ (f # 0 => u[f] = t[f])
    BY <1>1, <1>2
  <2>2. CASE f # 0
    BY <1>2, <2>1, <2>2 DEF RelevantTo
  <2>3. CASE f = 0
    <3>1. g = 0 \/ k <= g
      BY <1>1, <1>2, <2>3
    <3> QED
      BY <2>1, <2>3, <3>1 DEF RelevantTo
  <2> QED
    BY <2>2, <2>3
<1>4. RelevantTo(u, n + 1) <=> ~Out
  <2>1. u[n + 1] = p /\ (f # 0 => u[f] = t[f])
    BY <1>1, <1>2
  <2>2. CASE f # 0
    <3>1. ~(n + 1 <= f)
      BY <1>1, <1>2
    <3> QED
      BY <1>2, <2>1, <2>2, <3>1 DEF RelevantTo
  <2>3. CASE f = 0
    <3>1. g = 0 \/ n + 1 <= g
      BY <1>1, <1>2, <2>3
    <3> QED
      BY <2>1, <2>3, <3>1 DEF RelevantTo
  <2> QED
    BY <2>2, <2>3
<1>5. ASSUME NEW q
      PROVE  q \in Relevant(u) <=> q \in Relevant(t) \/ (~Out /\ q = p)
  <2>1. q \in Relevant(u) <=> \E k \in 1 .. n + 1 : RelevantTo(u, k) /\ q = u[k]
    BY <1>1 DEF Relevant
  <2>2. q \in Relevant(t) <=> \E k \in 1 .. n : RelevantTo(t, k) /\ q = t[k]
    BY DEF Relevant
  <2> HIDE DEF u, Out, n
  <2>3. \A k : k \in 1 .. n + 1 <=> k \in 1 .. n \/ k = n + 1
    BY <1>1
  <2>4. q \in Relevant(u) <=> (\E k \in 1 .. n : RelevantTo(u, k) /\ q = u[k])
                                \/ (RelevantTo(u, n + 1) /\ q = u[n + 1])
    BY <2>1, <2>3, Zenon
  <2>5. (\E k \in 1 .. n : RelevantTo(u, k) /\ q = u[k])
          <=> (\E k \in 1 .. n : RelevantTo(t, k) /\ q = t[k])
    BY <1>1, <1>3, Zenon
  <2> QED
    BY <1>1, <1>4, <2>2, <2>4, <2>5, Zenon
<1> HIDE DEF u, Out
<1>6. Relevant(u) = IF Out THEN Relevant(t) ELSE Relevant(t) \cup {p}
  BY <1>5
<1> QED
  BY <1>6 DEF u, Out

\* If no packet of another set comes first, these are the set's own.
LEMMA RelevantIsOwn ==
    ASSUME NEW S, NEW t \in Seq(S), Unmixed(t)
    PROVE  Own(t) = Relevant(t)
<1> DEFINE f == FirstMain(t)
<1>1. f \in 1 .. Len(t) /\ Len(t) \in Nat
  BY FirstMainFacts DEF Unmixed
<1>2. DOMAIN t = 1 .. Len(t) /\ ToSet(t) = { t[k] : k \in 1 .. Len(t) }
  BY DEF ToSet
<1>3. ASSUME NEW k \in 1 .. Len(t), k <= f PROVE t[k].set = t[f].set /\ t[k].body # << >>
  <2> DEFINE s == SubSeq(t, 1, f)
  <2>1. s \in Seq(S) /\ Len(s) = (f + 1) - 1 /\ \A h \in 1 .. (f + 1) - 1 : s[h] = t[(1 + h) - 1]
    <3>1. 1 \in Nat \ {0} /\ f \in Nat /\ 1 <= f + 1 /\ f <= Len(t)
      BY <1>1
    <3> QED
      BY <3>1, PartFacts
  <2> HIDE DEF s
  <2>2. k \in 1 .. Len(s) /\ k \in 1 .. (f + 1) - 1 /\ (1 + k) - 1 = k
    BY <1>1, <1>3, <2>1
  <2>3. s[k] \in ToSet(s) /\ s[k] = t[k]
    BY <2>1, <2>2 DEF ToSet
  <2>4. t[k] \in Own(t)
    BY <2>3 DEF Unmixed, s
  <2> QED
    BY <2>4 DEF Own
<1> HIDE DEF f
<1>4. Own(t) = { q \in ToSet(t) : q.set = t[f].set /\ q.body # << >> }
  BY <1>1 DEF Own, f
<1>5. ASSUME NEW q PROVE q \in Own(t) <=> q \in Relevant(t)
  <2>1. q \in Own(t) <=> \E k \in 1 .. Len(t) : q = t[k] /\ t[k].set = t[f].set /\ t[k].body # << >>
    BY <1>2, <1>4
  <2>2. q \in Relevant(t) <=> \E k \in 1 .. Len(t) : q = t[k] /\ RelevantTo(t, k)
    BY DEF Relevant
  <2>3. ASSUME NEW k \in 1 .. Len(t)
        PROVE  RelevantTo(t, k) <=> t[k].set = t[f].set /\ t[k].body # << >>
    BY <1>1, <1>3 DEF RelevantTo, f
  <2> QED
    BY <2>1, <2>2, <2>3, Zenon
<1> QED
  BY <1>5

-----------------------------------------------------------------------------
(* The files and what is read of them. *)

\* The packets that were written.
Sent == { c.packet : c \in Heads(stored) }

\* Whatever happened to the files, they are damaged versions of what was stored.
FilesInv ==
    /\ stored \in Stored
    /\ IsSeq(files) /\ Len(files) = Len(stored) /\ DOMAIN files = DOMAIN stored
    /\ \A f \in DOMAIN files : IsDamaged(files[f], stored[f])
    /\ damage \in 0 .. MaxDamage /\ cut \in BOOLEAN

LEMMA StoredFacts ==
    ASSUME stored \in Stored
    PROVE  /\ IsSeq(stored)
           /\ \A f \in DOMAIN stored : SoundFile(Sent, stored[f])
           /\ \A p \in Sent : WellFormed(p)
<1> DEFINE T == UNION { Cells(stored[i]) : i \in DOMAIN stored }
<1>1. /\ stored \in Seq(Seq(T))
      /\ \A c \in Heads(stored) :
            {"kind", "packet", "length"} \subseteq DOMAIN c /\ WellFormed(c.packet)
      /\ \A f \in DOMAIN stored : \A i, j \in DOMAIN stored[f] :
            WholeAt(stored[f], i) /\ WholeAt(stored[f], j) /\ i < j /\ j <= End(stored[f], i)
                => End(stored[f], j) <= End(stored[f], i)
  BY StoredAssumption
<1>2. ASSUME NEW f \in DOMAIN stored PROVE SoundFile(Sent, stored[f])
  <2>1. stored[f] \in Seq(T)
    BY <1>1
  <2>2. IsSeq(stored[f]) /\ DOMAIN stored[f] = 1 .. Len(stored[f])
    BY <2>1 DEF IsSeq
  <2>3. ASSUME NEW i \in 1 .. Len(stored[f]), stored[f][i].kind = "head"
        PROVE  stored[f][i] \in Heads(stored)
    BY <2>2, <2>3 DEF Heads, Cells
  <2>4. \A i \in 1 .. Len(stored[f]) : stored[f][i].kind = "head" =>
            /\ {"kind", "packet", "length"} \subseteq DOMAIN stored[f][i]
            /\ WellFormed(stored[f][i].packet) /\ stored[f][i].packet \in Sent
    BY <1>1, <2>3 DEF Sent
  <2> QED
    BY <1>1, <2>2, <2>4 DEF SoundFile
<1>3. IsSeq(stored)
  BY <1>1 DEF IsSeq
<1> QED
  BY <1>1, <1>2, <1>3 DEF Sent

\* What survives in the files.
Survivors == [f \in DOMAIN files |-> Surviving(files[f])]

\* ReadPackets finds it.
LEMMA FilesAreRead ==
    ASSUME FilesInv
    PROVE  /\ \A f \in DOMAIN files : ReadPackets(files[f]) = Survivors[f]
           /\ Survivors \in Seq(Seq(Sent)) /\ Len(Survivors) = Len(files)
           /\ Len(files) \in Nat /\ DOMAIN files = 1 .. Len(files)
<1>1. Len(files) \in Nat /\ DOMAIN files = 1 .. Len(files)
  BY SeqFacts DEF FilesInv
<1>2. ASSUME NEW f \in DOMAIN files
      PROVE  ReadPackets(files[f]) = Surviving(files[f]) /\ Surviving(files[f]) \in Seq(Sent)
  <2>1. SoundFile(Sent, stored[f]) /\ IsDamaged(files[f], stored[f])
    BY StoredFacts DEF FilesInv
  <2>2. FileOf(Sent, files[f]) /\ Laminar(files[f])
    BY <2>1, DamagedFacts
  <2> QED
    BY <2>2, ReadIsSurviving
<1>3. Survivors \in [1 .. Len(files) -> Seq(Sent)]
  BY <1>1, <1>2 DEF Survivors
<1>4. Survivors \in Seq(Seq(Sent)) /\ Len(Survivors) = Len(files)
  BY <1>1, <1>3, SeqDef, LenProperties
<1> QED
  BY <1>1, <1>2, <1>4 DEF Survivors

LEMMA InitFiles == Init => FilesInv
<1> SUFFICES ASSUME Init PROVE FilesInv
  OBVIOUS
<1>1. stored \in Stored /\ files = stored /\ damage = 0 /\ cut = FALSE
  BY DEF Init
<1>2. IsSeq(stored)
  BY <1>1, StoredFacts
<1>3. ASSUME NEW f \in DOMAIN stored PROVE IsDamaged(stored[f], stored[f])
  <2>1. IsSeq(stored[f])
    BY <1>1, StoredFacts DEF SoundFile
  <2>2. Len(stored[f]) <= Len(stored[f])
    BY <2>1, SeqFacts
  <2> QED
    BY <2>1, <2>2 DEF IsDamaged, Became
<1> QED
  <2>1. damage \in 0 .. MaxDamage
    BY <1>1, PacketAssumption
  <2>2. cut \in BOOLEAN
    BY <1>1, Zenon
  <2> QED
    BY <1>1, <1>2, <1>3, <2>1, <2>2, Zenon DEF FilesInv

\* Damage to one file.
LEMMA OneFile ==
    ASSUME FilesInv, UNCHANGED stored, damage < MaxDamage, damage' = damage + 1,
           cut' \in BOOLEAN,
           NEW f \in DOMAIN files, NEW file, files' = [files EXCEPT ![f] = file],
           IsDamaged(file, stored[f])
    PROVE  FilesInv'
<1>1. IsSeq(files') /\ Len(files') = Len(files) /\ DOMAIN files' = DOMAIN files
  <2>1. IsSeq(files)
    BY DEF FilesInv
  <2>2. \A x : /\ IsSeq([files EXCEPT ![f] = x]) /\ Len([files EXCEPT ![f] = x]) = Len(files)
               /\ DOMAIN [files EXCEPT ![f] = x] = DOMAIN files
    BY <2>1, SeqFacts, Zenon
  <2> QED
    BY <2>2, Zenon
<1>2. \A h \in DOMAIN files : files'[h] = IF h = f THEN file ELSE files[h]
  OBVIOUS
<1>3. damage' \in 0 .. MaxDamage
  BY PacketAssumption DEF FilesInv
<1> QED
  BY <1>1, <1>2, <1>3 DEF FilesInv

LEMMA DamageFiles == FilesInv /\ (Spoil \/ Truncate) => FilesInv'
<1> SUFFICES ASSUME FilesInv, Spoil \/ Truncate PROVE FilesInv'
  OBVIOUS
<1>1. ASSUME Spoil PROVE FilesInv'
  <2>1. PICK f \in DOMAIN files : \E j \in DOMAIN files[f] :
          \E cell \in Damages(files[f][j]) : files' = [files EXCEPT ![f][j] = cell]
    BY <1>1 DEF Spoil
  <2>10. PICK j \in DOMAIN files[f] :
          \E cell \in Damages(files[f][j]) : files' = [files EXCEPT ![f][j] = cell]
    BY <2>1
  <2>2. PICK cell \in Damages(files[f][j]) : files' = [files EXCEPT ![f][j] = cell]
    BY <2>10
  <2> DEFINE file == [files[f] EXCEPT ![j] = cell]
  <2>3. files' = [files EXCEPT ![f] = file]
    BY <2>2
  <2>4. IsDamaged(files[f], stored[f])
    BY DEF FilesInv
  <2>5. /\ IsSeq(file) /\ Len(file) = Len(files[f]) /\ DOMAIN files[f] = 1 .. Len(files[f])
        /\ Len(files[f]) \in Nat
    BY <2>4, SeqFacts DEF IsDamaged
  <2>6. Became(cell, stored[f][j])
    <3>1. Became(files[f][j], stored[f][j])
      BY <2>4, <2>5 DEF IsDamaged
    <3>2. CASE cell = [kind |-> "junk"]
      BY <3>2 DEF Became
    <3>3. CASE cell # [kind |-> "junk"]
      <4>1. files[f][j].kind = "head" /\ \E n \in Lengths : cell = [files[f][j] EXCEPT !.length = n]
        BY <3>3 DEF Damages
      <4>2. /\ stored[f][j].kind = "head" /\ files[f][j].packet = stored[f][j].packet
            /\ DOMAIN files[f][j] = DOMAIN stored[f][j]
        BY <3>1, <4>1 DEF Became
      <4>3. {"kind", "packet", "length"} \subseteq DOMAIN stored[f][j]
        <5>1. j \in 1 .. Len(stored[f])
          BY <2>4, <2>5, StoredFacts, SeqFacts DEF IsDamaged, SoundFile, FilesInv
        <5> QED
          BY <4>2, <5>1, StoredFacts DEF SoundFile, FilesInv
      <4>4. /\ DOMAIN cell = DOMAIN files[f][j]
            /\ cell.kind = files[f][j].kind /\ cell.packet = files[f][j].packet
        BY <4>1, <4>2, <4>3
      <4> QED
        BY <4>1, <4>2, <4>4 DEF Became
    <3> QED
      BY <3>2, <3>3
  <2>7. \A i \in 1 .. Len(files[f]) : file[i] = IF i = j THEN cell ELSE files[f][i]
    BY <2>5
  <2> HIDE DEF file
  <2>8. IsDamaged(file, stored[f])
    BY <2>4, <2>5, <2>6, <2>7 DEF IsDamaged
  <2>9. UNCHANGED stored /\ damage < MaxDamage /\ damage' = damage + 1 /\ cut' \in BOOLEAN
    BY <1>1 DEF Spoil, FilesInv
  <2> QED
    BY <2>3, <2>8, <2>9, OneFile
<1>2. ASSUME Truncate PROVE FilesInv'
  <2>8. PICK f \in DOMAIN files : \E n \in 0 .. Len(files[f]) - 1 :
          files' = [files EXCEPT ![f] = SubSeq(files[f], 1, n)]
    BY <1>2 DEF Truncate
  <2>1. PICK n \in 0 .. Len(files[f]) - 1 :
          files' = [files EXCEPT ![f] = SubSeq(files[f], 1, n)]
    BY <2>8
  <2> DEFINE file == SubSeq(files[f], 1, n)
  <2>2. IsDamaged(files[f], stored[f])
    BY DEF FilesInv
  <2>3. Len(files[f]) \in Nat /\ n \in 0 .. Len(files[f])
    BY <2>2, SeqFacts DEF IsDamaged
  <2>4. IsSeq(file) /\ Len(file) = n /\ \A k \in 1 .. n : file[k] = files[f][k]
    BY <2>2, <2>3, SeqFacts DEF IsDamaged
  <2>5. n <= Len(stored[f]) /\ \A k \in 1 .. n : k \in 1 .. Len(files[f])
    <3>1. Len(stored[f]) \in Nat
      BY StoredFacts, SeqFacts DEF SoundFile, FilesInv
    <3> QED
      BY <2>2, <2>3, <3>1 DEF IsDamaged
  <2> HIDE DEF file
  <2>6. IsDamaged(file, stored[f])
    BY <2>2, <2>4, <2>5 DEF IsDamaged
  <2>7. UNCHANGED stored /\ damage < MaxDamage /\ damage' = damage + 1 /\ cut' \in BOOLEAN
    BY <1>2 DEF Truncate
  <2> QED
    BY <2>1, <2>6, <2>7, OneFile DEF file
<1> QED
  BY <1>1, <1>2

\* Nothing else touches the files.
LEMMA ParsingFiles ==
    ASSUME FilesInv, UNCHANGED fileVars
    PROVE  FilesInv'
<1>1. stored' = stored /\ files' = files /\ damage' = damage /\ cut' = cut
  BY DEF fileVars
<1> QED
  BY <1>1 DEF FilesInv

-----------------------------------------------------------------------------
(* What the packets taken so far have made of the set. *)

\* The set is that of the first main packet.
MainRight(t) ==
    IF haveMain
    THEN /\ FirstMain(t) # 0 /\ setID = t[FirstMain(t)].set
         /\ [kind |-> "main", slice |-> sliceSize, ids |-> order] = t[FirstMain(t)].body[1]
    ELSE FirstMain(t) = 0 /\ setID = ""

\* A file is known if something describes it, by what describes it.
Described(own, id) == \E d \in Contents(own, "FileDesc") : d.id = id
Summed(own, id) == \E c \in Contents(own, "IFSC") : c.id = id
AsSaid(own, id, file) ==
    /\ DOMAIN file = {"size", "name", "slices"}
    /\ IF Described(own, id)
       THEN [kind |-> "desc", id |-> id, size |-> file.size, name |-> file.name]
              \in Contents(own, "FileDesc")
       ELSE file.size = 0 /\ file.name = ""
    /\ IF Summed(own, id)
       THEN [kind |-> "sums", id |-> id, slices |-> file.slices] \in Contents(own, "IFSC")
       ELSE file.slices = << >>
SeenRight(own) ==
    /\ \A id : id \in DOMAIN seen <=> Described(own, id) \/ Summed(own, id)
    /\ \A id \in DOMAIN seen : AsSaid(own, id, seen[id])

\* A recovery slice is that of a packet with its exponent.
Slices(own) == { p \in own : p.type = "RecvSlic" }
RecoveryRight(own) ==
    /\ DOMAIN recovery = { p.body[1].exponent : p \in Slices(own) }
    /\ \A e \in DOMAIN recovery :
        \E p \in Slices(own) : p.body[1].exponent = e /\ recovery[e] = Tail(p.body)

TakenRight(t) == MainRight(t) /\ SeenRight(Relevant(t)) /\ RecoveryRight(Relevant(t))

\* One packet more.
LEMMA ContentsNext ==
    ASSUME NEW own, NEW p
    PROVE  /\ \A type : Contents(own \cup {p}, type) =
                IF p.type = type THEN Contents(own, type) \cup {p.body[1]} ELSE Contents(own, type)
           /\ Slices(own \cup {p}) = IF p.type = "RecvSlic" THEN Slices(own) \cup {p} ELSE Slices(own)
  BY DEF Contents, Slices

\* Which packets Parse ignores is decided by the first main packet.
LEMMA RelevantTaken ==
    ASSUME NEW S, NEW t \in Seq(S), NEW p \in S, MainRight(t)
    PROVE  Relevant(Append(t, p)) = IF p.body = << >> \/ Foreign(p) THEN Relevant(t)
                                    ELSE Relevant(t) \cup {p}
<1>1. Foreign(p) <=> FirstMain(t) # 0 /\ p.set # t[FirstMain(t)].set
  BY DEF MainRight, Foreign
<1> QED
  BY <1>1, RelevantNext

\* A packet that is not the first main packet leaves the set as it is.
LEMMA MainStays ==
    ASSUME NEW S, NEW t \in Seq(S), NEW p \in S, MainRight(t), ~IsMain(p) \/ haveMain,
           UNCHANGED <<haveMain, setID, sliceSize, order>>
    PROVE  MainRight(Append(t, p))'
<1> DEFINE u == Append(t, p)
<1>1. FirstMain(t) \in 0 .. Len(t) /\ Len(t) \in Nat
  BY FirstMainFacts
<1>2. FirstMain(u) = FirstMain(t)
  BY FirstMainNext DEF MainRight
<1>3. FirstMain(t) # 0 => u[FirstMain(t)] = t[FirstMain(t)]
  BY <1>1, AppendFacts
<1> HIDE DEF u
<1>4. MainRight(u)'
  BY <1>2, <1>3 DEF MainRight
<1> QED
  BY <1>4 DEF u

\* The first main packet is taken.
LEMMA MainTaken ==
    ASSUME NEW S, NEW t \in Seq(S), NEW p \in S, MainRight(t), ~haveMain, IsMain(p),
           WellFormed(p), haveMain', setID' = p.set,
           sliceSize' = p.body[1].slice, order' = p.body[1].ids
    PROVE  MainRight(Append(t, p))'
<1> DEFINE u == Append(t, p)
<1>1. FirstMain(u) = Len(t) + 1 /\ u[Len(t) + 1] = p /\ Len(t) \in Nat
  BY FirstMainNext, AppendFacts DEF MainRight
<1> HIDE DEF u
<1>2. FirstMain(u) # 0 /\ u[FirstMain(u)] = p
  BY <1>1
<1>3. p.body[1] = [kind |-> "main", slice |-> p.body[1].slice, ids |-> p.body[1].ids]
  BY DEF IsMain, WellFormed
<1>4. MainRight(u)'
  BY <1>2, <1>3 DEF MainRight
<1> QED
  BY <1>4 DEF u

\* Packets of other kinds say nothing of the files.
LEMMA SeenStays ==
    ASSUME NEW own, NEW p, SeenRight(own), seen' = seen,
           p.type # "FileDesc", p.type # "IFSC"
    PROVE  SeenRight(own \cup {p})'
<1> DEFINE more == own \cup {p}
<1>1. Contents(more, "FileDesc") = Contents(own, "FileDesc")
      /\ Contents(more, "IFSC") = Contents(own, "IFSC")
  BY ContentsNext
<1> HIDE DEF more
<1>2. SeenRight(more)'
  BY <1>1 DEF SeenRight, AsSaid, Described, Summed
<1> QED
  BY <1>2 DEF more

LEMMA RecoveryStays ==
    ASSUME NEW own, NEW p, RecoveryRight(own), recovery' = recovery, p.type # "RecvSlic"
    PROVE  RecoveryRight(own \cup {p})'
<1> DEFINE more == own \cup {p}
<1>1. Slices(more) = Slices(own)
  BY ContentsNext
<1> HIDE DEF more
<1>2. RecoveryRight(more)'
  BY <1>1 DEF RecoveryRight
<1> QED
  BY <1>2 DEF more

\* A map with a new value.
LEMMA WithFacts ==
    \A map, key, value :
        /\ \A k : k \in DOMAIN With(map, key, value) <=> k \in DOMAIN map \/ k = key
        /\ With(map, key, value)[key] = value
        /\ \A k \in DOMAIN map : k # key => With(map, key, value)[k] = map[k]
  BY DEF With

\* A description is taken, and what was known of the checksums stays.
LEMMA DescTaken ==
    ASSUME NEW own, NEW p, SeenRight(own), WellFormed(p), p.type = "FileDesc", p.body # << >>,
           NEW c, c = p.body[1],
           seen' = With(seen, c.id, [size |-> c.size, name |-> c.name, slices |-> SlicesSeen(c.id)])
    PROVE  SeenRight(own \cup {p})'
<1> DEFINE more == own \cup {p}
           file == [size |-> c.size, name |-> c.name, slices |-> SlicesSeen(c.id)]
<1>1. Contents(more, "FileDesc") = Contents(own, "FileDesc") \cup {c}
      /\ Contents(more, "IFSC") = Contents(own, "IFSC")
  <2>1. \A type : Contents(more, type) =
          IF p.type = type THEN Contents(own, type) \cup {p.body[1]} ELSE Contents(own, type)
    BY ContentsNext
  <2> HIDE DEF more
  <2> QED
    BY <2>1
<1>2. c = [kind |-> "desc", id |-> c.id, size |-> c.size, name |-> c.name]
  BY DEF WellFormed
<1> HIDE DEF more
<1>3. /\ \A id : Described(more, id) <=> Described(own, id) \/ id = c.id
      /\ \A id : Summed(more, id) <=> Summed(own, id)
  BY <1>1 DEF Described, Summed
<1>4. /\ \A id : id \in DOMAIN seen <=> Described(own, id) \/ Summed(own, id)
      /\ \A id \in DOMAIN seen : AsSaid(own, id, seen[id])
  BY DEF SeenRight
<1>5. /\ \A id : id \in DOMAIN seen' <=> id \in DOMAIN seen \/ id = c.id
      /\ seen'[c.id] = file
      /\ \A id \in DOMAIN seen : id # c.id => seen'[id] = seen[id]
  <2>1. seen' = With(seen, c.id, file)
    OBVIOUS
  <2> HIDE DEF file
  <2> QED
    BY <2>1, WithFacts
<1>6. AsSaid(more, c.id, file)
  <2>1. /\ DOMAIN file = {"size", "name", "slices"} /\ file.size = c.size
        /\ file.name = c.name /\ file.slices = SlicesSeen(c.id)
    OBVIOUS
  <2> HIDE DEF file
  <2>2. CASE c.id \in DOMAIN seen
    <3>1. file.slices = seen[c.id].slices /\ AsSaid(own, c.id, seen[c.id])
      BY <1>4, <2>1, <2>2 DEF SlicesSeen
    <3> QED
      BY <1>1, <1>2, <1>3, <2>1, <3>1 DEF AsSaid
  <2>3. CASE c.id \notin DOMAIN seen
    <3>1. file.slices = << >> /\ ~Summed(own, c.id)
      BY <1>4, <2>1, <2>3 DEF SlicesSeen
    <3> QED
      BY <1>1, <1>2, <1>3, <2>1, <3>1 DEF AsSaid
  <2> QED
    BY <2>2, <2>3
<1> HIDE DEF file
<1>7. ASSUME NEW id \in DOMAIN seen, id # c.id PROVE AsSaid(more, id, seen[id])
  <2>1. AsSaid(own, id, seen[id])
    BY <1>4, <1>7
  <2>2. (Described(more, id) <=> Described(own, id)) /\ (Summed(more, id) <=> Summed(own, id))
    BY <1>3, <1>7
  <2> QED
    BY <1>1, <2>1, <2>2 DEF AsSaid
<1>8. \A id : id \in DOMAIN seen' <=> Described(more, id) \/ Summed(more, id)
  BY <1>3, <1>4, <1>5
<1>9. \A id \in DOMAIN seen' : AsSaid(more, id, seen'[id])
  BY <1>5, <1>6, <1>7
<1>10. SeenRight(more)'
  BY <1>8, <1>9 DEF SeenRight
<1> QED
  BY <1>10 DEF more

\* Checksums are taken unless there are some.
Before(id) ==
    IF id \in DOMAIN seen THEN seen[id] ELSE [size |-> 0, name |-> "", slices |-> << >>]
WithSums(old, slices) == IF old.slices # << >> THEN old ELSE [old EXCEPT !.slices = slices]

LEMMA SumsTaken ==
    ASSUME NEW own, NEW p, SeenRight(own), WellFormed(p), p.type = "IFSC", p.body # << >>,
           NEW c, c = p.body[1], NEW old,
           old = Before(c.id),
           NEW file,
           file = WithSums(old, c.slices),
           seen' = With(seen, c.id, file)
    PROVE  SeenRight(own \cup {p})'
<1> DEFINE more == own \cup {p}
<1>1. Contents(more, "IFSC") = Contents(own, "IFSC") \cup {c}
      /\ Contents(more, "FileDesc") = Contents(own, "FileDesc")
  <2>1. \A type : Contents(more, type) =
          IF p.type = type THEN Contents(own, type) \cup {p.body[1]} ELSE Contents(own, type)
    BY ContentsNext
  <2> HIDE DEF more
  <2> QED
    BY <2>1
<1>2. c = [kind |-> "sums", id |-> c.id, slices |-> c.slices]
  BY DEF WellFormed
<1> HIDE DEF more
<1>3. /\ \A id : Summed(more, id) <=> Summed(own, id) \/ id = c.id
      /\ \A id : Described(more, id) <=> Described(own, id)
  BY <1>1 DEF Described, Summed
<1>4. /\ \A id : id \in DOMAIN seen <=> Described(own, id) \/ Summed(own, id)
      /\ \A id \in DOMAIN seen : AsSaid(own, id, seen[id])
  BY DEF SeenRight
<1>5. /\ \A id : id \in DOMAIN seen' <=> id \in DOMAIN seen \/ id = c.id
      /\ seen'[c.id] = file
      /\ \A id \in DOMAIN seen : id # c.id => seen'[id] = seen[id]
  BY WithFacts
<1>6. AsSaid(own, c.id, old)
  <2>1. CASE c.id \in DOMAIN seen
    BY <1>4, <2>1 DEF Before
  <2>2. CASE c.id \notin DOMAIN seen
    <3>1. ~Described(own, c.id) /\ ~Summed(own, c.id)
      BY <1>4, <2>2
    <3>2. /\ DOMAIN old = {"size", "name", "slices"} /\ old.size = 0
          /\ old.name = "" /\ old.slices = << >>
      BY <2>2 DEF Before
    <3> QED
      BY <3>1, <3>2 DEF AsSaid
  <2> QED
    BY <2>1, <2>2
<1>7. AsSaid(more, c.id, file)
  <2>1. CASE old.slices # << >>
    <3>1. Summed(own, c.id) /\ file = old
      BY <1>6, <2>1 DEF AsSaid, WithSums
    <3> QED
      BY <1>1, <1>3, <1>6, <3>1 DEF AsSaid
  <2>2. CASE old.slices = << >>
    <3>1. DOMAIN old = {"size", "name", "slices"}
      BY <1>6 DEF AsSaid
    <3>2. /\ DOMAIN file = {"size", "name", "slices"} /\ file.size = old.size
          /\ file.name = old.name /\ file.slices = c.slices
      BY <2>2, <3>1 DEF WithSums
    <3> QED
      BY <1>1, <1>2, <1>3, <1>6, <3>2 DEF AsSaid
  <2> QED
    BY <2>1, <2>2
<1>8. ASSUME NEW id \in DOMAIN seen, id # c.id PROVE AsSaid(more, id, seen[id])
  <2>1. AsSaid(own, id, seen[id])
    BY <1>4, <1>8
  <2>2. (Described(more, id) <=> Described(own, id)) /\ (Summed(more, id) <=> Summed(own, id))
    BY <1>3, <1>8
  <2> QED
    BY <1>1, <2>1, <2>2 DEF AsSaid
<1>9. \A id : id \in DOMAIN seen' <=> Described(more, id) \/ Summed(more, id)
  BY <1>3, <1>4, <1>5
<1>10. \A id \in DOMAIN seen' : AsSaid(more, id, seen'[id])
  BY <1>5, <1>7, <1>8
<1>11. SeenRight(more)'
  BY <1>9, <1>10 DEF SeenRight
<1> QED
  BY <1>11 DEF more

\* A recovery slice is taken unless there is one with its exponent.
LEMMA SliceTaken ==
    ASSUME NEW own, NEW p, RecoveryRight(own), p.type = "RecvSlic",
           recovery' = FirstOf(recovery, p.body[1].exponent, Tail(p.body))
    PROVE  RecoveryRight(own \cup {p})'
<1> DEFINE more == own \cup {p}
           e == p.body[1].exponent
<1>1. Slices(more) = Slices(own) \cup {p}
  BY ContentsNext
<1> HIDE DEF more
<1>2. DOMAIN recovery = { q.body[1].exponent : q \in Slices(own) }
  BY DEF RecoveryRight
<1>3. /\ \A x : x \in DOMAIN recovery' <=> x \in DOMAIN recovery \/ x = e
      /\ e \notin DOMAIN recovery => recovery'[e] = Tail(p.body)
      /\ \A x \in DOMAIN recovery : recovery'[x] = recovery[x]
  <2>1. CASE e \in DOMAIN recovery
    BY <2>1 DEF FirstOf
  <2>2. CASE e \notin DOMAIN recovery
    <3>1. recovery' = With(recovery, e, Tail(p.body))
      BY <2>2 DEF FirstOf
    <3> QED
      BY <2>2, <3>1, WithFacts
  <2> QED
    BY <2>1, <2>2
<1>4. DOMAIN recovery' = { q.body[1].exponent : q \in Slices(more) }
  <2>1. \A x : x \in DOMAIN recovery <=> \E q \in Slices(own) : x = q.body[1].exponent
    BY <1>2
  <2>2. \A x : x \in DOMAIN recovery' <=> \E q \in Slices(more) : x = q.body[1].exponent
    BY <1>1, <1>3, <2>1, Zenon
  <2> QED
    BY <2>2
<1>5. ASSUME NEW x \in DOMAIN recovery'
      PROVE  \E q \in Slices(more) : q.body[1].exponent = x /\ recovery'[x] = Tail(q.body)
  <2>1. CASE x \in DOMAIN recovery
    <3>1. PICK q \in Slices(own) : q.body[1].exponent = x /\ recovery[x] = Tail(q.body)
      BY <2>1 DEF RecoveryRight
    <3> QED
      BY <1>1, <1>3, <2>1, <3>1
  <2>2. CASE x \notin DOMAIN recovery
    <3>1. x = e /\ recovery'[x] = Tail(p.body)
      BY <1>3, <2>2
    <3> QED
      BY <1>1, <3>1
  <2> QED
    BY <2>1, <2>2
<1>6. RecoveryRight(more)'
  BY <1>4, <1>5 DEF RecoveryRight
<1> QED
  BY <1>6 DEF more

-----------------------------------------------------------------------------
(* The inductive invariant of Parse. *)

\* What was read of the files that were opened.
ReadSoFar == Parts(Survivors)[path]

PlaceInv ==
    /\ pc \in {"stored", "parse"} \cup Ended
    /\ path \in 0 .. Len(files) /\ queue \in Seq(Sent)
    /\ pc = "stored" => path = 0 /\ queue = << >>

\* All of it but the queue was taken.
TakenInv == \E t \in Seq(Sent) : t \o queue = ReadSoFar /\ TakenRight(t)

\* A result, and what it rests on.
ResultInv ==
    /\ pc \in {"ok", "nomain", "missing"} => path = Len(files) /\ queue = << >>
    /\ pc = "nomain" => ~haveMain
    /\ pc = "missing" => haveMain /\ \E i \in DOMAIN order : order[i] \notin DOMAIN seen
    /\ pc = "ok" => /\ haveMain /\ \A i \in DOMAIN order : order[i] \in DOMAIN seen
                    /\ parsed = [i \in DOMAIN order |-> seen[order[i]]]

ParseInv == FilesInv /\ PlaceInv /\ TakenInv /\ ResultInv

\* Each step of Parse that takes a packet keeps what was taken right.
LEMMA OneTaken ==
    ASSUME NEW S, NEW t \in Seq(S), NEW p \in S, MainRight(t),
           p.body # << >>, ~Foreign(p), MainRight(Append(t, p))',
           SeenRight(Relevant(t) \cup {p})', RecoveryRight(Relevant(t) \cup {p})'
    PROVE  TakenRight(Append(t, p))'
<1> DEFINE u == Append(t, p)
           more == Relevant(t) \cup {p}
<1>1. Relevant(u) = more
  BY RelevantTaken
<1> HIDE DEF u, more
<1>2. MainRight(u)' /\ SeenRight(more)' /\ RecoveryRight(more)'
  BY DEF u, more
<1>3. TakenRight(u)'
  BY <1>1, <1>2 DEF TakenRight
<1> QED
  BY <1>3 DEF u

LEMMA TakeActions ==
    ASSUME NEW S, NEW t \in Seq(S), NEW p \in S, p = Head(queue), WellFormed(p), TakenRight(t),
           TakeMain \/ TakeFileDesc \/ TakeIFSC \/ TakeRecovery \/ TakeCreator
    PROVE  TakenRight(Append(t, p))'
<1>1. MainRight(t) /\ SeenRight(Relevant(t)) /\ RecoveryRight(Relevant(t))
  BY DEF TakenRight
<1> DEFINE c == p.body[1]
<1>2. c = Content
  BY DEF Content
<1>3. ASSUME NEW type, Take(type)
      PROVE  ~Foreign(p) /\ p.type = type /\ p.body # << >>
  BY <1>3 DEF Take
<1>4. CASE TakeMain
  <2>1. /\ ~haveMain /\ haveMain' /\ setID' = p.set /\ sliceSize' = c.slice /\ order' = c.ids
        /\ seen' = seen /\ recovery' = recovery
    BY <1>2, <1>4 DEF TakeMain
  <2>2. ~Foreign(p) /\ p.type = "Main" /\ p.body # << >>
    BY <1>3, <1>4 DEF TakeMain
  <2>3. MainRight(Append(t, p))'
    BY <1>1, <2>1, <2>2, MainTaken DEF IsMain
  <2>4. SeenRight(Relevant(t) \cup {p})'
    BY <1>1, <2>1, <2>2, SeenStays
  <2>5. RecoveryRight(Relevant(t) \cup {p})'
    BY <1>1, <2>1, <2>2, RecoveryStays
  <2> QED
    BY <1>1, <2>2, <2>3, <2>4, <2>5, OneTaken
<1>5. CASE TakeFileDesc
  <2>1. /\ UNCHANGED <<haveMain, setID, sliceSize, order>> /\ recovery' = recovery
        /\ seen' = With(seen, c.id, [size |-> c.size, name |-> c.name, slices |-> SlicesSeen(c.id)])
    BY <1>2, <1>5 DEF TakeFileDesc
  <2>2. ~Foreign(p) /\ p.type = "FileDesc" /\ p.body # << >>
    BY <1>3, <1>5 DEF TakeFileDesc
  <2>3. MainRight(Append(t, p))'
    BY <1>1, <2>1, <2>2, MainStays DEF IsMain
  <2>4. SeenRight(Relevant(t) \cup {p})'
    BY <1>1, <2>1, <2>2, DescTaken
  <2>5. RecoveryRight(Relevant(t) \cup {p})'
    BY <1>1, <2>1, <2>2, RecoveryStays
  <2> QED
    BY <1>1, <2>2, <2>3, <2>4, <2>5, OneTaken
<1>6. CASE TakeIFSC
  <2>1. /\ UNCHANGED <<haveMain, setID, sliceSize, order>> /\ recovery' = recovery
        /\ seen' = With(seen, c.id, WithSums(Before(c.id), c.slices))
    BY <1>2, <1>6, Zenon DEF TakeIFSC, Before, WithSums
  <2>2. ~Foreign(p) /\ p.type = "IFSC" /\ p.body # << >>
    BY <1>3, <1>6 DEF TakeIFSC
  <2>3. MainRight(Append(t, p))'
    BY <1>1, <2>1, <2>2, MainStays DEF IsMain
  <2>4. SeenRight(Relevant(t) \cup {p})'
    BY <1>1, <2>1, <2>2, SumsTaken
  <2>5. RecoveryRight(Relevant(t) \cup {p})'
    BY <1>1, <2>1, <2>2, RecoveryStays
  <2> QED
    BY <1>1, <2>2, <2>3, <2>4, <2>5, OneTaken
<1>7. CASE TakeRecovery
  <2>1. /\ UNCHANGED <<haveMain, setID, sliceSize, order>> /\ seen' = seen
        /\ recovery' = FirstOf(recovery, c.exponent, Tail(p.body))
    BY <1>2, <1>7 DEF TakeRecovery
  <2>2. ~Foreign(p) /\ p.type = "RecvSlic" /\ p.body # << >>
    BY <1>3, <1>7 DEF TakeRecovery
  <2>3. MainRight(Append(t, p))'
    BY <1>1, <2>1, <2>2, MainStays DEF IsMain
  <2>4. SeenRight(Relevant(t) \cup {p})'
    BY <1>1, <2>1, <2>2, SeenStays
  <2>5. RecoveryRight(Relevant(t) \cup {p})'
    BY <1>1, <2>1, <2>2, SliceTaken
  <2> QED
    BY <1>1, <2>2, <2>3, <2>4, <2>5, OneTaken
<1>8. CASE TakeCreator
  <2>1. UNCHANGED <<haveMain, setID, sliceSize, order>> /\ seen' = seen /\ recovery' = recovery
    BY <1>8 DEF TakeCreator
  <2>2. ~Foreign(p) /\ p.type = "Creator" /\ p.body # << >>
    BY <1>3, <1>8 DEF TakeCreator
  <2>3. MainRight(Append(t, p))'
    BY <1>1, <2>1, <2>2, MainStays DEF IsMain
  <2>4. SeenRight(Relevant(t) \cup {p})'
    BY <1>1, <2>1, <2>2, SeenStays
  <2>5. RecoveryRight(Relevant(t) \cup {p})'
    BY <1>1, <2>1, <2>2, RecoveryStays
  <2> QED
    BY <1>1, <2>2, <2>3, <2>4, <2>5, OneTaken
<1> QED
  BY <1>4, <1>5, <1>6, <1>7, <1>8

\* Nothing was taken: what was right stays right.
LEMMA StaysRight ==
    ASSUME NEW t, TakenRight(t), UNCHANGED parseVars
    PROVE  TakenRight(t)'
<1> DEFINE own == Relevant(t)
<1>1. MainRight(t) /\ SeenRight(own) /\ RecoveryRight(own)
  BY DEF TakenRight
<1>2. /\ haveMain' = haveMain /\ setID' = setID /\ sliceSize' = sliceSize /\ order' = order
      /\ seen' = seen /\ recovery' = recovery
  BY DEF parseVars
<1> HIDE DEF own
<1>3. MainRight(t)'
  BY <1>1, <1>2 DEF MainRight
<1>4. SeenRight(own)'
  BY <1>1, <1>2 DEF SeenRight
<1>5. RecoveryRight(own)'
  BY <1>1, <1>2 DEF RecoveryRight
<1> QED
  BY <1>3, <1>4, <1>5 DEF TakenRight, own

LEMMA SkipAction ==
    ASSUME NEW S, NEW t \in Seq(S), NEW p \in S, p = Head(queue), TakenRight(t), Skip
    PROVE  TakenRight(Append(t, p))'
<1> DEFINE u == Append(t, p)
           own == Relevant(t)
           more == own \cup {p}
<1>1. MainRight(t) /\ SeenRight(own) /\ RecoveryRight(own)
  BY DEF TakenRight
<1>2. /\ Foreign(p) \/ p.type \notin Known \/ p.body = << >> \/ (p.type = "Main" /\ haveMain)
      /\ UNCHANGED parseVars
  BY DEF Skip
<1>3. UNCHANGED <<haveMain, setID, sliceSize, order>> /\ seen' = seen /\ recovery' = recovery
  BY <1>2 DEF parseVars
<1>4. ~IsMain(p) \/ haveMain
  BY <1>2 DEF IsMain, Foreign, Known
<1>5. MainRight(u)'
  BY <1>1, <1>3, <1>4, MainStays
<1>6. CASE p.body = << >> \/ Foreign(p)
  <2>1. Relevant(u) = own
    BY <1>1, <1>6, RelevantTaken
  <2>2. TakenRight(t)'
    BY <1>2, StaysRight
  <2> HIDE DEF u
  <2>3. SeenRight(own)' /\ RecoveryRight(own)'
    BY <2>2 DEF TakenRight
  <2> HIDE DEF own
  <2>4. TakenRight(u)'
    BY <1>5, <2>1, <2>3 DEF TakenRight
  <2> QED
    BY <2>4 DEF u
<1>7. CASE ~(p.body = << >> \/ Foreign(p))
  <2>1. p.type # "FileDesc" /\ p.type # "IFSC" /\ p.type # "RecvSlic"
    BY <1>2, <1>7 DEF Known
  <2>2. SeenRight(more)'
    BY <1>1, <1>3, <2>1, SeenStays
  <2>3. RecoveryRight(more)'
    BY <1>1, <1>3, <2>1, RecoveryStays
  <2> QED
    BY <1>1, <1>5, <1>7, <2>2, <2>3, OneTaken
<1> QED
  BY <1>6, <1>7

\* What survives is a sequence for each file, now and after the next step.
LEMMA SurvivorsRead ==
    FilesInv => /\ Survivors \in Seq(Seq(Sent)) /\ Len(Survivors) = Len(files)
                /\ Len(files) \in Nat /\ IsParts(Survivors, Parts(Survivors))
                /\ \A k \in 0 .. Len(files) : Parts(Survivors)[k] \in Seq(Sent)
                /\ AllSurviving = Parts(Survivors)[Len(files)]
<1> SUFFICES ASSUME FilesInv
             PROVE  /\ Survivors \in Seq(Seq(Sent)) /\ Len(Survivors) = Len(files)
                    /\ Len(files) \in Nat /\ IsParts(Survivors, Parts(Survivors))
                    /\ \A k \in 0 .. Len(files) : Parts(Survivors)[k] \in Seq(Sent)
                    /\ AllSurviving = Parts(Survivors)[Len(files)]
  OBVIOUS
<1>1. Survivors \in Seq(Seq(Sent)) /\ Len(Survivors) = Len(files) /\ Len(files) \in Nat
  BY FilesAreRead
<1>2. AllSurviving = FlattenSeq(Survivors)
  BY DEF AllSurviving, Survivors
<1> DEFINE ss == Survivors
           S == Sent
<1> HIDE DEF ss, S
<1>3. ss \in Seq(Seq(S))
  BY <1>1 DEF ss, S
<1>4. /\ IsParts(ss, Parts(ss)) /\ \A k \in 0 .. Len(ss) : Parts(ss)[k] \in Seq(S)
      /\ FlattenSeq(ss) = Parts(ss)[Len(ss)]
  BY <1>3, PartsFacts
<1> QED
  BY <1>1, <1>2, <1>4 DEF ss, S

LEMMA SurvivorsNext ==
    FilesInv' => Survivors' \in Seq(Seq(Sent')) /\ IsParts(Survivors', Parts(Survivors'))
<1>1. FilesInv => Survivors \in Seq(Seq(Sent)) /\ IsParts(Survivors, Parts(Survivors))
  BY SurvivorsRead
<1>2. (FilesInv => Survivors \in Seq(Seq(Sent)) /\ IsParts(Survivors, Parts(Survivors)))'
  BY <1>1, PTL
<1> QED
  BY <1>2

LEMMA FilesKept ==
    ASSUME UNCHANGED fileVars
    PROVE  Survivors' = Survivors /\ Sent' = Sent /\ Len(files)' = Len(files)
<1>1. stored' = stored /\ files' = files
  BY DEF fileVars
<1> QED
  BY <1>1 DEF Survivors, Sent

LEMMA InitParse == Init => ParseInv
<1> SUFFICES ASSUME Init PROVE ParseInv
  OBVIOUS
<1>1. FilesInv
  BY InitFiles
<1>2. /\ pc = "stored" /\ path = 0 /\ queue = << >> /\ haveMain = FALSE
      /\ seen = EmptyMap /\ recovery = EmptyMap
  BY DEF Init
<1>3. PlaceInv
  <2>1. Len(files) \in Nat
    BY <1>1, SurvivorsRead
  <2> QED
    BY <1>2, <2>1 DEF PlaceInv
<1>4. FirstMain(<< >>) = 0 /\ Relevant(<< >>) = {}
  <2>1. << >> \in Seq(Nat) /\ Len(<< >>) = 0
    OBVIOUS
  <2>2. FirstMain(<< >>) \in 0 .. Len(<< >>)
    BY <2>1, FirstMainFacts
  <2> QED
    BY <2>1, <2>2 DEF Relevant
<1>5. TakenRight(<< >>)
  <2>1. MainRight(<< >>)
    BY <1>2, <1>4 DEF MainRight, Init
  <2>2. DOMAIN seen = {} /\ DOMAIN recovery = {}
    BY <1>2 DEF EmptyMap
  <2>3. \A type : Contents({}, type) = {}
    BY DEF Contents
  <2>4. Slices({}) = {}
    BY DEF Slices
  <2>5. SeenRight({})
    BY <2>2, <2>3 DEF SeenRight, Described, Summed
  <2>6. RecoveryRight({})
    BY <2>2, <2>4 DEF RecoveryRight
  <2> QED
    BY <1>4, <2>1, <2>5, <2>6 DEF TakenRight
<1>6. TakenInv
  <2>1. ReadSoFar = << >>
    BY <1>1, <1>2, SurvivorsRead DEF ReadSoFar, IsParts
  <2>2. << >> \in Seq(Sent) /\ << >> \o queue = << >>
    BY <1>2
  <2> QED
    BY <1>5, <2>1, <2>2 DEF TakenInv
<1>7. ResultInv
  BY <1>2 DEF ResultInv
<1> QED
  BY <1>1, <1>3, <1>6, <1>7 DEF ParseInv

\* Damage, which comes before Parse.
LEMMA DamageParse == ParseInv /\ (Spoil \/ Truncate) => ParseInv'
<1> SUFFICES ASSUME ParseInv, Spoil \/ Truncate PROVE ParseInv'
  OBVIOUS
<1>1. FilesInv'
  BY DamageFiles DEF ParseInv
<1>2. /\ pc = "stored" /\ pc' = pc /\ path' = path /\ queue' = queue /\ UNCHANGED parseVars
      /\ stored' = stored
  BY DEF Spoil, Truncate
<1>3. path = 0 /\ queue = << >>
  BY <1>2 DEF ParseInv, PlaceInv
<1>4. Len(files') \in Nat
  BY <1>1, StoredFacts, SeqFacts DEF FilesInv
<1>5. PlaceInv'
  BY <1>2, <1>3, <1>4 DEF PlaceInv
<1>6. TakenInv'
  <2>1. PICK t \in Seq(Sent) : t \o queue = ReadSoFar /\ TakenRight(t)
    BY DEF ParseInv, TakenInv
  <2>2. ReadSoFar = << >>
    BY <1>3, SurvivorsRead DEF ReadSoFar, IsParts, ParseInv
  <2>3. ReadSoFar' = << >>
    <3>1. IsParts(Survivors', Parts(Survivors'))
      BY <1>1, SurvivorsNext
    <3> QED
      BY <1>2, <1>3, <3>1 DEF ReadSoFar, IsParts
  <2>4. TakenRight(t)'
    BY <1>2, <2>1, StaysRight
  <2>5. Sent' = Sent
    BY <1>2 DEF Sent
  <2> QED
    BY <1>2, <2>1, <2>2, <2>3, <2>4, <2>5 DEF TakenInv
<1>7. ResultInv'
  BY <1>2 DEF ResultInv
<1> QED
  BY <1>1, <1>5, <1>6, <1>7 DEF ParseInv

\* Opening a file: all of it is still to be taken.
LEMMA OpenParse == ParseInv /\ OpenFile => ParseInv'
<1> SUFFICES ASSUME ParseInv, OpenFile PROVE ParseInv'
  OBVIOUS
<1>1. FilesInv /\ UNCHANGED fileVars /\ UNCHANGED parseVars
  BY DEF ParseInv, OpenFile
<1>2. FilesInv'
  BY <1>1, ParsingFiles
<1>3. /\ queue = << >> /\ path < Len(files) /\ path' = path + 1 /\ pc' = "parse"
      /\ queue' = ReadPackets(files[path + 1])
  BY DEF OpenFile, FileEnded
<1>4. /\ Survivors \in Seq(Seq(Sent)) /\ Len(Survivors) = Len(files) /\ Len(files) \in Nat
      /\ IsParts(Survivors, Parts(Survivors))
  BY <1>1, SurvivorsRead
<1>5. path + 1 \in 1 .. Len(files) /\ (path + 1) - 1 = path
  BY <1>3, <1>4 DEF ParseInv, PlaceInv
<1>6. queue' = Survivors[path + 1]
  BY <1>1, <1>3, <1>5, FilesAreRead
<1>7. queue' \in Seq(Sent)
  BY <1>4, <1>5, <1>6
<1>8. PlaceInv'
  <2>1. queue' \in Seq(Sent') /\ Len(files)' = Len(files)
    BY <1>1, <1>7, FilesKept
  <2> QED
    BY <1>3, <1>5, <2>1 DEF PlaceInv
<1>9. TakenInv'
  <2>1. PICK t \in Seq(Sent) : t \o queue = ReadSoFar /\ TakenRight(t)
    BY DEF ParseInv, TakenInv
  <2>2. t = ReadSoFar
    <3>1. t \o << >> = t
      BY <2>1, ConcatEmptySeq
    <3> QED
      BY <1>3, <2>1, <3>1
  <2>3. t \o queue' = Parts(Survivors)[path + 1]
    <3>1. Parts(Survivors)[path + 1] = Parts(Survivors)[(path + 1) - 1] \o Survivors[path + 1]
      BY <1>4, <1>5 DEF IsParts
    <3> QED
      BY <1>5, <1>6, <2>2, <3>1, Zenon DEF ReadSoFar
  <2>4. Survivors' = Survivors /\ Sent' = Sent
    BY <1>1, FilesKept
  <2>5. TakenRight(t)'
    BY <1>1, <2>1, StaysRight
  <2>6. t \o queue' = ReadSoFar'
    BY <1>3, <2>3, <2>4, Zenon DEF ReadSoFar
  <2> QED
    BY <2>1, <2>4, <2>5, <2>6, Zenon DEF TakenInv
<1>10. ResultInv'
  BY <1>3 DEF ResultInv
<1> QED
  BY <1>2, <1>8, <1>9, <1>10 DEF ParseInv

\* Taking a packet, or passing over it.
LEMMA HeadTail ==
    ASSUME NEW S, NEW t \in Seq(S), NEW q \in Seq(S), q # << >>
    PROVE  /\ Head(q) \in S /\ Tail(q) \in Seq(S)
           /\ Append(t, Head(q)) \in Seq(S) /\ Append(t, Head(q)) \o Tail(q) = t \o q
<1> DEFINE p == Head(q)
           r == Tail(q)
<1>1. p \in S /\ r \in Seq(S) /\ <<p>> \in Seq(S)
  BY HeadTailProperties
<1>2. q = <<p>> \o r
  <2>1. Len(q) \in Nat \ {0} /\ Len(r) = Len(q) - 1 /\ p = q[1]
    BY HeadTailProperties
  <2>2. \A k \in 1 .. Len(r) : r[k] = q[k + 1]
    BY HeadTailProperties
  <2> HIDE DEF p, r
  <2>3. <<p>> \o r \in Seq(S) /\ Len(<<p>> \o r) = Len(q)
    BY <1>1, <2>1, ConcatProperties
  <2>4. ASSUME NEW k \in 1 .. Len(q) PROVE (<<p>> \o r)[k] = q[k]
    <3>1. (<<p>> \o r)[k] = IF k <= Len(<<p>>) THEN <<p>>[k] ELSE r[k - Len(<<p>>)]
      <4>1. k \in 1 .. Len(<<p>>) + Len(r)
        BY <1>1, <2>1
      <4> QED
        BY <1>1, <4>1, ConcatProperties
    <3>2. CASE k = 1
      BY <2>1, <3>1, <3>2
    <3>3. CASE k # 1
      <4>1. k - 1 \in 1 .. Len(r) /\ (k - 1) + 1 = k /\ ~(k <= 1)
        BY <2>1, <3>3
      <4>2. (<<p>> \o r)[k] = r[k - 1]
        BY <3>1, <4>1
      <4>3. r[k - 1] = q[(k - 1) + 1]
        BY <2>2, <4>1
      <4> QED
        BY <4>1, <4>2, <4>3
    <3> QED
      BY <3>2, <3>3
  <2> QED
    BY <2>3, <2>4, SeqEqual
<1>3. Append(t, p) \in Seq(S) /\ Append(t, p) = t \o <<p>>
  BY <1>1, AppendIsConcat
<1> HIDE DEF p, r
<1>4. (t \o <<p>>) \o r = t \o (<<p>> \o r)
  BY <1>1, ConcatAssociative
<1>5. Append(t, p) \o r = t \o q
  BY <1>2, <1>3, <1>4, Zenon
<1> QED
  BY <1>1, <1>3, <1>5 DEF p, r

LEMMA TakeParse ==
    ASSUME ParseInv,
           Skip \/ TakeMain \/ TakeFileDesc \/ TakeIFSC \/ TakeRecovery \/ TakeCreator
    PROVE  ParseInv'
<1>1. TakeNext
  BY DEF Skip, TakeMain, TakeFileDesc, TakeIFSC, TakeRecovery, TakeCreator, Take
<1>2. /\ pc = "parse" /\ queue # << >> /\ queue' = Tail(queue)
      /\ UNCHANGED fileVars /\ pc' = pc /\ path' = path
  BY <1>1 DEF TakeNext
<1>3. FilesInv'
  BY <1>2, ParsingFiles DEF ParseInv
<1>4. /\ FilesInv /\ queue \in Seq(Sent) /\ path \in 0 .. Len(files)
      /\ Sent' = Sent /\ Survivors' = Survivors /\ Len(files)' = Len(files)
  BY <1>2, FilesKept DEF ParseInv, PlaceInv
<1>5. PICK t \in Seq(Sent) : t \o queue = ReadSoFar /\ TakenRight(t)
  BY DEF ParseInv, TakenInv
<1>6. PICK p : p = Head(queue)
  OBVIOUS
<1> DEFINE u == Append(t, p)
<1>7. p \in Sent /\ queue' \in Seq(Sent) /\ u \in Seq(Sent) /\ u \o queue' = ReadSoFar
  <2>1. /\ Head(queue) \in Sent /\ Tail(queue) \in Seq(Sent)
        /\ Append(t, Head(queue)) \in Seq(Sent)
        /\ Append(t, Head(queue)) \o Tail(queue) = t \o queue
    BY <1>2, <1>4, HeadTail
  <2> QED
    BY <1>2, <1>5, <1>6, <2>1
<1>8. WellFormed(p)
  BY <1>4, <1>7, StoredFacts DEF FilesInv
<1>9. TakenRight(u)'
  BY <1>5, <1>6, <1>7, <1>8, TakeActions, SkipAction
<1> HIDE DEF u
<1>10. PlaceInv'
  BY <1>2, <1>4, <1>7 DEF PlaceInv
<1>11. TakenInv'
  <2>1. ReadSoFar' = ReadSoFar
    BY <1>2, <1>4 DEF ReadSoFar
  <2> QED
    BY <1>4, <1>7, <1>9, <2>1, Zenon DEF TakenInv
<1>12. ResultInv'
  BY <1>2 DEF ResultInv
<1> QED
  BY <1>3, <1>10, <1>11, <1>12 DEF ParseInv

\* Parse ends, or nothing happens.
LEMMA EndParse ==
    ASSUME ParseInv,
           OpenFails \/ NoMain \/ MissingDescription \/ Finish \/ Returned \/ UNCHANGED vars
    PROVE  ParseInv'
<1>1. /\ UNCHANGED fileVars /\ path' = path /\ queue' = queue
      /\ haveMain' = haveMain /\ setID' = setID /\ sliceSize' = sliceSize /\ order' = order
      /\ seen' = seen /\ recovery' = recovery
  BY DEF OpenFails, NoMain, MissingDescription, Finish, Returned, vars, parseVars
<1>2. FilesInv'
  BY <1>1, ParsingFiles DEF ParseInv
<1>3. Sent' = Sent /\ Survivors' = Survivors /\ Len(files)' = Len(files)
  BY <1>1, FilesKept
<1>4. PlaceInv /\ ResultInv
  BY DEF ParseInv
<1>5. \/ UNCHANGED <<pc, parsed>>
      \/ pc' = "unreadable"
      \/ AllRead /\ ~haveMain /\ pc' = "nomain"
      \/ AllRead /\ haveMain /\ (\E i \in DOMAIN order : order[i] \notin DOMAIN seen) /\ pc' = "missing"
      \/ /\ AllRead /\ haveMain /\ \A i \in DOMAIN order : order[i] \in DOMAIN seen
         /\ parsed' = [i \in DOMAIN order |-> seen[order[i]]] /\ pc' = "ok"
  BY DEF OpenFails, NoMain, MissingDescription, Finish, Returned, vars, parseVars
<1>6. PlaceInv'
  BY <1>1, <1>3, <1>4, <1>5 DEF PlaceInv, Ended
<1>7. ResultInv'
  BY <1>1, <1>3, <1>4, <1>5 DEF ResultInv, AllRead
<1>8. TakenInv'
  <2>1. PICK t \in Seq(Sent) : t \o queue = ReadSoFar /\ TakenRight(t)
    BY DEF ParseInv, TakenInv
  <2>2. TakenRight(t)'
    <3> DEFINE own == Relevant(t)
    <3>1. MainRight(t) /\ SeenRight(own) /\ RecoveryRight(own)
      BY <2>1 DEF TakenRight
    <3> HIDE DEF own
    <3>2. MainRight(t)'
      BY <1>1, <3>1 DEF MainRight
    <3>3. SeenRight(own)'
      BY <1>1, <3>1 DEF SeenRight
    <3>4. RecoveryRight(own)'
      BY <1>1, <3>1 DEF RecoveryRight
    <3> QED
      BY <3>2, <3>3, <3>4 DEF TakenRight, own
  <2>3. ReadSoFar' = ReadSoFar
    BY <1>1, <1>3 DEF ReadSoFar
  <2> QED
    BY <1>1, <1>3, <2>1, <2>2, <2>3, Zenon DEF TakenInv
<1> QED
  BY <1>2, <1>6, <1>7, <1>8 DEF ParseInv

LEMMA NextParse == ParseInv /\ [Next]_vars => ParseInv'
<1> SUFFICES ASSUME ParseInv, [Next]_vars PROVE ParseInv'
  OBVIOUS
<1>1. CASE Spoil \/ Truncate
  BY <1>1, DamageParse
<1>2. CASE OpenFile
  BY <1>2, OpenParse
<1>3. CASE Skip \/ TakeMain \/ TakeFileDesc \/ TakeIFSC \/ TakeRecovery \/ TakeCreator
  BY <1>3, TakeParse
<1>4. CASE OpenFails \/ NoMain \/ MissingDescription \/ Finish \/ Returned \/ UNCHANGED vars
  BY <1>4, EndParse
<1> QED
  BY <1>1, <1>2, <1>3, <1>4 DEF Next

\* What Parse made of the packets is right at every step.
LEMMA ParseIsRight == Spec => []ParseInv
  BY InitParse, NextParse, PTL DEF Spec

-----------------------------------------------------------------------------
(* What follows from it. *)

\* At the end everything that survived has been taken.
LEMMA AllTaken ==
    ASSUME ParseInv, pc \in {"ok", "nomain", "missing"}
    PROVE  AllSurviving \in Seq(Sent) /\ TakenRight(AllSurviving)
<1>1. PICK t \in Seq(Sent) : t \o queue = ReadSoFar /\ TakenRight(t)
  BY DEF ParseInv, TakenInv
<1>2. path = Len(files) /\ queue = << >>
  BY DEF ParseInv, ResultInv
<1>3. t \o << >> = t
  BY <1>1, ConcatEmptySeq
<1>4. AllSurviving = Parts(Survivors)[Len(files)]
  BY SurvivorsRead DEF ParseInv
<1>5. AllSurviving = t
  BY <1>1, <1>2, <1>3, <1>4, Zenon DEF ReadSoFar
<1> QED
  BY <1>1, <1>5, Zenon

FlagInv == haveMain \in BOOLEAN

LEMMA FlagIsBoolean == Spec => []FlagInv
<1>1. Init => FlagInv
  BY Zenon DEF Init, FlagInv
<1>2. FlagInv /\ [Next]_vars => FlagInv'
  <2> SUFFICES ASSUME haveMain \in BOOLEAN, [Next]_vars PROVE haveMain' \in BOOLEAN
    BY DEF FlagInv
  <2>1. haveMain' = haveMain \/ haveMain' = TRUE
    BY DEF Next, Spoil, Truncate, OpenFile, OpenFails, Skip, TakeMain, TakeFileDesc, TakeIFSC,
           TakeRecovery, TakeCreator, NoMain, MissingDescription, Finish, Returned, vars, parseVars
  <2> QED
    BY <2>1, Zenon
<1> QED
  BY <1>1, <1>2, PTL DEF Spec

\* The files, the counters and what Parse has collected have their types, and
\* a set is known exactly from the first main packet on.  (par2.go:294-312)
THEOREM TypeCorrect == Spec => []TypeOK
<1>1. ParseInv /\ FlagInv => TypeOK
  <2> SUFFICES ASSUME ParseInv, haveMain \in BOOLEAN PROVE TypeOK
    BY DEF FlagInv
  <2>1. PICK t \in Seq(Sent) : TakenRight(t)
    BY DEF ParseInv, TakenInv
  <2>2. haveMain = (setID # "")
    <3>1. CASE haveMain
      <4>1. FirstMain(t) # 0 /\ setID = t[FirstMain(t)].set
        BY <2>1, <3>1 DEF TakenRight, MainRight
      <4>2. t[FirstMain(t)] \in Sent
        <5>1. FirstMain(t) \in 1 .. Len(t)
          BY <4>1, FirstMainFacts
        <5> QED
          BY <5>1
      <4>3. WellFormed(t[FirstMain(t)])
        BY <4>2, StoredFacts DEF ParseInv, FilesInv
      <4>4. setID # ""
        BY <4>1, <4>3, Zenon DEF WellFormed
      <4> QED
        BY <3>1, <4>4, Zenon
    <3>2. CASE ~haveMain
      <4>1. setID = ""
        BY <2>1, <3>2, Zenon DEF TakenRight, MainRight
      <4> QED
        BY <3>2, <4>1, Zenon
    <3> QED
      BY <3>1, <3>2
  <2>3. \A id \in DOMAIN seen : DOMAIN seen[id] = {"size", "name", "slices"}
    BY <2>1, Zenon DEF TakenRight, SeenRight, AsSaid
  <2>4. /\ pc \in {"stored", "parse"} \cup Ended
        /\ damage \in 0 .. MaxDamage /\ cut \in BOOLEAN
        /\ path \in 0 .. Len(files) /\ Len(files) = Len(stored)
    BY DEF ParseInv, PlaceInv, FilesInv
  <2>5. pc = "ok" => DOMAIN parsed = DOMAIN order
    BY DEF ParseInv, ResultInv
  <2> QED
    BY <2>2, <2>3, <2>4, <2>5, Zenon DEF TypeOK
<1> QED
  BY <1>1, ParseIsRight, FlagIsBoolean, PTL

\* Damage costs the packets it hits and no other, whatever it made of the
\* lengths of packets and wherever a file was cut.  (par2.go:66-68)
THEOREM DamageStaysLocal == Spec => []DamageIsLocal
<1>1. ParseInv => DamageIsLocal
  <2> SUFFICES ASSUME ParseInv, NEW f \in DOMAIN files
               PROVE  ReadPackets(files[f]) = Surviving(files[f])
    BY DEF DamageIsLocal
  <2> QED
    BY FilesAreRead DEF ParseInv, Survivors
<1> QED
  BY <1>1, ParseIsRight, PTL

\* The set that Parse returns is made of the packets that survived and belong
\* to it, whatever their order and number.  (par2.go:294-377)
THEOREM SetIsOfSurvivors == Spec => []ParsedFromSurvivors
<1>1. ParseInv => ParsedFromSurvivors
  <2> DEFINE packets == AllSurviving
             own == Own(packets)
             descs == Contents(own, "FileDesc")
             sums == Contents(own, "IFSC")
             slices == { p \in own : p.type = "RecvSlic" }
  <2> SUFFICES ASSUME ParseInv, pc = "ok", Unmixed(packets)
               PROVE  /\ [kind |-> "main", slice |-> sliceSize, ids |-> order] \in Contents(own, "Main")
                      /\ \A i \in DOMAIN order :
                           /\ IF \E d \in descs : d.id = order[i]
                              THEN [kind |-> "desc", id |-> order[i], size |-> parsed[i].size,
                                    name |-> parsed[i].name] \in descs
                              ELSE parsed[i].size = 0 /\ parsed[i].name = ""
                           /\ IF \E c \in sums : c.id = order[i]
                              THEN [kind |-> "sums", id |-> order[i], slices |-> parsed[i].slices]
                                     \in sums
                              ELSE parsed[i].slices = << >>
                      /\ DOMAIN recovery = { p.body[1].exponent : p \in slices }
                      /\ \A e \in DOMAIN recovery :
                           \E p \in slices : p.body[1].exponent = e /\ recovery[e] = Tail(p.body)
    BY Zenon DEF ParsedFromSurvivors
  <2>1. packets \in Seq(Sent) /\ TakenRight(packets)
    BY AllTaken
  <2>2. /\ haveMain /\ \A i \in DOMAIN order : order[i] \in DOMAIN seen
        /\ parsed = [i \in DOMAIN order |-> seen[order[i]]]
    BY DEF ParseInv, ResultInv
  <2> HIDE DEF packets
  <2>3. own = Relevant(packets)
    BY <2>1, RelevantIsOwn
  <2>4. [kind |-> "main", slice |-> sliceSize, ids |-> order] \in Contents(own, "Main")
    <3> DEFINE p == packets[FirstMain(packets)]
    <3>1. /\ FirstMain(packets) \in 1 .. Len(packets) /\ IsMain(p)
          /\ [kind |-> "main", slice |-> sliceSize, ids |-> order] = p.body[1]
      <4>1. FirstMain(packets) # 0 /\ [kind |-> "main", slice |-> sliceSize, ids |-> order] = p.body[1]
        BY <2>1, <2>2, Zenon DEF TakenRight, MainRight
      <4> QED
        BY <2>1, <4>1, FirstMainFacts
    <3>2. p \in ToSet(packets)
      BY <2>1, <3>1 DEF ToSet
    <3>3. p \in own /\ p.type = "Main"
      BY <3>1, <3>2 DEF Own, IsMain
    <3> HIDE DEF p, own
    <3> QED
      BY <3>1, <3>3 DEF Contents
  <2> HIDE DEF own
  <2>5. SeenRight(own) /\ RecoveryRight(own)
    BY <2>1, <2>3 DEF TakenRight
  <2>6. ASSUME NEW i \in DOMAIN order PROVE AsSaid(own, order[i], parsed[i])
    <3>1. parsed[i] = seen[order[i]] /\ order[i] \in DOMAIN seen
      BY <2>2
    <3> QED
      BY <2>5, <3>1, Zenon DEF SeenRight
  <2>7. ASSUME NEW i \in DOMAIN order
        PROVE  /\ IF \E d \in descs : d.id = order[i]
                  THEN [kind |-> "desc", id |-> order[i], size |-> parsed[i].size,
                        name |-> parsed[i].name] \in descs
                  ELSE parsed[i].size = 0 /\ parsed[i].name = ""
               /\ IF \E c \in sums : c.id = order[i]
                  THEN [kind |-> "sums", id |-> order[i], slices |-> parsed[i].slices] \in sums
                  ELSE parsed[i].slices = << >>
    BY <2>6, Zenon DEF AsSaid, Described, Summed
  <2>8. /\ DOMAIN recovery = { p.body[1].exponent : p \in slices }
        /\ \A e \in DOMAIN recovery :
             \E p \in slices : p.body[1].exponent = e /\ recovery[e] = Tail(p.body)
    BY <2>5 DEF RecoveryRight, Slices
  <2> HIDE DEF descs, sums, slices
  <2> QED
    BY <2>4, <2>7, <2>8, Zenon
<1> QED
  BY <1>1, ParseIsRight, PTL

\* Parse fails only if no main packet survived, or nothing that describes one
\* of the files of the set.  (par2.go:369-376)
THEOREM FailureHasReason == Spec => []FailsForAReason
<1>1. ParseInv => FailsForAReason
  <2> DEFINE packets == AllSurviving
             own == Own(packets)
             described == { d.id : d \in Contents(own, "FileDesc") \cup Contents(own, "IFSC") }
  <2> SUFFICES ASSUME ParseInv
               PROVE  /\ pc = "nomain" => FirstMain(packets) = 0
                      /\ pc = "missing" => (Unmixed(packets) => ~(ToSet(order) \subseteq described))
    BY Zenon DEF FailsForAReason
  <2>1. ASSUME pc = "nomain" PROVE FirstMain(packets) = 0
    <3>1. TakenRight(packets)
      BY <2>1, AllTaken
    <3>2. ~haveMain
      BY <2>1 DEF ParseInv, ResultInv
    <3> QED
      BY <3>1, <3>2, Zenon DEF TakenRight, MainRight
  <2>2. ASSUME pc = "missing", Unmixed(packets) PROVE ~(ToSet(order) \subseteq described)
    <3>1. packets \in Seq(Sent) /\ TakenRight(packets)
      BY <2>2, AllTaken
    <3>2. PICK i \in DOMAIN order : order[i] \notin DOMAIN seen
      BY <2>2 DEF ParseInv, ResultInv
    <3> HIDE DEF packets
    <3>3. own = Relevant(packets)
      BY <2>2, <3>1, RelevantIsOwn
    <3> HIDE DEF own
    <3>4. SeenRight(own)
      BY <3>1, <3>3 DEF TakenRight
    <3>5. order[i] \notin described
      BY <3>2, <3>4 DEF SeenRight, Described, Summed
    <3>6. order[i] \in ToSet(order)
      BY DEF ToSet
    <3> QED
      BY <3>5, <3>6
  <2> QED
    BY <2>1, <2>2
<1> QED
  BY <1>1, ParseIsRight, PTL


-----------------------------------------------------------------------------
(* What is written is read back. *)

\* One sequence behind another one.
LEMMA ConcatFacts ==
    ASSUME NEW S, NEW s \in Seq(S), NEW t \in Seq(S), NEW u, u = s \o t
    PROVE  /\ u \in Seq(S) /\ Len(s) \in Nat /\ Len(t) \in Nat /\ Len(u) = Len(s) + Len(t)
           /\ \A i \in 1 .. Len(s) : u[i] = s[i]
           /\ \A j \in 1 .. Len(t) : u[Len(s) + j] = t[j]
<1>1. /\ s \o t \in Seq(S) /\ Len(s \o t) = Len(s) + Len(t)
      /\ \A i \in 1 .. Len(s) + Len(t) : (s \o t)[i] = IF i <= Len(s) THEN s[i] ELSE t[i - Len(s)]
  BY ConcatProperties
<1>2. Len(s) \in Nat /\ Len(t) \in Nat
  BY LenProperties
<1>3. \A i \in 1 .. Len(s) : i \in 1 .. Len(s) + Len(t) /\ i <= Len(s)
  BY <1>2
<1>4. \A j \in 1 .. Len(t) :
        Len(s) + j \in 1 .. Len(s) + Len(t) /\ ~(Len(s) + j <= Len(s)) /\ (Len(s) + j) - Len(s) = j
  BY <1>2
<1>5. \A j \in 1 .. Len(t) : u[Len(s) + j] = t[j]
  <2> SUFFICES ASSUME NEW j \in 1 .. Len(t) PROVE u[Len(s) + j] = t[j]
    OBVIOUS
  <2>1. u[Len(s) + j] = t[(Len(s) + j) - Len(s)]
    BY <1>1, <1>4
  <2> QED
    BY <1>4, <2>1
<1> QED
  BY <1>1, <1>2, <1>3, <1>5

\* What comes first stays where it is.
Begins(s, t) == Len(s) <= Len(t) /\ \A i \in 1 .. Len(s) : t[i] = s[i]

LEMMA BeginsFacts ==
    ASSUME NEW S, NEW s \in Seq(S), NEW t \in Seq(S), NEW u \in Seq(S), NEW v, v = t \o u
    PROVE  Begins(s, s) /\ (Begins(s, t) => Begins(s, v))
<1>1. /\ Len(t) \in Nat /\ Len(u) \in Nat /\ Len(v) = Len(t) + Len(u)
      /\ \A i \in 1 .. Len(t) : v[i] = t[i]
  BY ConcatFacts
<1>2. Len(s) \in Nat
  BY LenProperties
<1>3. ASSUME Begins(s, t) PROVE Begins(s, v)
  <2>1. Len(s) <= Len(t) /\ \A i \in 1 .. Len(s) : t[i] = s[i]
    BY <1>3 DEF Begins
  <2>2. Len(s) <= Len(v) /\ \A i \in 1 .. Len(s) : i \in 1 .. Len(t)
    BY <1>1, <1>2, <2>1
  <2> QED
    BY <1>1, <2>1, <2>2 DEF Begins
<1> QED
  BY <1>2, <1>3 DEF Begins

LEMMA PartsAre ==
    ASSUME NEW S, NEW ss \in Seq(Seq(S))
    PROVE  /\ Len(ss) \in Nat /\ \A k \in 0 .. Len(ss) : Parts(ss)[k] \in Seq(S)
           /\ \A k \in 1 .. Len(ss) : /\ Parts(ss)[k] = Parts(ss)[k - 1] \o ss[k]
                                      /\ ss[k] \in Seq(S) /\ Parts(ss)[k - 1] \in Seq(S)
           /\ FlattenSeq(ss) = Parts(ss)[Len(ss)] /\ FlattenSeq(ss) \in Seq(S)
<1>1. /\ Len(ss) \in Nat /\ IsParts(ss, Parts(ss))
      /\ \A k \in 0 .. Len(ss) : Parts(ss)[k] \in Seq(S)
      /\ FlattenSeq(ss) = Parts(ss)[Len(ss)]
  BY PartsFacts
<1>2. \A k \in 1 .. Len(ss) : Parts(ss)[k] = Parts(ss)[k - 1] \o ss[k]
  BY <1>1 DEF IsParts
<1>3. \A k \in 1 .. Len(ss) : ss[k] \in Seq(S) /\ k - 1 \in 0 .. Len(ss)
  BY <1>1
<1>4. Len(ss) \in 0 .. Len(ss)
  BY <1>1
<1> QED
  BY <1>1, <1>2, <1>3, <1>4

LEMMA PartsGrow ==
    ASSUME NEW S, NEW ss \in Seq(Seq(S)), NEW a \in 0 .. Len(ss), NEW b \in a .. Len(ss)
    PROVE  Begins(Parts(ss)[a], Parts(ss)[b])
<1> DEFINE p == Parts(ss)
           P == { k \in Nat : a + k <= b => Begins(p[a], p[a + k]) }
<1>1. /\ Len(ss) \in Nat /\ \A k \in 0 .. Len(ss) : p[k] \in Seq(S)
      /\ \A k \in 1 .. Len(ss) : p[k] = p[k - 1] \o ss[k] /\ ss[k] \in Seq(S) /\ p[k - 1] \in Seq(S)
  BY PartsAre
<1> HIDE DEF p
<1>2. 0 \in P
  <2>1. p[a] \in Seq(S) /\ p[a] \o << >> = p[a] /\ << >> \in Seq(S) /\ a + 0 = a
    BY <1>1, ConcatEmptySeq
  <2>2. Begins(p[a], p[a])
    BY <2>1, BeginsFacts
  <2> QED
    BY <2>1, <2>2
<1>3. ASSUME NEW k \in Nat, k \in P PROVE k + 1 \in P
  <2> SUFFICES ASSUME a + (k + 1) <= b PROVE Begins(p[a], p[a + (k + 1)])
    OBVIOUS
  <2>1. PICK m \in 1 .. Len(ss) : m = a + (k + 1) /\ Begins(p[a], p[m - 1])
    <3>1. a + (k + 1) \in 1 .. Len(ss) /\ (a + (k + 1)) - 1 = a + k /\ a + k <= b
      BY <1>1
    <3>2. Begins(p[a], p[a + k])
      BY <1>3, <3>1
    <3> QED
      BY <3>1, <3>2
  <2>2. p[m] = p[m - 1] \o ss[m] /\ ss[m] \in Seq(S) /\ p[m - 1] \in Seq(S) /\ p[a] \in Seq(S)
    BY <1>1, <2>1
  <2> DEFINE first == p[a]
             last == p[m - 1]
             next == p[m]
  <2> HIDE DEF first, last, next
  <2>3. /\ Begins(first, last) /\ next = last \o ss[m]
        /\ first \in Seq(S) /\ last \in Seq(S) /\ ss[m] \in Seq(S)
    BY <2>1, <2>2 DEF first, last, next
  <2>4. Begins(first, next)
    BY <2>3, BeginsFacts
  <2> QED
    BY <2>1, <2>4 DEF first, next
<1> HIDE DEF P
<1>4. Nat \subseteq P
  BY <1>2, <1>3, NatSetInduction
<1>5. b - a \in P /\ a + (b - a) = b
  BY <1>1, <1>4
<1> QED
  BY <1>5 DEF P, p

\* Where each of the sequences is in the whole.
LEMMA PartsPlace ==
    ASSUME NEW S, NEW ss \in Seq(Seq(S)), NEW k \in 1 .. Len(ss)
    PROVE  /\ ss[k] \in Seq(S) /\ FlattenSeq(ss) \in Seq(S)
           /\ Len(Parts(ss)[k - 1]) \in Nat /\ Len(ss[k]) \in Nat
           /\ Len(Parts(ss)[k]) = Len(Parts(ss)[k - 1]) + Len(ss[k])
           /\ Len(Parts(ss)[k]) <= Len(FlattenSeq(ss))
           /\ \A j \in 1 .. Len(ss[k]) : FlattenSeq(ss)[Len(Parts(ss)[k - 1]) + j] = ss[k][j]
<1> DEFINE whole == FlattenSeq(ss)
           here == Parts(ss)[k]
           before == Parts(ss)[k - 1]
           n == Len(ss)
<1>1. n \in Nat /\ k \in 0 .. n /\ n \in k .. n
  BY PartsAre
<1>2. /\ here = before \o ss[k] /\ ss[k] \in Seq(S) /\ before \in Seq(S)
      /\ whole \in Seq(S) /\ whole = Parts(ss)[n]
  BY PartsAre
<1>3. Begins(here, whole)
  BY <1>1, <1>2, PartsGrow
<1> HIDE DEF whole, here, before
<1>4. /\ Len(before) \in Nat /\ Len(ss[k]) \in Nat /\ Len(here) = Len(before) + Len(ss[k])
      /\ \A j \in 1 .. Len(ss[k]) : here[Len(before) + j] = ss[k][j]
  BY <1>2, ConcatFacts
<1>5. Len(here) <= Len(whole) /\ \A i \in 1 .. Len(here) : whole[i] = here[i]
  BY <1>3 DEF Begins
<1>6. ASSUME NEW j \in 1 .. Len(ss[k]) PROVE whole[Len(before) + j] = ss[k][j]
  <2>1. Len(before) + j \in 1 .. Len(here)
    BY <1>4
  <2> QED
    BY <1>4, <1>5, <2>1
<1> QED
  BY <1>2, <1>4, <1>5, <1>6 DEF whole, here, before

\* What is in one of the sequences is in the whole.
LEMMA PartsHold ==
    ASSUME NEW S, NEW ss \in Seq(Seq(S)), NEW k \in 1 .. Len(ss), NEW x \in ToSet(ss[k])
    PROVE  x \in ToSet(FlattenSeq(ss))
<1>1. PICK j \in 1 .. Len(ss[k]) : ss[k][j] = x
  <2>1. ss[k] \in Seq(S) /\ x \in { ss[k][j] : j \in DOMAIN ss[k] }
    BY PartsPlace DEF ToSet
  <2>2. DOMAIN ss[k] = 1 .. Len(ss[k])
    BY <2>1, LenProperties
  <2> QED
    BY <2>1, <2>2
<1>2. /\ FlattenSeq(ss) \in Seq(S) /\ Len(Parts(ss)[k - 1]) \in Nat /\ Len(ss[k]) \in Nat
      /\ Len(Parts(ss)[k - 1]) + Len(ss[k]) <= Len(FlattenSeq(ss))
      /\ FlattenSeq(ss)[Len(Parts(ss)[k - 1]) + j] = ss[k][j]
  BY PartsPlace
<1> DEFINE i == Len(Parts(ss)[k - 1]) + j
           t == FlattenSeq(ss)
<1>3. i \in 1 .. Len(t) /\ DOMAIN t = 1 .. Len(t)
  <2>1. Len(t) \in Nat /\ DOMAIN t = 1 .. Len(t)
    BY <1>2, LenProperties
  <2> DEFINE before == Len(Parts(ss)[k - 1])
             length == Len(t)
             own == Len(ss[k])
  <2>2. before \in Nat /\ own \in Nat /\ length \in Nat /\ before + own <= length /\ j \in 1 .. own
    BY <1>2, <2>1
  <2> HIDE DEF before, length, own
  <2>3. before + j \in 1 .. length
    BY <2>2
  <2> QED
    BY <2>1, <2>3 DEF before, length
<1> QED
  BY <1>1, <1>2, <1>3 DEF ToSet

\* A sequence of some elements is one of more.
LEMMA WiderSeq == ASSUME NEW A, NEW B, A \subseteq B, NEW s \in Seq(A) PROVE s \in Seq(B)
  OBVIOUS

\* The cells of a packet.
HeaderOf(p) == [kind |-> "head", packet |-> p, length |-> Len(p.body) + 1]
LEMMA BytesFacts ==
    ASSUME NEW S, NEW p, p.body \in Seq(S), HeaderOf(p) \in S
    PROVE  /\ Bytes(p) \in Seq(S) /\ Len(p.body) \in Nat /\ Len(Bytes(p)) = Len(p.body) + 1
           /\ Bytes(p)[1] = HeaderOf(p)
           /\ \A k \in 1 .. Len(p.body) : Bytes(p)[1 + k] = p.body[k]
<1> DEFINE h == HeaderOf(p)
           one == <<h>>
           body == p.body
           whole == Bytes(p)
<1>1. one \in Seq(S) /\ Len(one) = 1 /\ one[1] = h
  OBVIOUS
<1>2. whole = one \o body
  BY DEF Bytes, HeaderOf
<1> HIDE DEF h, one, body, whole
<1>3. body \in Seq(S)
  BY DEF body
<1>4. /\ whole \in Seq(S) /\ Len(body) \in Nat /\ Len(whole) = Len(one) + Len(body)
      /\ \A i \in 1 .. Len(one) : whole[i] = one[i]
      /\ \A j \in 1 .. Len(body) : whole[Len(one) + j] = body[j]
  <2>1. one \in Seq(S) /\ body \in Seq(S) /\ whole = one \o body
    BY <1>1, <1>2, <1>3
  <2> QED
    BY <2>1, ConcatFacts
<1>5. Len(whole) = Len(body) + 1 /\ whole[1] = h
  <2>1. Len(whole) = 1 + Len(body) /\ 1 \in 1 .. Len(one)
    BY <1>1, <1>4
  <2>2. whole[1] = one[1]
    BY <1>4, <2>1
  <2> DEFINE m == Len(body)
  <2>3. m \in Nat /\ Len(whole) = 1 + m
    BY <1>4, <2>1
  <2> HIDE DEF m
  <2>4. Len(whole) = m + 1
    BY <2>3
  <2> QED
    BY <1>1, <2>2, <2>4 DEF m
<1>6. \A j \in 1 .. Len(body) : whole[1 + j] = body[j]
  BY <1>1, <1>4
<1> QED
  BY <1>4, <1>5, <1>6 DEF body, h, whole

\* Where the cells of a packet lie as they were written the packet is intact.
LEMMA WrittenIsIntact ==
    ASSUME NEW S, NEW data \in Seq(S), NEW p, p.body \in Seq(S), HeaderOf(p) \in S,
           NEW off \in Nat \ {0}, off + Len(p.body) <= Len(data),
           data[off] = HeaderOf(p), \A k \in 1 .. Len(p.body) : data[off + k] = p.body[k]
    PROVE  /\ IntactAt(data, off) /\ data[off].packet = p
           /\ data[off].length = Len(p.body) + 1 /\ off <= Len(data)
<1> DEFINE body == p.body
           m == Len(body)
           n == Len(data)
           t == SubSeq(data, off + 1, off + m)
<1>1. m \in Nat /\ n \in Nat /\ off + m <= n
  BY LenProperties
<1>2. data[off].kind = "head" /\ data[off].packet = p /\ data[off].length = m + 1
  BY DEF HeaderOf
<1> HIDE DEF m, n
<1>3. off + 1 \in Nat \ {0} /\ off + m \in Nat /\ off + 1 <= (off + m) + 1 /\ off + m <= n
  BY <1>1
<1>4. /\ t \in Seq(S) /\ Len(t) = ((off + m) + 1) - (off + 1)
      /\ \A k \in 1 .. ((off + m) + 1) - (off + 1) : t[k] = data[((off + 1) + k) - 1]
  BY <1>3, PartFacts DEF n
<1>5. ((off + m) + 1) - (off + 1) = m /\ \A k \in 1 .. m : ((off + 1) + k) - 1 = off + k
  BY <1>1
<1>6. \A k \in 1 .. m : t[k] = body[k]
  BY <1>4, <1>5 DEF m
<1>7. t = body
  <2>1. Len(t) = Len(body) /\ body \in Seq(S) /\ t \in Seq(S) /\ Len(t) = m
    BY <1>4, <1>5 DEF m
  <2> HIDE DEF t, body
  <2>2. \A k \in 1 .. Len(t) : t[k] = body[k]
    BY <1>6, <2>1
  <2> QED
    BY <2>1, <2>2, SeqEqual
<1>8. (off + (m + 1)) - 1 = off + m /\ m + 1 \in 1 .. (n - off) + 1 /\ off <= n
  BY <1>1
<1>9. SubSeq(data, off + 1, off + data[off].length - 1) = data[off].packet.body
  BY <1>2, <1>7, <1>8
<1> QED
  BY <1>2, <1>8, <1>9 DEF IntactAt, m, n

\* What is written, packet behind packet, is what is read, and nothing else,
\* whatever the packets hold. (par2.go:50-99, :254-261)
THEOREM WrittenIsRead ==
    ASSUME NEW P, NEW ps \in Seq(P), \A k \in 1 .. Len(ps) : ps[k].body \in Seq(Cells(ps[k].body))
    PROVE  ReadPackets(Stream(ps)) = ps /\ \E S : Stream(ps) \in Seq(S)
<1> DEFINE n == Len(ps)
           ss == [i \in DOMAIN ps |-> Bytes(ps[i])]
           data == Stream(ps)
           S == { HeaderOf(ps[k]) : k \in 1 .. n } \cup (UNION { Cells(ps[k].body) : k \in 1 .. n })
           Behind(k) == Len(Parts(ss)[k]) + 1
<1>1. n \in Nat /\ DOMAIN ps = 1 .. n /\ data = FlattenSeq(ss)
  BY LenProperties DEF Stream
<1>2. ASSUME NEW k \in 1 .. n
      PROVE  ps[k].body \in Seq(S) /\ HeaderOf(ps[k]) \in S
  <2>1. HeaderOf(ps[k]) \in S
    OBVIOUS
  <2>2. Cells(ps[k].body) \subseteq S
    <3>1. \A x \in Cells(ps[k].body) : x \in UNION { Cells(ps[j].body) : j \in 1 .. n }
      OBVIOUS
    <3> QED
      BY <3>1
  <2> HIDE DEF S
  <2>3. ps[k].body \in Seq(Cells(ps[k].body))
    OBVIOUS
  <2> QED
    BY <2>1, <2>2, <2>3, WiderSeq
<1> HIDE DEF S
<1>3. \A k \in 1 .. n : Bytes(ps[k]) \in Seq(S)
  <2> SUFFICES ASSUME NEW k \in 1 .. n PROVE Bytes(ps[k]) \in Seq(S)
    OBVIOUS
  <2>1. ps[k].body \in Seq(S) /\ HeaderOf(ps[k]) \in S
    BY <1>2
  <2> QED
    BY <2>1, BytesFacts
<1>4. ss \in Seq(Seq(S)) /\ Len(ss) = n /\ \A k \in 1 .. n : ss[k] = Bytes(ps[k])
  <2>1. ss = [i \in 1 .. n |-> Bytes(ps[i])]
    BY <1>1
  <2>2. ss \in [1 .. n -> Seq(S)] /\ \A k \in 1 .. n : ss[k] = Bytes(ps[k])
    BY <1>3, <2>1
  <2> HIDE DEF ss
  <2>3. ss \in Seq(Seq(S))
    BY <1>1, <2>2, SeqDef
  <2>4. Len(ss) = n
    BY <1>1, <2>2, <2>3, LenProperties
  <2> QED
    BY <2>2, <2>3, <2>4
<1> HIDE DEF ss, n
<1>5. /\ data \in Seq(S) /\ data = Parts(ss)[n] /\ Len(data) \in Nat /\ DOMAIN data = 1 .. Len(data)
      /\ Parts(ss)[0] = << >>
  <2>1. FlattenSeq(ss) = Parts(ss)[Len(ss)] /\ FlattenSeq(ss) \in Seq(S)
    BY <1>4, PartsAre
  <2>2. Parts(ss)[0] = << >>
    BY <1>4, PartsFacts DEF IsParts
  <2>3. data \in Seq(S)
    BY <1>1, <2>1
  <2> QED
    BY <1>1, <1>4, <2>1, <2>2, <2>3, LenProperties
<1> HIDE DEF data
<1>6. PICK r : IsRead(data, r) /\ ReadPackets(data) = r[1]
  <2> DEFINE T == { data[i].packet : i \in 1 .. Len(data) }
  <2>1. FileOf(T, data)
    BY <1>5 DEF FileOf
  <2> QED
    BY <2>1, ReadFacts
<1>7. ASSUME NEW k \in 1 .. n
      PROVE  r[Behind(k - 1)] = <<ps[k]>> \o r[Behind(k)]
  <2> DEFINE p == ps[k]
             off == Behind(k - 1)
             own == ss[k]
             m == Len(p.body)
  <2>1. /\ own = Bytes(p) /\ p.body \in Seq(S) /\ HeaderOf(p) \in S
    BY <1>2, <1>4
  <2>2. /\ Len(own) = m + 1 /\ m \in Nat /\ own[1] = HeaderOf(p)
        /\ \A j \in 1 .. m : own[1 + j] = p.body[j]
    BY <2>1, BytesFacts
  <2> DEFINE before == Len(Parts(ss)[k - 1])
             here == Len(Parts(ss)[k])
             length == Len(data)
  <2>3. /\ before \in Nat /\ here = before + Len(own) /\ here <= length /\ length \in Nat
        /\ \A j \in 1 .. Len(own) : data[before + j] = own[j]
    <3>1. data = FlattenSeq(ss) /\ k \in 1 .. Len(ss)
      BY <1>1, <1>4
    <3>2. /\ Len(Parts(ss)[k - 1]) \in Nat
          /\ Len(Parts(ss)[k]) = Len(Parts(ss)[k - 1]) + Len(ss[k])
          /\ Len(Parts(ss)[k]) <= Len(FlattenSeq(ss))
          /\ \A j \in 1 .. Len(ss[k]) : FlattenSeq(ss)[Len(Parts(ss)[k - 1]) + j] = ss[k][j]
      BY <1>4, <3>1, PartsPlace
    <3> QED
      BY <1>5, <3>1, <3>2
  <2>4. off = before + 1 /\ Behind(k) = here + 1
    OBVIOUS
  <2> HIDE DEF p, off, own, m, before, here, length, Behind
  <2>5. /\ off \in Nat \ {0} /\ off + m <= length /\ 1 \in 1 .. Len(own) /\ off + (m + 1) = Behind(k)
        /\ off \in 1 .. length + 1 /\ ~(off > length)
    BY <2>2, <2>3, <2>4
  <2>6. data[off] = HeaderOf(p)
    BY <2>2, <2>3, <2>4, <2>5
  <2>7. ASSUME NEW j \in 1 .. m PROVE data[off + j] = p.body[j]
    <3>1. 1 + j \in 1 .. Len(own) /\ before + (1 + j) = off + j
      BY <2>2, <2>3, <2>4
    <3>2. data[before + (1 + j)] = own[1 + j]
      BY <2>3, <3>1
    <3> QED
      BY <2>2, <3>1, <3>2
  <2>8. /\ IntactAt(data, off) /\ data[off].packet = p /\ data[off].length = m + 1
    <3>1. off + Len(p.body) <= Len(data)
      BY <2>5 DEF m, length
    <3> QED
      BY <1>5, <2>1, <2>5, <2>6, <2>7, <3>1, WrittenIsIntact DEF m
  <2>9. r[off] = ReadStep(data, r, off)
    BY <1>6, <2>5 DEF IsRead, length
  <2>10. r[off] = <<p>> \o r[off + (m + 1)]
    BY <2>5, <2>8, <2>9 DEF ReadStep, length
  <2> QED
    BY <2>5, <2>10 DEF p, off
<1>8. r[Behind(n)] = << >>
  <2>1. Behind(n) = Len(data) + 1
    BY <1>5
  <2> HIDE DEF Behind
  <2>2. Behind(n) \in 1 .. Len(data) + 1 /\ Behind(n) > Len(data)
    BY <1>5, <2>1
  <2>3. r[Behind(n)] = ReadStep(data, r, Behind(n))
    BY <1>6, <2>2 DEF IsRead
  <2> QED
    BY <2>2, <2>3 DEF ReadStep
<1>9. Behind(0) = 1
  BY <1>5
<1> HIDE DEF Behind
<1> DEFINE Rest(a) == SubSeq(ps, a, n)
           Q == { k \in Nat : k <= n => r[Behind(n - k)] = Rest((n - k) + 1) }
<1>10. \A a \in 1 .. n + 1 : /\ Rest(a) \in Seq(P) /\ Len(Rest(a)) = (n + 1) - a
                             /\ \A k \in 1 .. (n + 1) - a : Rest(a)[k] = ps[(a + k) - 1]
  <2> SUFFICES ASSUME NEW a \in 1 .. n + 1
               PROVE  /\ Rest(a) \in Seq(P) /\ Len(Rest(a)) = (n + 1) - a
                      /\ \A k \in 1 .. (n + 1) - a : Rest(a)[k] = ps[(a + k) - 1]
    OBVIOUS
  <2>1. a \in Nat \ {0} /\ n \in Nat /\ a <= n + 1 /\ n <= Len(ps)
    BY <1>1 DEF n
  <2> QED
    BY <2>1, PartFacts
<1> HIDE DEF Rest
<1>11. 0 \in Q
  <2>1. Rest(n + 1) = << >>
    <3>1. n + 1 \in 1 .. n + 1 /\ (n + 1) - (n + 1) = 0
      BY <1>1
    <3>2. Rest(n + 1) \in Seq(P) /\ Len(Rest(n + 1)) = 0
      BY <1>10, <3>1
    <3> QED
      BY <3>2
  <2>2. n - 0 = n
    BY <1>1
  <2> QED
    BY <1>8, <2>1, <2>2
<1>12. ASSUME NEW k \in Nat, k \in Q PROVE k + 1 \in Q
  <2> SUFFICES ASSUME k + 1 <= n PROVE r[Behind(n - (k + 1))] = Rest((n - (k + 1)) + 1)
    OBVIOUS
  <2> DEFINE a == n - k
  <2>1. a \in 1 .. n /\ n - (k + 1) = a - 1 /\ (a - 1) + 1 = a /\ k <= n
    BY <1>1
  <2>2. r[Behind(a)] = Rest(a + 1)
    BY <1>12, <2>1
  <2> HIDE DEF a
  <2>3. r[Behind(a - 1)] = <<ps[a]>> \o Rest(a + 1)
    BY <1>7, <2>1, <2>2
  <2>4. <<ps[a]>> \o Rest(a + 1) = Rest(a)
    <3> DEFINE head == <<ps[a]>>
               tail == Rest(a + 1)
               both == head \o tail
    <3>1. a \in 1 .. n + 1 /\ a + 1 \in 1 .. n + 1 /\ (n + 1) - (a + 1) = n - a
          /\ n - a \in Nat /\ (n + 1) - a = 1 + (n - a)
      BY <1>1, <2>1
    <3>2. ps[a] \in P
      BY <1>1, <2>1 DEF n
    <3>3. head \in Seq(P) /\ Len(head) = 1 /\ head[1] = ps[a]
      BY <3>2
    <3>4. tail \in Seq(P) /\ Len(tail) = n - a /\ \A j \in 1 .. n - a : tail[j] = ps[((a + 1) + j) - 1]
      BY <1>10, <3>1
    <3>5. /\ Rest(a) \in Seq(P) /\ Len(Rest(a)) = 1 + (n - a)
          /\ \A j \in 1 .. 1 + (n - a) : Rest(a)[j] = ps[(a + j) - 1]
      BY <1>10, <3>1
    <3> HIDE DEF head, tail
    <3>6. both = head \o tail /\ head \in Seq(P) /\ tail \in Seq(P)
      BY <3>3, <3>4
    <3> HIDE DEF both
    <3>7. /\ both \in Seq(P) /\ Len(both) = Len(head) + Len(tail)
          /\ \A i \in 1 .. Len(head) : both[i] = head[i]
          /\ \A j \in 1 .. Len(tail) : both[Len(head) + j] = tail[j]
      BY <3>6, ConcatFacts
    <3>8. Len(both) = 1 + (n - a) /\ both[1] = ps[a]
      BY <3>3, <3>4, <3>7
    <3>9. ASSUME NEW i \in 1 .. Len(both) PROVE both[i] = Rest(a)[i]
      <4>1. Rest(a)[i] = ps[(a + i) - 1]
        BY <3>5, <3>8
      <4>2. CASE i = 1
        <5>1. (a + i) - 1 = a
          BY <2>1, <4>2
        <5> QED
          BY <3>8, <4>1, <4>2, <5>1
      <4>3. CASE i # 1
        <5>1. i - 1 \in 1 .. n - a /\ ((a + 1) + (i - 1)) - 1 = (a + i) - 1 /\ 1 + (i - 1) = i
          BY <1>1, <2>1, <3>1, <3>8, <4>3
        <5>2. both[1 + (i - 1)] = tail[i - 1]
          BY <3>3, <3>4, <3>7, <5>1
        <5>3. tail[i - 1] = ps[((a + 1) + (i - 1)) - 1]
          BY <3>4, <5>1
        <5> QED
          BY <4>1, <5>1, <5>2, <5>3
      <4> QED
        BY <4>2, <4>3
    <3>10. Len(both) = Len(Rest(a))
      BY <3>5, <3>8
    <3>11. both = Rest(a)
      BY <3>5, <3>7, <3>9, <3>10, SeqEqual
    <3> QED
      BY <3>6, <3>11 DEF head, tail
  <2> QED
    BY <2>1, <2>3, <2>4
<1> HIDE DEF Q
<1>13. Nat \subseteq Q
  BY <1>11, <1>12, NatSetInduction
<1>14. r[1] = Rest(1)
  <2>1. n \in Q /\ n - n = 0 /\ 0 + 1 = 1 /\ n <= n
    BY <1>1, <1>13
  <2>2. r[Behind(0)] = Rest(1)
    BY <2>1 DEF Q
  <2> QED
    BY <1>9, <2>2
<1>15. Rest(1) = ps
  <2>1. 1 \in 1 .. n + 1 /\ (n + 1) - 1 = n /\ \A k \in 1 .. n : (1 + k) - 1 = k
    BY <1>1
  <2>2. Rest(1) \in Seq(P) /\ Len(Rest(1)) = n /\ \A k \in 1 .. n : Rest(1)[k] = ps[k]
    BY <1>10, <2>1
  <2> QED
    BY <2>2, SeqEqual DEF n
<1> QED
  BY <1>5, <1>6, <1>14, <1>15 DEF data

-----------------------------------------------------------------------------
(* What the files of a set hold. *)

LEMMA OwnCells == ASSUME NEW S, NEW s \in Seq(S) PROVE s \in Seq(Cells(s))
<1>1. Len(s) \in Nat /\ DOMAIN s = 1 .. Len(s) /\ s \in [1 .. Len(s) -> S]
  BY LenProperties
<1> DEFINE n == Len(s)
           T == { s[i] : i \in DOMAIN s }
<1>2. n \in Nat /\ s \in [1 .. n -> T]
  BY <1>1
<1> HIDE DEF n, T
<1>3. s \in Seq(T)
  BY <1>2, SeqDef
<1> QED
  BY <1>3 DEF T, Cells

\* A sequence holds what it is put together of.
LEMMA ConcatHolds ==
    ASSUME NEW S, NEW s \in Seq(S), NEW t \in Seq(S), NEW u, u = s \o t
    PROVE  u \in Seq(S) /\ ToSet(s) \subseteq ToSet(u) /\ ToSet(t) \subseteq ToSet(u)
<1>1. /\ u \in Seq(S) /\ Len(s) \in Nat /\ Len(t) \in Nat /\ Len(u) = Len(s) + Len(t)
      /\ \A i \in 1 .. Len(s) : u[i] = s[i]
      /\ \A j \in 1 .. Len(t) : u[Len(s) + j] = t[j]
  BY ConcatFacts
<1>2. DOMAIN s = 1 .. Len(s) /\ DOMAIN t = 1 .. Len(t) /\ DOMAIN u = 1 .. Len(u)
  BY <1>1, LenProperties
<1> DEFINE m == Len(s)
           n == Len(t)
           l == Len(u)
<1>3. m \in Nat /\ n \in Nat /\ l = m + n
  BY <1>1
<1> HIDE DEF m, n, l
<1>4. (\A i \in 1 .. m : i \in 1 .. l) /\ (\A j \in 1 .. n : m + j \in 1 .. l)
  BY <1>3
<1>5. ASSUME NEW x \in ToSet(s) PROVE x \in ToSet(u)
  <2>1. PICK i \in 1 .. m : x = s[i]
    BY <1>2 DEF ToSet, m
  <2>2. i \in DOMAIN u /\ u[i] = x
    BY <1>1, <1>2, <1>4, <2>1 DEF m, l
  <2> QED
    BY <2>2 DEF ToSet
<1>6. ASSUME NEW x \in ToSet(t) PROVE x \in ToSet(u)
  <2>1. PICK j \in 1 .. n : x = t[j]
    BY <1>2 DEF ToSet, n
  <2>2. m + j \in DOMAIN u /\ u[m + j] = x
    BY <1>1, <1>2, <1>4, <2>1 DEF m, n, l
  <2> QED
    BY <2>2 DEF ToSet
<1> QED
  BY <1>1, <1>5, <1>6

\* The packets of a set are of that set, and none is empty.
LEMMA PacketsOfSet ==
    ASSUME NEW s \in Sets, NEW p \in PacketsOf(s)
    PROVE  p.set = s.id /\ p.body # << >> /\ p.body \in Seq(Cells(p.body))
<1>1. ASSUME NEW type, NEW c, p = Packet(s.id, type, <<c>>)
      PROVE  p.set = s.id /\ p.body # << >> /\ p.body \in Seq(Cells(p.body))
  <2>1. p.set = s.id /\ p.body = <<c>>
    BY <1>1 DEF Packet
  <2>2. <<c>> \in Seq({c}) /\ <<c>> # << >>
    OBVIOUS
  <2>3. <<c>> \in Seq(Cells(<<c>>))
    BY <2>2, OwnCells
  <2> QED
    BY <2>1, <2>2, <2>3
<1>2. ASSUME NEW e \in DOMAIN s.recovery, p = RecoveryPacket(s, e)
      PROVE  p.set = s.id /\ p.body # << >> /\ p.body \in Seq(Cells(p.body))
  <2> DEFINE c == [kind |-> "exponent", exponent |-> e]
             one == <<c>>
             t == s.recovery[e]
             S == {c} \cup ToSet(t)
             body == one \o t
  <2>1. p.set = s.id /\ p.body = body
    BY <1>2 DEF RecoveryPacket, Packet
  <2>2. one \in Seq(S) /\ Len(one) = 1
    OBVIOUS
  <2>3. t \in Seq(ToSet(t)) /\ ToSet(t) \subseteq S
    BY SetsAssumption DEF SetsAssumption
  <2> HIDE DEF t, one, S
  <2>4. t \in Seq(S)
    BY <2>3, WiderSeq
  <2> DEFINE u == body
  <2>5. u = one \o t
    OBVIOUS
  <2> HIDE DEF u
  <2>6. u \in Seq(S) /\ Len(t) \in Nat /\ Len(u) = Len(one) + Len(t)
    <3>1. one \in Seq(S) /\ t \in Seq(S) /\ u = one \o t
      BY <2>2, <2>4, <2>5
    <3> QED
      BY <3>1, ConcatFacts
  <2>7. u # << >>
    <3> DEFINE l == Len(t)
    <3>1. l \in Nat /\ Len(u) = 1 + l
      BY <2>2, <2>6
    <3> HIDE DEF l
    <3>2. Len(u) # 0
      BY <3>1
    <3> QED
      BY <3>2
  <2>8. u \in Seq(Cells(u))
    BY <2>6, OwnCells
  <2> QED
    BY <2>1, <2>7, <2>8 DEF u
<1>3. \/ p = MainPacket(s) \/ p = CreatorPacket(s)
      \/ \E i \in DOMAIN s.files : p = DescPacket(s, s.files[i]) \/ p = SumsPacket(s, s.files[i])
      \/ \E e \in DOMAIN s.recovery : p = RecoveryPacket(s, e)
  BY DEF PacketsOf
<1>4. CASE p = MainPacket(s)
  BY <1>1, <1>4 DEF MainPacket
<1>5. CASE p = CreatorPacket(s)
  BY <1>1, <1>5 DEF CreatorPacket
<1>6. CASE \E i \in DOMAIN s.files : p = DescPacket(s, s.files[i]) \/ p = SumsPacket(s, s.files[i])
  BY <1>1, <1>6 DEF DescPacket, SumsPacket
<1> QED
  BY <1>2, <1>3, <1>4, <1>5, <1>6

\* What is repeated in every file describes all of the set.
Describing(s) ==
    {MainPacket(s)} \cup { DescPacket(s, s.files[i]) : i \in DOMAIN s.files }
    \cup { SumsPacket(s, s.files[i]) : i \in DOMAIN s.files }

LEMMA CriticalDescribe ==
    ASSUME NEW s \in Sets
    PROVE  /\ CriticalPackets(s) \in Seq(PacketsOf(s)) /\ CriticalPackets(s) # << >>
           /\ Describing(s) \subseteq ToSet(CriticalPackets(s))
<1> DEFINE P == PacketsOf(s)
           main == <<MainPacket(s)>>
           pair(i) == <<DescPacket(s, s.files[i]), SumsPacket(s, s.files[i])>>
           pairs == [i \in DOMAIN s.files |-> pair(i)]
           middle == FlattenSeq(pairs)
           last == IF s.creator # "" THEN <<CreatorPacket(s)>> ELSE << >>
           begin == main \o middle
           all == begin \o last
<1>1. CriticalPackets(s) = all
  BY DEF CriticalPackets
<1>2. main \in Seq(P) /\ MainPacket(s) \in ToSet(main)
  <2>1. MainPacket(s) \in P
    BY DEF PacketsOf
  <2>2. main[1] = MainPacket(s) /\ 1 \in DOMAIN main
    OBVIOUS
  <2> HIDE DEF P
  <2>3. main \in Seq(P)
    BY <2>1
  <2> QED
    BY <2>2, <2>3 DEF ToSet
<1>3. last \in Seq(P)
  <2>1. CreatorPacket(s) \in P
    BY DEF PacketsOf
  <2> DEFINE c == CreatorPacket(s)
  <2> HIDE DEF P, c
  <2>2. <<c>> \in Seq(P) /\ << >> \in Seq(P)
    BY <2>1 DEF c
  <2> QED
    BY <2>2 DEF c
<1>4. ASSUME NEW i \in DOMAIN s.files
      PROVE  /\ pair(i) \in Seq(P)
             /\ DescPacket(s, s.files[i]) \in ToSet(pair(i)) /\ SumsPacket(s, s.files[i]) \in ToSet(pair(i))
  <2> DEFINE d == DescPacket(s, s.files[i])
             c == SumsPacket(s, s.files[i])
  <2>1. d \in P /\ c \in P
    BY DEF PacketsOf
  <2> HIDE DEF P, d, c
  <2>2. <<d, c>> \in Seq(P) /\ 1 \in DOMAIN <<d, c>> /\ 2 \in DOMAIN <<d, c>>
        /\ <<d, c>>[1] = d /\ <<d, c>>[2] = c
    BY <2>1
  <2>3. d \in ToSet(<<d, c>>) /\ c \in ToSet(<<d, c>>)
    BY <2>2 DEF ToSet
  <2> QED
    BY <2>2, <2>3 DEF d, c
<1>5. /\ pairs \in Seq(Seq(P)) /\ DOMAIN s.files = 1 .. Len(pairs)
      /\ \A i \in DOMAIN s.files : pairs[i] = pair(i)
  <2>1. s.files \in Seq(ToSet(s.files))
    BY SetsAssumption DEF SetsAssumption
  <2>2. Len(s.files) \in Nat /\ DOMAIN s.files = 1 .. Len(s.files)
    BY <2>1, LenProperties
  <2> DEFINE n == Len(s.files)
  <2>3. n \in Nat /\ DOMAIN s.files = 1 .. n
    BY <2>2
  <2> HIDE DEF n, P, pair
  <2>4. pairs \in [1 .. n -> Seq(P)]
    BY <1>4, <2>3
  <2>5. pairs \in Seq(Seq(P)) /\ DOMAIN pairs = 1 .. n
    BY <2>3, <2>4, SeqDef
  <2>6. DOMAIN pairs = 1 .. Len(pairs)
    BY <2>5, LenProperties
  <2> QED
    BY <2>3, <2>5, <2>6
<1>6. middle \in Seq(P) /\ \A i \in DOMAIN s.files : ToSet(pair(i)) \subseteq ToSet(middle)
  <2> HIDE DEF P, pair, pairs
  <2>1. middle \in Seq(P)
    BY <1>5, PartsAre
  <2>2. ASSUME NEW i \in DOMAIN s.files, NEW x \in ToSet(pair(i)) PROVE x \in ToSet(middle)
    <3>1. i \in 1 .. Len(pairs) /\ x \in ToSet(pairs[i])
      BY <1>5, <2>2
    <3> QED
      BY <1>5, <3>1, PartsHold
  <2> QED
    BY <2>1, <2>2
<1> HIDE DEF P, main, middle, last
<1>7. begin \in Seq(P) /\ ToSet(main) \subseteq ToSet(begin) /\ ToSet(middle) \subseteq ToSet(begin)
  BY <1>2, <1>6, ConcatHolds
<1> HIDE DEF begin
<1>8. all \in Seq(P) /\ ToSet(begin) \subseteq ToSet(all)
  BY <1>3, <1>7, ConcatHolds
<1> HIDE DEF all
<1>9. \A x \in Describing(s) : x \in ToSet(all)
  <2> SUFFICES ASSUME NEW x \in Describing(s) PROVE x \in ToSet(all)
    OBVIOUS
  <2>1. CASE x = MainPacket(s)
    BY <1>2, <1>7, <1>8, <2>1
  <2>2. CASE \E i \in DOMAIN s.files : x = DescPacket(s, s.files[i]) \/ x = SumsPacket(s, s.files[i])
    <3>1. PICK i \in DOMAIN s.files : x = DescPacket(s, s.files[i]) \/ x = SumsPacket(s, s.files[i])
      BY <2>2
    <3> HIDE DEF pair
    <3>2. x \in ToSet(pair(i))
      BY <1>4, <3>1
    <3> QED
      BY <1>6, <1>7, <1>8, <3>2
  <2> QED
    BY <2>1, <2>2 DEF Describing
<1>10. all # << >>
  <2>1. MainPacket(s) \in ToSet(all)
    BY <1>2, <1>7, <1>8
  <2>2. ToSet(<< >>) = {}
    BY DEF ToSet
  <2> QED
    BY <2>1, <2>2
<1> QED
  BY <1>1, <1>8, <1>9, <1>10 DEF P

\* Each file, read as it was written, describes all of the set.
LEMMA FilesDescribe ==
    ASSUME NEW s \in Sets, NEW file \in FilesOf(s)
    PROVE  Describing(s) \subseteq ToSet(ReadPackets(file))
<1> DEFINE P == PacketsOf(s)
           crit == CriticalPackets(s)
<1>1. crit \in Seq(P) /\ crit # << >> /\ Describing(s) \subseteq ToSet(crit)
  BY CriticalDescribe
<1>2. ASSUME NEW ps \in Seq(P), file = Stream(ps), ToSet(crit) \subseteq ToSet(ps)
      PROVE  Describing(s) \subseteq ToSet(ReadPackets(file))
  <2>1. \A k \in 1 .. Len(ps) : ps[k].body \in Seq(Cells(ps[k].body))
    <3> SUFFICES ASSUME NEW k \in 1 .. Len(ps) PROVE ps[k].body \in Seq(Cells(ps[k].body))
      OBVIOUS
    <3>1. ps[k] \in P
      OBVIOUS
    <3> QED
      BY <3>1, PacketsOfSet
  <2>2. ReadPackets(Stream(ps)) = ps
    BY <2>1, WrittenIsRead
  <2> QED
    BY <1>1, <1>2, <2>2
<1>3. CASE file = WriteIndex(s)
  BY <1>1, <1>2, <1>3 DEF WriteIndex
<1>4. CASE file # WriteIndex(s)
  <2>1. PICK es \in SeqOf(DOMAIN s.recovery, Cardinality(DOMAIN s.recovery)) : file = WriteVolume(s, es)
    BY <1>4 DEF FilesOf
  <2>2. PICK m \in 0 .. Cardinality(DOMAIN s.recovery) : es \in [1 .. m -> DOMAIN s.recovery]
    BY DEF SeqOf
  <2>3. m \in Nat
    <3>1. IsFiniteSet(DOMAIN s.recovery)
      BY SetsAssumption DEF SetsAssumption
    <3>2. Cardinality(DOMAIN s.recovery) \in Nat
      BY <3>1, FS_CardinalityType
    <3> QED
      BY <2>2, <3>2
  <2> DEFINE pair(i) == <<RecoveryPacket(s, es[i]), crit[((i - 1) % Len(crit)) + 1]>>
             pairs == [i \in DOMAIN es |-> pair(i)]
             first == FlattenSeq(pairs)
             ps == first \o crit
  <2>4. file = Stream(ps)
    BY <2>1 DEF WriteVolume
  <2>5. ASSUME NEW i \in 1 .. m PROVE pair(i) \in Seq(P)
    <3> DEFINE l == Len(crit)
               at == ((i - 1) % l) + 1
    <3>1. l \in Nat /\ l # 0
      BY <1>1, LenProperties, EmptySeq
    <3>2. at \in 1 .. l
      <4> HIDE DEF l
      <4>1. i - 1 \in Nat
        OBVIOUS
      <4>2. (i - 1) % l \in 0 .. l - 1
        BY <3>1, <4>1
      <4> QED
        BY <3>1, <4>2
    <3> HIDE DEF at
    <3>3. crit[at] \in P
      BY <1>1, <3>2
    <3>4. RecoveryPacket(s, es[i]) \in P
      <4>1. es[i] \in DOMAIN s.recovery
        BY <2>2
      <4> QED
        BY <4>1 DEF PacketsOf
    <3> DEFINE c == crit[at]
               d == RecoveryPacket(s, es[i])
    <3>5. c \in P /\ d \in P
      BY <3>3, <3>4
    <3> HIDE DEF c, d, P
    <3>6. <<d, c>> \in Seq(P)
      BY <3>5
    <3> QED
      BY <3>6 DEF c, d, at
  <2>6. pairs \in Seq(Seq(P))
    <3> HIDE DEF pair, P
    <3>1. pairs \in [1 .. m -> Seq(P)]
      BY <2>2, <2>5
    <3> QED
      BY <2>3, <3>1, SeqDef
  <2> HIDE DEF pairs, P, crit
  <2>7. first \in Seq(P)
    BY <2>6, PartsAre
  <2> HIDE DEF first
  <2>8. ps \in Seq(P) /\ ToSet(crit) \subseteq ToSet(ps)
    BY <1>1, <2>7, ConcatHolds
  <2> HIDE DEF ps
  <2> QED
    BY <1>2, <2>4, <2>8
<1> QED
  BY <1>3, <1>4

-----------------------------------------------------------------------------
(* Fewer damages than files leave a file as it was. *)

Changed == { f \in DOMAIN files : files[f] # stored[f] }
DamageInv == IsFiniteSet(Changed) /\ Cardinality(Changed) <= damage

LEMMA DamageCounts ==
    ASSUME FilesInv, DamageInv, NEW f \in DOMAIN files, DOMAIN files' = DOMAIN files,
           \A g \in DOMAIN files : g # f => files'[g] = files[g],
           stored' = stored, damage' = damage + 1
    PROVE  DamageInv'
<1>1. IsFiniteSet(Changed) /\ Cardinality(Changed) <= damage /\ damage \in Nat
  BY DEF DamageInv, FilesInv
<1> DEFINE more == Changed \cup {f}
<1>2. Changed' \subseteq more
  BY DEF Changed
<1>3. IsFiniteSet(more) /\ Cardinality(Changed) \in Nat /\ Cardinality(more) \in Nat
      /\ (Cardinality(more) = Cardinality(Changed) \/ Cardinality(more) = Cardinality(Changed) + 1)
  BY <1>1, FS_AddElement, FS_CardinalityType
<1> HIDE DEF more
<1>4. IsFiniteSet(Changed') /\ Cardinality(Changed') <= Cardinality(more) /\ Cardinality(Changed') \in Nat
  BY <1>2, <1>3, FS_Subset, FS_CardinalityType
<1>5. Cardinality(Changed') <= damage'
  BY <1>1, <1>3, <1>4
<1> QED
  BY <1>4, <1>5 DEF DamageInv

LEMMA DamageIsCounted == Spec => []DamageInv
<1>1. Init => DamageInv
  <2> SUFFICES ASSUME Init PROVE DamageInv
    OBVIOUS
  <2>1. Changed = {} /\ damage = 0
    BY DEF Init, Changed
  <2>2. IsFiniteSet({}) /\ Cardinality({}) = 0
    BY FS_EmptySet
  <2> QED
    BY <2>1, <2>2 DEF DamageInv
<1>2. ParseInv /\ DamageInv /\ [Next]_vars => DamageInv'
  <2> SUFFICES ASSUME ParseInv, DamageInv, [Next]_vars PROVE DamageInv'
    OBVIOUS
  <2>1. FilesInv
    BY DEF ParseInv
  <2>2. CASE Spoil
    <3>10. PICK f \in DOMAIN files : \E j \in DOMAIN files[f] :
            \E cell \in Damages(files[f][j]) : files' = [files EXCEPT ![f][j] = cell]
      BY <2>2 DEF Spoil
    <3>11. PICK j \in DOMAIN files[f] :
            \E cell \in Damages(files[f][j]) : files' = [files EXCEPT ![f][j] = cell]
      BY <3>10
    <3>1. PICK cell \in Damages(files[f][j]) : files' = [files EXCEPT ![f][j] = cell]
      BY <3>11
    <3>2. /\ DOMAIN files' = DOMAIN files
          /\ \A g \in DOMAIN files : g # f => files'[g] = files[g]
      BY <3>1
    <3>3. stored' = stored /\ damage' = damage + 1
      BY <2>2 DEF Spoil
    <3> QED
      BY <2>1, <3>2, <3>3, DamageCounts
  <2>3. CASE Truncate
    <3>10. PICK f \in DOMAIN files : \E n \in 0 .. Len(files[f]) - 1 :
            files' = [files EXCEPT ![f] = SubSeq(@, 1, n)]
      BY <2>3 DEF Truncate
    <3>1. PICK n \in 0 .. Len(files[f]) - 1 : files' = [files EXCEPT ![f] = SubSeq(@, 1, n)]
      BY <3>10
    <3>2. /\ DOMAIN files' = DOMAIN files
          /\ \A g \in DOMAIN files : g # f => files'[g] = files[g]
      BY <3>1
    <3>3. stored' = stored /\ damage' = damage + 1
      BY <2>3 DEF Truncate
    <3> QED
      BY <2>1, <3>2, <3>3, DamageCounts
  <2>4. CASE ~(Spoil \/ Truncate)
    <3>1. UNCHANGED fileVars
      BY <2>4 DEF Next, OpenFile, OpenFails, Skip, TakeMain, TakeFileDesc, TakeIFSC, TakeRecovery,
                  TakeCreator, Take, TakeNext, NoMain, MissingDescription, Finish, Returned, vars
    <3>2. Changed' = Changed /\ damage' = damage
      BY <3>1 DEF fileVars, Changed
    <3> QED
      BY <3>2 DEF DamageInv
  <2> QED
    BY <2>2, <2>3, <2>4
<1> QED
  BY <1>1, <1>2, ParseIsRight, PTL DEF Spec

LEMMA OneIsWhole ==
    ASSUME FilesInv, DamageInv, damage < Len(stored)
    PROVE  \E f \in DOMAIN files : files[f] = stored[f]
<1> SUFFICES ASSUME \A f \in DOMAIN files : files[f] # stored[f] PROVE FALSE
  OBVIOUS
<1>1. Len(files) \in Nat /\ DOMAIN files = 1 .. Len(files) /\ Len(files) = Len(stored) /\ damage \in Nat
  BY SeqFacts DEF FilesInv
<1>2. Changed = 1 .. Len(files)
  BY <1>1 DEF Changed
<1> DEFINE n == Len(files)
<1>3. n \in Nat /\ Changed = 1 .. n /\ damage < n
  BY <1>1, <1>2
<1> HIDE DEF n
<1>4. Cardinality(1 .. n) = n
  <2>1. 1 \in Int /\ n \in Int
    BY <1>3
  <2>2. Cardinality(1 .. n) = IF 1 > n THEN 0 ELSE (n - 1) + 1
    BY <2>1, FS_Interval
  <2> QED
    BY <1>3, <2>2
<1> QED
  BY <1>1, <1>3, <1>4 DEF DamageInv

-----------------------------------------------------------------------------
(* What is read of the files of one set. *)

\* The files of a set hold nothing but its packets, and fewer damages than
\* files leave all that describes it.
LEMMA AllOfSet ==
    ASSUME FilesInv, DamageInv, damage < Len(stored), NEW s \in Sets,
           \A i \in DOMAIN stored : stored[i] \in FilesOf(s),
           \A c \in Heads(stored) : c.packet \in PacketsOf(s)
    PROVE  AllSurviving \in Seq(PacketsOf(s)) /\ Describing(s) \subseteq ToSet(AllSurviving)
<1> DEFINE P == PacketsOf(s)
<1>1. Sent \subseteq P
  BY DEF Sent
<1>2. /\ \A f \in DOMAIN files : ReadPackets(files[f]) = Survivors[f]
      /\ Survivors \in Seq(Seq(Sent)) /\ Len(Survivors) = Len(files)
      /\ Len(files) \in Nat /\ DOMAIN files = 1 .. Len(files)
  BY FilesAreRead
<1>3. AllSurviving = FlattenSeq(Survivors)
  BY DEF AllSurviving, Survivors
<1>4. AllSurviving \in Seq(Sent)
  BY <1>2, <1>3, PartsAre
<1>5. AllSurviving \in Seq(P)
  <2> DEFINE t == AllSurviving
             T == Sent
  <2>1. t \in Seq(T) /\ T \subseteq P
    BY <1>1, <1>4
  <2> HIDE DEF t, T, P
  <2>2. t \in Seq(P)
    BY <2>1, WiderSeq
  <2> QED
    BY <2>2 DEF t
<1>6. PICK f \in DOMAIN files : files[f] = stored[f]
  BY OneIsWhole
<1>7. f \in DOMAIN stored
  BY DEF FilesInv
<1>8. Describing(s) \subseteq ToSet(ReadPackets(stored[f]))
  BY <1>7, FilesDescribe
<1>9. Describing(s) \subseteq ToSet(Survivors[f])
  BY <1>2, <1>6, <1>8
<1>10. f \in 1 .. Len(Survivors)
  BY <1>2, <1>6
<1>11. ToSet(Survivors[f]) \subseteq ToSet(FlattenSeq(Survivors))
  <2> DEFINE T == Sent
             ss == Survivors
  <2>1. ss \in Seq(Seq(T)) /\ f \in 1 .. Len(ss)
    BY <1>2, <1>10
  <2> HIDE DEF T, ss
  <2>2. \A x \in ToSet(ss[f]) : x \in ToSet(FlattenSeq(ss))
    BY <2>1, PartsHold
  <2> QED
    BY <2>2 DEF ss
<1> QED
  BY <1>3, <1>5, <1>9, <1>11

\* Packets of one set are all of the set of the first main packet.
LEMMA OneSetUnmixed ==
    ASSUME NEW s \in Sets, NEW t \in Seq(PacketsOf(s)), MainPacket(s) \in ToSet(t)
    PROVE  FirstMain(t) # 0 /\ t[FirstMain(t)] \in PacketsOf(s) /\ Relevant(t) = ToSet(t)
<1> DEFINE f == FirstMain(t)
           n == Len(t)
<1>1. /\ f \in 0 .. n /\ n \in Nat
      /\ f = 0 => \A k \in 1 .. n : ~IsMain(t[k])
  BY FirstMainFacts
<1>2. DOMAIN t = 1 .. n /\ \A k \in 1 .. n : t[k] \in PacketsOf(s)
  OBVIOUS
<1>3. PICK k \in 1 .. n : t[k] = MainPacket(s)
  BY <1>2 DEF ToSet
<1>4. IsMain(MainPacket(s))
  BY DEF IsMain, MainPacket, Packet
<1>5. f \in 1 .. n
  BY <1>1, <1>3, <1>4
<1>6. \A i \in 1 .. n : t[i].set = s.id /\ t[i].body # << >>
  BY <1>2, PacketsOfSet
<1>7. \A i \in 1 .. n : RelevantTo(t, i)
  BY <1>5, <1>6 DEF RelevantTo
<1>8. Relevant(t) = ToSet(t)
  BY <1>2, <1>7 DEF Relevant, ToSet
<1> QED
  BY <1>1, <1>2, <1>5, <1>8

\* What a packet of a set is made from.
LEMMA PacketOfType ==
    ASSUME NEW s \in Sets, NEW p \in PacketsOf(s)
    PROVE  /\ p.type = "Main" => p = MainPacket(s)
           /\ p.type = "FileDesc" => \E i \in DOMAIN s.files : p = DescPacket(s, s.files[i])
           /\ p.type = "IFSC" => \E i \in DOMAIN s.files : p = SumsPacket(s, s.files[i])
<1>1. CASE p = MainPacket(s)
  BY <1>1 DEF MainPacket, Packet
<1>2. CASE p = CreatorPacket(s)
  BY <1>2 DEF CreatorPacket, Packet
<1>3. ASSUME NEW i \in DOMAIN s.files, p = DescPacket(s, s.files[i])
      PROVE  p.type = "FileDesc"
  BY <1>3 DEF DescPacket, Packet
<1>4. ASSUME NEW i \in DOMAIN s.files, p = SumsPacket(s, s.files[i])
      PROVE  p.type = "IFSC"
  BY <1>4 DEF SumsPacket, Packet
<1>5. ASSUME NEW e \in DOMAIN s.recovery, p = RecoveryPacket(s, e)
      PROVE  p.type = "RecvSlic"
  BY <1>5 DEF RecoveryPacket, Packet
<1> QED
  BY <1>1, <1>2, <1>3, <1>4, <1>5 DEF PacketsOf

\* The descriptions and the checksums that packets of a set hold.
LEMMA ContentsOfSet ==
    ASSUME NEW s \in Sets, NEW own, own \subseteq PacketsOf(s), Describing(s) \subseteq own
    PROVE  /\ \A i \in DOMAIN s.files : Described(own, s.files[i].id) /\ Summed(own, s.files[i].id)
           /\ \A d \in Contents(own, "FileDesc") : \E i \in DOMAIN s.files :
                d.id = s.files[i].id /\ d.size = s.files[i].size /\ d.name = s.files[i].name
           /\ \A c \in Contents(own, "IFSC") : \E i \in DOMAIN s.files :
                c.id = s.files[i].id /\ c.slices = s.files[i].slices
<1>1. ASSUME NEW i \in DOMAIN s.files
      PROVE  Described(own, s.files[i].id) /\ Summed(own, s.files[i].id)
  <2> DEFINE d == DescPacket(s, s.files[i])
             c == SumsPacket(s, s.files[i])
  <2>1. d \in own /\ c \in own
    BY DEF Describing
  <2>2. d.type = "FileDesc" /\ d.body[1].id = s.files[i].id
    BY DEF DescPacket, Packet
  <2>3. c.type = "IFSC" /\ c.body[1].id = s.files[i].id
    BY DEF SumsPacket, Packet
  <2> HIDE DEF d, c
  <2>4. d.body[1] \in Contents(own, "FileDesc") /\ c.body[1] \in Contents(own, "IFSC")
    BY <2>1, <2>2, <2>3 DEF Contents
  <2> QED
    BY <2>2, <2>3, <2>4 DEF Described, Summed
<1>2. ASSUME NEW d \in Contents(own, "FileDesc")
      PROVE  \E i \in DOMAIN s.files :
                d.id = s.files[i].id /\ d.size = s.files[i].size /\ d.name = s.files[i].name
  <2>1. PICK p \in own : p.type = "FileDesc" /\ d = p.body[1]
    BY DEF Contents
  <2>2. p \in PacketsOf(s)
    BY <2>1
  <2>3. PICK i \in DOMAIN s.files : p = DescPacket(s, s.files[i])
    BY <2>1, <2>2, PacketOfType
  <2>4. d = [kind |-> "desc", id |-> s.files[i].id, size |-> s.files[i].size,
             name |-> s.files[i].name]
    BY <2>1, <2>3 DEF DescPacket, Packet
  <2> QED
    BY <2>4
<1>3. ASSUME NEW c \in Contents(own, "IFSC")
      PROVE  \E i \in DOMAIN s.files : c.id = s.files[i].id /\ c.slices = s.files[i].slices
  <2>1. PICK p \in own : p.type = "IFSC" /\ c = p.body[1]
    BY DEF Contents
  <2>2. p \in PacketsOf(s)
    BY <2>1
  <2>3. PICK i \in DOMAIN s.files : p = SumsPacket(s, s.files[i])
    BY <2>1, <2>2, PacketOfType
  <2>4. c = [kind |-> "sums", id |-> s.files[i].id, slices |-> s.files[i].slices]
    BY <2>1, <2>3 DEF SumsPacket, Packet
  <2> QED
    BY <2>4
<1> QED
  BY <1>1, <1>2, <1>3

\* An entry of Parse that is as the packets of a set say is a whole file.
LEMMA AsSaidIsWhole ==
    ASSUME NEW s \in Sets, NEW own, own \subseteq PacketsOf(s), Describing(s) \subseteq own,
           NEW i \in DOMAIN s.files, NEW file, AsSaid(own, s.files[i].id, file),
           sliceSize = s.slice
    PROVE  Whole(file)
<1> DEFINE id == s.files[i].id
<1>1. Described(own, id) /\ Summed(own, id)
  BY ContentsOfSet
<1>2. [kind |-> "desc", id |-> id, size |-> file.size, name |-> file.name]
        \in Contents(own, "FileDesc")
  BY <1>1 DEF AsSaid
<1>3. [kind |-> "sums", id |-> id, slices |-> file.slices] \in Contents(own, "IFSC")
  BY <1>1 DEF AsSaid
<1> DEFINE d == [kind |-> "desc", id |-> id, size |-> file.size, name |-> file.name]
           c == [kind |-> "sums", id |-> id, slices |-> file.slices]
<1>4. d.id = id /\ d.size = file.size /\ d.name = file.name /\ c.id = id /\ c.slices = file.slices
  OBVIOUS
<1>5. d \in Contents(own, "FileDesc") /\ c \in Contents(own, "IFSC")
  BY <1>2, <1>3
<1> HIDE DEF d, c
<1>6. PICK j \in DOMAIN s.files :
        d.id = s.files[j].id /\ d.size = s.files[j].size /\ d.name = s.files[j].name
  BY <1>5, ContentsOfSet
<1>7. PICK k \in DOMAIN s.files : c.id = s.files[k].id /\ c.slices = s.files[k].slices
  BY <1>5, ContentsOfSet
<1>8. j = i /\ k = i
  BY <1>4, <1>6, <1>7, SetsAssumption DEF SetsAssumption
<1>9. file.size = s.files[i].size /\ file.name = s.files[i].name /\ file.slices = s.files[i].slices
  BY <1>4, <1>6, <1>7, <1>8
<1>10. /\ s.files[i].name # ""
       /\ Len(s.files[i].slices) = (s.files[i].size + s.slice - 1) \div s.slice
  BY SetsAssumption DEF SetsAssumption
<1> QED
  BY <1>9, <1>10 DEF Whole

\* A whole file of a set is all that Parse needs (par2.go:263-264).  Of the
\* files of one set, fewer damages than there are files leave one as it was
\* written; it is read as it was written, and holds all that describes the set.
THEOREM AnyFileIsEnough == Spec => []EachFileIsEnough
<1>1. ParseInv /\ DamageInv => EachFileIsEnough
  <2> SUFFICES ASSUME ParseInv, DamageInv, pc \in {"ok", "nomain", "missing"}, stored \in OfOneSet,
                      damage < Len(stored)
               PROVE  pc = "ok" /\ \A i \in DOMAIN parsed : Whole(parsed[i])
    BY DEF EachFileIsEnough, Ended
  <2>1. FilesInv /\ ResultInv /\ TakenInv
    BY DEF ParseInv
  <2>2. PICK s \in Sets : /\ \A i \in DOMAIN stored : stored[i] \in FilesOf(s)
                          /\ \A c \in Heads(stored) : c.packet \in PacketsOf(s)
    BY DEF OfOneSet
  <2> DEFINE all == AllSurviving
             own == Relevant(all)
  <2>3. all \in Seq(PacketsOf(s)) /\ Describing(s) \subseteq ToSet(all)
    BY <2>1, <2>2, AllOfSet
  <2>4. TakenRight(all)
    BY AllTaken DEF all
  <2> HIDE DEF all
  <2>5. MainPacket(s) \in ToSet(all)
    BY <2>3 DEF Describing
  <2>6. FirstMain(all) # 0 /\ all[FirstMain(all)] \in PacketsOf(s) /\ own = ToSet(all)
    BY <2>3, <2>5, OneSetUnmixed
  <2>7. all[FirstMain(all)] = MainPacket(s)
    <3>1. IsMain(all[FirstMain(all)])
      BY <2>3, <2>6, FirstMainFacts
    <3> QED
      BY <2>6, <3>1, PacketOfType DEF IsMain
  <2>8. own \subseteq PacketsOf(s) /\ Describing(s) \subseteq own
    BY <2>3, <2>6 DEF ToSet
  <2>9. MainRight(all) /\ SeenRight(own)
    BY <2>4 DEF TakenRight
  <2> HIDE DEF own
  <2>10. haveMain /\ sliceSize = s.slice /\ order = [i \in DOMAIN s.files |-> s.files[i].id]
    <3>1. haveMain /\ [kind |-> "main", slice |-> sliceSize, ids |-> order] = MainPacket(s).body[1]
      BY <2>6, <2>7, <2>9 DEF MainRight
    <3> DEFINE ids == [i \in DOMAIN s.files |-> s.files[i].id]
    <3>2. MainPacket(s).body[1] = [kind |-> "main", slice |-> s.slice, ids |-> ids]
      BY DEF MainPacket, Packet
    <3> HIDE DEF ids
    <3>3. sliceSize = s.slice /\ order = ids
      BY <3>1, <3>2
    <3> QED
      BY <3>1, <3>3 DEF ids
  <2>11. ASSUME NEW i \in DOMAIN order
         PROVE  order[i] \in DOMAIN seen /\ Whole(seen[order[i]])
    <3>1. i \in DOMAIN s.files /\ order[i] = s.files[i].id
      BY <2>10
    <3>2. Described(own, order[i])
      BY <2>8, <3>1, ContentsOfSet
    <3>3. order[i] \in DOMAIN seen
      BY <2>9, <3>2 DEF SeenRight
    <3>4. AsSaid(own, order[i], seen[order[i]])
      BY <2>9, <3>3 DEF SeenRight
    <3>5. Whole(seen[order[i]])
      BY <2>8, <2>10, <3>1, <3>4, AsSaidIsWhole
    <3> QED
      BY <3>3, <3>5
  <2>12. pc # "nomain" /\ pc # "missing"
    BY <2>1, <2>10, <2>11 DEF ResultInv
  <2>13. pc = "ok"
    BY <2>12
  <2>14. parsed = [i \in DOMAIN order |-> seen[order[i]]]
    BY <2>1, <2>13 DEF ResultInv
  <2> QED
    BY <2>11, <2>13, <2>14
<1> QED
  BY <1>1, ParseIsRight, DamageIsCounted, PTL
=============================================================================
