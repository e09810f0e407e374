-------------------------- MODULE Par2RepairProofs --------------------------
(***************************************************************************)
(* Proofs about repair for every set, every slice size, every damage and   *)
(* any number of errors, crashes and reruns, among them files that cannot  *)
(* be opened and reads that break off: what is found is what it is taken   *)
(* for, a file is only ever replaced by a whole one, and success means     *)
(* that every file is back, but for what a read that broke off may have    *)
(* spoilt.  The same of the commands around it, for any companions and any *)
(* recovery slices, right ones or not.                                     *)
(***************************************************************************)
EXTENDS Par2Check, Induction, FiniteSetTheorems

-----------------------------------------------------------------------------
(* The data of the set. *)

\* Multiples of the slice size.
LEMMA Multiples ==
    ASSUME NEW a \in Nat, NEW b \in Nat
    PROVE  /\ a * Size \in Nat /\ a <= a * Size
           /\ a < b => a * Size + Size <= b * Size
           /\ a * Size < b * Size => a < b
<1>1. Size \in Nat /\ Size >= 1
  BY SetAssumption
<1>2. a * Size \in Nat /\ b * Size \in Nat
  BY <1>1
<1>3. a <= a * Size
  BY <1>1
<1>4. a < b => a * Size + Size <= b * Size
  <2> SUFFICES ASSUME a < b PROVE a * Size + Size <= b * Size
    OBVIOUS
  <2>1. PICK c \in Nat : b = a + 1 + c
    <3>1. b - a - 1 \in Nat /\ b = a + 1 + (b - a - 1)
      OBVIOUS
    <3> QED
      BY <3>1
  <2>2. b * Size = a * Size + Size + c * Size /\ c * Size \in Nat
    BY <1>1, <2>1
  <2> QED
    BY <1>1, <1>2, <2>2
<1>5. a * Size < b * Size => a < b
  <2> SUFFICES ASSUME b <= a PROVE b * Size <= a * Size
    BY <1>2
  <2>1. PICK c \in Nat : a = b + c
    <3>1. a - b \in Nat /\ a = b + (a - b)
      OBVIOUS
    <3> QED
      BY <3>1
  <2>2. a * Size = b * Size + c * Size /\ c * Size \in Nat
    BY <1>1, <2>1
  <2> QED
    BY <1>2, <2>2
<1> QED
  BY <1>2, <1>3, <1>4, <1>5

\* A window is as wide as a slice.
LEMMA WindowType ==
    ASSUME NEW c \in Seq(Byte), NEW o \in Nat
    PROVE  Window(c, o) \in Windows
<1> SUFFICES ASSUME NEW k \in 1 .. Size
             PROVE  (IF o + k <= Len(c) THEN c[o + k] ELSE Zero) \in Byte
  BY DEF Window, Windows
<1>1. k \in Nat \ {0} /\ Len(c) \in Nat
  BY SetAssumption
<1>2. o + k <= Len(c) => o + k \in 1 .. Len(c)
  BY <1>1
<1> QED
  BY <1>2, SetAssumption

\* What the slices are: the runs of Size bytes of the recorded files.
LEMMA SliceFacts ==
    /\ Len(Data) \in Nat /\ Size \in Nat \ {0}
    /\ \A f \in Files : Data[f] \in Seq(Byte) /\ Len(Data[f]) \in Nat /\ Data[f] # Absent
    /\ \A f \in Files, i \in Nat \ {0} : (i - 1) * Size < Len(Data[f]) => <<f, i>> \in Slices
    /\ \A s \in Slices : /\ s = <<s[1], s[2]>> /\ s[1] \in Files /\ s[2] \in Nat \ {0}
                         /\ Offset(s) \in Nat /\ Offset(s) < Len(Data[s[1]])
                         /\ DataOf(s) \in Windows
<1>1. Len(Data) \in Nat /\ Size \in Nat \ {0}
  BY SetAssumption
<1>2. \A f \in Files : Data[f] \in Seq(Byte) /\ Len(Data[f]) \in Nat /\ Data[f] # Absent
  BY SetAssumption DEF Files
<1>3. ASSUME NEW f \in Files, NEW i \in Nat \ {0}, (i - 1) * Size < Len(Data[f])
      PROVE  <<f, i>> \in Slices
  <2>1. i - 1 \in Nat
    OBVIOUS
  <2>2. i - 1 <= (i - 1) * Size /\ (i - 1) * Size \in Nat
    BY <2>1, Multiples
  <2>3. i \in 1 .. Len(Data[f])
    BY <1>2, <1>3, <2>1, <2>2
  <2> QED
    BY <1>3, <2>3 DEF Slices
<1>4. ASSUME NEW s \in Slices
      PROVE  /\ s = <<s[1], s[2]>> /\ s[1] \in Files /\ s[2] \in Nat \ {0}
             /\ Offset(s) \in Nat /\ Offset(s) < Len(Data[s[1]])
             /\ DataOf(s) \in Windows
  <2>1. PICK f \in Files :
          s \in {f} \X {i \in 1 .. Len(Data[f]) : (i - 1) * Size < Len(Data[f])}
    BY DEF Slices
  <2>2. s = <<s[1], s[2]>> /\ s[1] = f /\ s[2] \in 1 .. Len(Data[f])
          /\ (s[2] - 1) * Size < Len(Data[f])
    BY <2>1
  <2>3. s[2] \in Nat \ {0} /\ s[2] - 1 \in Nat
    BY <1>2, <2>2
  <2>4. Offset(s) \in Nat /\ Offset(s) < Len(Data[s[1]])
    BY <2>2, <2>3, Multiples DEF Offset
  <2>5. DataOf(s) \in Windows
    BY <1>2, <2>2, <2>4, WindowType DEF DataOf
  <2> QED
    BY <2>2, <2>3, <2>4, <2>5
<1> QED
  BY <1>1, <1>2, <1>3, <1>4

\* A file of the recorded size whose slices are all right is as recorded.
LEMMA SlicesMakeTheFile ==
    ASSUME NEW f \in Files, NEW c \in Seq(Byte), Len(c) = Len(Data[f]),
           \A s \in Slices : s[1] = f => Window(c, Offset(s)) = DataOf(s)
    PROVE  c = Data[f]
<1>1. Data[f] \in Seq(Byte) /\ Len(Data[f]) \in Nat /\ Size \in Nat \ {0}
  BY SliceFacts
<1>2. ASSUME NEW p \in 1 .. Len(c) PROVE c[p] = Data[f][p]
  <2> DEFINE q == (p - 1) \div Size
             r == (p - 1) % Size
             s == <<f, q + 1>>
  <2>1. p \in Nat \ {0} /\ p - 1 \in Nat /\ p <= Len(Data[f])
    BY <1>1
  <2>2. q \in Nat /\ r \in 0 .. Size - 1 /\ p - 1 = q * Size + r
    <3>1. \A n \in Nat, d \in Nat \ {0} :
            n \div d \in Nat /\ n % d \in 0 .. d - 1 /\ n = d * (n \div d) + (n % d)
      OBVIOUS
    <3>2. q \in Nat /\ r \in 0 .. Size - 1 /\ p - 1 = Size * q + r
      BY <1>1, <2>1, <3>1
    <3> HIDE DEF q, r
    <3> QED
      BY <1>1, <3>2
  <2> HIDE DEF q, r
  <2>3. q * Size \in Nat /\ q * Size < Len(Data[f]) /\ q + 1 \in Nat \ {0} /\ (q + 1) - 1 = q
    BY <1>1, <2>1, <2>2
  <2>4. s \in Slices /\ Offset(s) = q * Size
    BY <2>3, SliceFacts DEF Offset
  <2>5. Window(c, q * Size) = Window(Data[f], q * Size)
    BY <2>4 DEF DataOf
  <2>6. r + 1 \in 1 .. Size /\ q * Size + (r + 1) = p
    BY <1>1, <2>1, <2>2, <2>3
  <2>7. Window(c, q * Size)[r + 1] = c[p] /\ Window(Data[f], q * Size)[r + 1] = Data[f][p]
    BY <1>1, <2>1, <2>6 DEF Window
  <2> QED
    BY <2>5, <2>7
<1> QED
  BY <1>1, <1>2

-----------------------------------------------------------------------------
(* What locate finds. *)

\* The locations of a disk are the offsets in the files that are there.
LEMMA LocationFacts ==
    ASSUME NEW d \in Disk, NEW at \in Locations(d)
    PROVE  /\ at = <<at[1], at[2]>> /\ at[1] \in Files /\ at[2] \in Nat
           /\ d[at[1]] # Absent /\ d[at[1]] \in Seq(Byte) /\ at[2] < Len(d[at[1]])
<1>1. PICK f \in Existing(d) : at \in {f} \X (0 .. Len(d[f]) - 1)
  BY DEF Locations
<1>2. at = <<at[1], at[2]>> /\ at[1] = f /\ at[2] \in 0 .. Len(d[f]) - 1
  BY <1>1
<1>3. f \in Files /\ d[f] # Absent /\ d[f] \in Seq(Byte) /\ Len(d[f]) \in Nat
  BY DEF Disk, File, Existing
<1> QED
  BY <1>2, <1>3

\* The site recorded for a slice is one of its sites: the order in which the
\* sweep meets them has a first.
LEMMA FirstSiteIsSite ==
    ASSUME NEW S \in SUBSET (Nat \X Nat), S # {}
    PROVE  FirstSite(S) \in S
<1> DEFINE T == {at[1] : at \in S}
<1>1. PICK f \in T : \A k \in T : f <= k
  <2>1. T \in SUBSET Nat /\ T # {}
    OBVIOUS
  <2> HIDE DEF T
  <2> QED
    BY <2>1, LeastOfNats
<1> DEFINE U == {at[2] : at \in {x \in S : x[1] = f}}
<1>2. PICK p \in U : \A k \in U : p <= k
  <2>1. U \in SUBSET Nat /\ U # {}
    OBVIOUS
  <2> HIDE DEF U
  <2> QED
    BY <2>1, LeastOfNats
<1>3. PICK at \in S : at[1] = f /\ at[2] = p
  BY <1>2
<1>4. ASSUME NEW other \in S PROVE ~Precedes(other, at)
  <2>1. other[1] \in T /\ f <= other[1]
    BY <1>1
  <2>2. other[1] = f => other[2] \in U /\ p <= other[2]
    BY <1>2
  <2>3. other[1] \in Nat /\ other[2] \in Nat /\ f \in Nat /\ p \in Nat
    BY <1>3
  <2> HIDE DEF T, U
  <2> QED
    BY <1>3, <2>1, <2>2, <2>3 DEF Precedes
<1> HIDE DEF T, U
<1> QED
  BY <1>4 DEF FirstSite

\* A slice that was found is really there, or else it was accepted where it
\* belongs, perhaps beyond the end of the file.
LEMMA LocateSound ==
    ASSUME NEW d \in Disk, NEW U, NEW W, NEW s \in Findable(d, U, W)
    PROVE  LET at == Locate(d, U, W)[s]
           IN  /\ s \in Slices /\ at \in Files \X Nat /\ d[at[1]] # Absent
               /\ WindowAt(d, at) = DataOf(s)
               /\ at \in Locations(d) \/ Aligned(d, U, s)
<1> DEFINE at == Locate(d, U, W)[s]
<1>1. s \in Slices
  BY DEF Findable
<1>2. CASE Aligned(d, U, s)
  <2>1. at = Home(s)
    BY <1>2 DEF Locate
  <2>2. s[1] \in Files /\ Offset(s) \in Nat
    BY <1>1, SliceFacts
  <2>3. Home(s) \in Files \X Nat /\ Home(s)[1] = s[1]
    BY <2>2 DEF Home
  <2>4. d[s[1]] # Absent /\ WindowAt(d, Home(s)) = DataOf(s)
    BY <1>2 DEF Aligned, Existing
  <2> HIDE DEF at
  <2>5. at \in Files \X Nat /\ d[at[1]] # Absent /\ WindowAt(d, at) = DataOf(s)
    BY <2>1, <2>3, <2>4
  <2> QED
    BY <1>1, <1>2, <2>5 DEF at
<1>3. CASE ~Aligned(d, U, s)
  <2> DEFINE S == Sites(d, U, W, s)
  <2>1. S # {} /\ at = FirstSite(S)
    BY <1>3 DEF Findable, Locate
  <2>2. \A x \in S : x \in Locations(d) /\ WindowAt(d, x) = DataOf(s)
    BY DEF Sites, MatchesAs
  <2> HIDE DEF S, at
  <2>3. S \in SUBSET (Nat \X Nat)
    <3>1. Files \subseteq Nat
      BY SliceFacts DEF Files
    <3>2. ASSUME NEW x \in S PROVE x \in Nat \X Nat
      <4>1. x = <<x[1], x[2]>> /\ x[1] \in Files /\ x[2] \in Nat
        BY <2>2, LocationFacts
      <4> QED
        BY <3>1, <4>1
    <3> QED
      BY <3>2
  <2>4. at \in S
    BY <2>1, <2>3, FirstSiteIsSite
  <2>5. at \in Locations(d) /\ WindowAt(d, at) = DataOf(s)
    BY <2>2, <2>4
  <2>6. at = <<at[1], at[2]>> /\ at[1] \in Files /\ at[2] \in Nat /\ d[at[1]] # Absent
    BY <2>5, LocationFacts
  <2>7. at \in Files \X Nat
    BY <2>6
  <2> QED
    BY <1>1, <2>5, <2>6, <2>7 DEF at
<1> QED
  BY <1>2, <1>3

\* A file reported OK holds exactly what the set records.
LEMMA OKMeansIntact ==
    ASSUME NEW d \in Disk, NEW U, NEW W, NEW f \in Files, FileOK(d, Locate(d, U, W), f)
    PROVE  d[f] = Data[f]
<1>1. d[f] # Absent /\ d[f] \in Seq(Byte) /\ Len(d[f]) = Len(Data[f])
  BY DEF FileOK, Disk, File
<1>2. ASSUME NEW s \in Slices, s[1] = f PROVE Window(d[f], Offset(s)) = DataOf(s)
  <2>1. s \in Findable(d, U, W) /\ DOMAIN Locate(d, U, W) = Findable(d, U, W)
    <3>1. DOMAIN Locate(d, U, W) = Findable(d, U, W)
      BY DEF Locate
    <3>2. s \notin Missing(Locate(d, U, W))
      BY <1>2 DEF FileOK, Damaged
    <3> QED
      BY <3>1, <3>2 DEF Missing
  <2>2. Locate(d, U, W)[s] = Home(s)
    BY <1>2, <2>1 DEF FileOK, Misplaced
  <2>3. WindowAt(d, Home(s)) = DataOf(s)
    BY <2>1, <2>2, LocateSound
  <2> QED
    BY <1>2, <2>3 DEF WindowAt, Home
<1> QED
  BY <1>1, <1>2, SlicesMakeTheFile

\* A file that is as recorded and can be opened is reported OK.
LEMMA IntactIsOK ==
    ASSUME NEW d \in Disk, NEW U, NEW W, NEW f \in Files \ U, d[f] = Data[f]
    PROVE  FileOK(d, Locate(d, U, W), f)
<1>1. f \in Existing(d) \ U
  BY SliceFacts DEF Existing
<1>2. ASSUME NEW s \in Slices, s[1] = f
      PROVE  s \in DOMAIN Locate(d, U, W) /\ Locate(d, U, W)[s] = Home(s)
  <2>1. \A k : WindowAt(d, Home(<<f, k>>)) = DataOf(<<f, k>>)
    BY DEF WindowAt, DataOf, Home, Offset
  <2>2. s = <<f, s[2]>>
    BY <1>2, SliceFacts
  <2>3. Aligned(d, U, s)
    BY <1>1, <1>2, <2>1, <2>2 DEF Aligned
  <2> QED
    BY <2>3 DEF Locate, Findable
<1>3. Damaged(Locate(d, U, W), f) = {} /\ Misplaced(Locate(d, U, W), f) = {}
  <2> DEFINE loc == Locate(d, U, W)
  <2>1. DOMAIN loc \subseteq Slices
    BY DEF Locate, Findable
  <2> HIDE DEF loc
  <2>2. \A s \in Slices : s[1] = f => s \in DOMAIN loc /\ loc[s] = Home(s)
    BY <1>2 DEF loc
  <2>3. Damaged(loc, f) = {} /\ Misplaced(loc, f) = {}
    BY <2>1, <2>2 DEF Damaged, Misplaced, Missing
  <2> QED
    BY <2>3 DEF loc
<1> QED
  BY <1>1, <1>3 DEF FileOK, Existing

-----------------------------------------------------------------------------
(* What is written. *)

\* Of a file written up to the start of a slice or to its end, every slice that
\* is not still to come counts as written.
Written(c, t) == Offset(t) < Len(c)

\* Writing the slice that is due leaves those before it alone; the file grows
\* by the window, or by what is left of it to its recorded size.
LEMMA WriteFacts ==
    ASSUME NEW c \in Seq(Byte), NEW s \in Slices, Offset(s) = Len(c), NEW w \in Windows
    PROVE  LET e == c \o Trimmed(s, w)
           IN  /\ e \in Seq(Byte)
               /\ \/ Len(e) = Len(Data[s[1]])
                  \/ \E t \in Slices : t[1] = s[1] /\ Offset(t) = Len(e)
               /\ \A t \in Slices :
                    t[1] = s[1] /\ Written(e, t) =>
                        \/ t = s
                        \/ Written(c, t) /\ Window(e, Offset(t)) = Window(c, Offset(t))
               /\ w = DataOf(s) => Window(e, Offset(s)) = DataOf(s)
<1> DEFINE f == s[1]
           left == Len(Data[f]) - Offset(s)
           n == IF left < Size THEN left ELSE Size
           part == SubSeq(w, 1, n)
           e == c \o part
<1>1. /\ f \in Files /\ s = <<f, s[2]>> /\ s[2] \in Nat \ {0} /\ Size \in Nat \ {0}
      /\ Offset(s) \in Nat /\ Offset(s) < Len(Data[f]) /\ Len(Data[f]) \in Nat
      /\ Data[f] \in Seq(Byte)
  BY SliceFacts
<1>2. Trimmed(s, w) = part
  BY DEF Trimmed
<1>3. n \in 1 .. Size /\ n \in Nat
  BY <1>1
<1> HIDE DEF n
<1>4. part \in Seq(Byte) /\ Len(part) = n /\ \A k \in 1 .. n : part[k] = w[k]
  <2>1. w \in Seq(Byte) /\ Len(w) = Size
    <3>1. w \in [1 .. Size -> Byte]
      BY DEF Windows
    <3> QED
      BY <1>1, <3>1
  <2> QED
    BY <1>3, <2>1
<1> HIDE DEF part
<1>5. /\ e \in Seq(Byte) /\ Len(e) = Offset(s) + n
      /\ \A k \in 1 .. Offset(s) : e[k] = c[k]
      /\ \A k \in 1 .. n : e[Offset(s) + k] = w[k]
  <2>1. Len(c) = Offset(s) /\ Len(e) = Len(c) + Len(part) /\ e \in Seq(Byte)
    BY <1>4
  <2>2. \A k \in 1 .. Len(c) : e[k] = c[k]
    BY <1>4
  <2>3. ASSUME NEW k \in 1 .. n PROVE e[Offset(s) + k] = w[k]
    <3>1. k \in 1 .. Len(part) /\ part[k] = w[k]
      BY <1>4
    <3>2. Len(c) + k \in Len(c) + 1 .. Len(c) + Len(part)
      BY <1>1, <1>3, <1>4, <2>1
    <3>3. e[Len(c) + k] = part[Len(c) + k - Len(c)] /\ Len(c) + k - Len(c) = k
      BY <1>1, <1>3, <1>4, <2>1, <3>1, <3>2
    <3> QED
      BY <2>1, <3>1, <3>3
  <2> QED
    BY <1>4, <2>1, <2>2, <2>3
<1> HIDE DEF e
<1>6. Len(e) = Len(Data[f]) \/ \E t \in Slices : t[1] = f /\ Offset(t) = Len(e)
  <2>1. CASE left < Size
    BY <1>1, <1>5, <2>1 DEF n
  <2>2. CASE ~(left < Size)
    <3>1. n = Size
      BY <2>2 DEF n
    <3>2. Len(e) = s[2] * Size
      BY <1>1, <1>5, <3>1 DEF Offset
    <3>3. Len(e) <= Len(Data[f])
      BY <1>1, <1>5, <2>2, <3>1
    <3>4. s[2] + 1 \in Nat \ {0} /\ (s[2] + 1) - 1 = s[2]
      BY <1>1
    <3>5. CASE Len(e) < Len(Data[f])
      <4>1. <<f, s[2] + 1>> \in Slices
        BY <1>1, <3>2, <3>4, <3>5, SliceFacts
      <4>2. Offset(<<f, s[2] + 1>>) = Len(e)
        BY <3>2, <3>4 DEF Offset
      <4> QED
        BY <4>1, <4>2
    <3> QED
      BY <1>1, <1>5, <3>3, <3>5
  <2> QED
    BY <2>1, <2>2
<1>7. ASSUME NEW t \in Slices, t[1] = f, Written(e, t), t # s
      PROVE  Written(c, t) /\ Window(e, Offset(t)) = Window(c, Offset(t))
  <2>1. t = <<f, t[2]>> /\ t[2] \in Nat \ {0} /\ Offset(t) \in Nat
    BY <1>7, SliceFacts
  <2> DEFINE i == t[2] - 1
             j == s[2] - 1
  <2>2. i \in Nat /\ j \in Nat /\ i # j /\ Offset(t) = i * Size /\ Offset(s) = j * Size
    <3>1. t[2] # s[2]
      BY <1>1, <1>7, <2>1
    <3> QED
      BY <1>1, <2>1, <3>1 DEF Offset
  <2> HIDE DEF i, j
  <2>3. i * Size < (j + 1) * Size
    <3>1. i * Size < j * Size + Size
      BY <1>1, <1>3, <1>5, <1>7, <2>1, <2>2 DEF Written
    <3>2. (j + 1) * Size = j * Size + Size
      BY <1>1, <2>2
    <3> QED
      BY <3>1, <3>2
  <2>4. i < j + 1
    BY <2>2, <2>3, Multiples
  <2>5. i < j
    BY <2>2, <2>4
  <2>6. Offset(t) + Size <= Offset(s)
    BY <2>2, <2>5, Multiples
  <2>7. ASSUME NEW k \in 1 .. Size
        PROVE  /\ Offset(t) + k \in 1 .. Offset(s)
               /\ Offset(t) + k <= Len(e) /\ Offset(t) + k <= Len(c)
    BY <1>1, <1>3, <1>5, <2>1, <2>6
  <2>8. Window(e, Offset(t)) = Window(c, Offset(t))
    BY <1>5, <2>7 DEF Window
  <2>9. Written(c, t)
    BY <1>1, <2>1, <2>6 DEF Written
  <2> QED
    BY <2>8, <2>9
<1>8. ASSUME w = DataOf(s) PROVE Window(e, Offset(s)) = DataOf(s)
  <2>1. ASSUME NEW k \in 1 .. Size
        PROVE  (IF Offset(s) + k <= Len(e) THEN e[Offset(s) + k] ELSE Zero)
                 = (IF Offset(s) + k <= Len(Data[f]) THEN Data[f][Offset(s) + k] ELSE Zero)
    <3>1. w[k] = IF Offset(s) + k <= Len(Data[f]) THEN Data[f][Offset(s) + k] ELSE Zero
      BY <1>8 DEF DataOf, Window
    <3>2. CASE k <= n
      <4>1. Offset(s) + k <= Len(e) /\ e[Offset(s) + k] = w[k]
        BY <1>1, <1>3, <1>5, <3>2
      <4> QED
        BY <3>1, <4>1
    <3>3. CASE ~(k <= n)
      <4>1. n = left
        BY <1>1, <3>3 DEF n
      <4>2. ~(Offset(s) + k <= Len(e)) /\ ~(Offset(s) + k <= Len(Data[f]))
        BY <1>1, <1>5, <3>3, <4>1
      <4> QED
        BY <4>2
    <3> QED
      BY <3>2, <3>3
  <2> QED
    BY <2>1 DEF DataOf, Window
<1>9. e = c \o Trimmed(s, w)
  BY <1>2 DEF e
<1> QED
  BY <1>5, <1>6, <1>7, <1>8, <1>9

-----------------------------------------------------------------------------
(***************************************************************************)
(* The inductive invariant.  What is reassembled is right because it is    *)
(* read while the disk is still as locate found it (FoundRight), from the  *)
(* recovered slices (RecoveredRight), one after the other (PartRight); a   *)
(* finished temporary file is whole (BuiltWhole), and so are the files     *)
(* that are neither to be built nor to be renamed (KeptWhole).             *)
(***************************************************************************)
FoundRight ==
    pc \in {"solve", "build"} => \A s \in DOMAIN found : WindowAt(disk, found[s]) = DataOf(s)

RecoveredRight ==
    (pc = "build" /\ Reliable) => \A s \in DOMAIN recovered \ torn : recovered[s] = DataOf(s)

PartRight ==
    (pc = "build" /\ cur # 0) =>
        /\ cur \in todo
        /\ tmp[cur] # Absent
        /\ Len(tmp[cur]) = Len(Data[cur]) \/ \E s \in Slices : Due(s)
        /\ \A s \in Slices \ torn :
            s[1] = cur /\ Written(tmp[cur], s) /\ (s \in DOMAIN found \/ Reliable)
                => Window(tmp[cur], Offset(s)) = DataOf(s)

BuiltWhole ==
    pc \in Running =>
        /\ built \cap todo = {}
        /\ \A f \in built : tmp[f] # Absent /\ Reassembled(f, tmp[f])

KeptWhole ==
    pc \in Running =>
        \A f \in Files \ (todo \cup built) : disk[f] # Absent /\ Reassembled(f, disk[f])

PhaseRight ==
    /\ pc = "solve" => built = {} /\ cur = 0 /\ torn = {}
    /\ pc = "rename" => todo = {}

IInv ==
    /\ TypeOK
    /\ FoundRight
    /\ RecoveredRight
    /\ PartRight
    /\ BuiltWhole
    /\ KeptWhole
    /\ PhaseRight
    /\ DoneMeansIntact

-----------------------------------------------------------------------------
(* The invariant holds at the start and is kept by every action. *)

\* Whether the recovery data serves is settled when locate is done.
LEMMA ReliableStays == UNCHANGED found => (Reliable' <=> Reliable)
<1> SUFFICES ASSUME found' = found PROVE Reliable' <=> Reliable
  OBVIOUS
<1> QED
  BY DEF Reliable

\* The bounded faults.
LEMMA FaultType == TypeOK /\ (Fault \/ faults' = faults) => faults' \in 0 .. MaxFaults
<1> SUFFICES ASSUME TypeOK, Fault \/ faults' = faults PROVE faults' \in 0 .. MaxFaults
  OBVIOUS
<1>1. faults \in 0 .. MaxFaults /\ MaxFaults \in Nat
  BY RepairAssumption DEF TypeOK
<1>2. CASE Fault
  BY <1>1, <1>2 DEF Fault
<1>3. CASE faults' = faults
  BY <1>1, <1>3
<1> QED
  BY <1>2, <1>3

LEMMA OpeningType ==
    ASSUME TypeOK, NEW U, NEW W, Opening(U, W)
    PROVE  faults' \in 0 .. MaxFaults
  BY FaultType DEF Opening

LEMMA InitIInv == Init => IInv
<1> SUFFICES ASSUME Init PROVE IInv
  OBVIOUS
<1>1. disk \in Disk /\ tmp \in Disk
  <2>1. \A f \in Files : Absent \in File
    BY DEF File
  <2> QED
    BY <2>1, RepairAssumption DEF Init, Disk
<1>2. DOMAIN found = {} /\ DOMAIN recovered = {}
  BY DEF Init, EmptyMap
<1>3. TypeOK
  BY <1>1, <1>2, RepairAssumption DEF Init, TypeOK, Halted
<1> QED
  BY <1>2, <1>3 DEF Init, IInv, FoundRight, RecoveredRight, PartRight, BuiltWhole,
     KeptWhole, PhaseRight, DoneMeansIntact, Running

\* A file that is as recorded is whole.
LEMMA IntactIsWhole ==
    ASSUME NEW f \in Files, disk[f] = Data[f]
    PROVE  disk[f] # Absent /\ Reassembled(f, disk[f])
  BY SliceFacts DEF Reassembled, DataOf

\* Begin: locate is sound and files reported OK are intact.
LEMMA BeginIInv == IInv /\ Begin => IInv'
<1> SUFFICES ASSUME IInv, Begin PROVE IInv'
  OBVIOUS
<1> DEFINE loc == Locate(disk, unseen', unswept')
<1>1. /\ disk \in Disk /\ disk' = disk /\ tmp' = tmp /\ found' = loc /\ cur' = 0
      /\ built' = {} /\ torn' = {} /\ DOMAIN recovered' = {} /\ faults' \in 0 .. MaxFaults
      /\ unseen' \subseteq Files /\ unswept' \subseteq Files
      /\ todo' = { f \in Files : ~FileOK(disk, loc, f) }
      /\ pc' = IF todo' = {} THEN "done"
               ELSE IF Missing(loc) = {} THEN "build" ELSE "solve"
  BY OpeningType DEF Begin, IInv, TypeOK, EmptyMap, Existing
<1>2. DOMAIN found' = Findable(disk, unseen', unswept')
  BY <1>1 DEF Locate
<1>3. \A s \in DOMAIN found' :
        s \in Slices /\ found'[s] \in Files \X Nat /\ WindowAt(disk, found'[s]) = DataOf(s)
  BY <1>1, <1>2, LocateSound
<1>4. TypeOK'
  <2>1. pc' \in Running \cup Halted
    BY <1>1 DEF Running, Halted
  <2>2. DOMAIN found' \subseteq Slices /\ \A s \in DOMAIN found' : found'[s] \in Files \X Nat
    BY <1>3
  <2> HIDE DEF loc
  <2> QED
    BY <1>1, <2>1, <2>2 DEF IInv, TypeOK
<1>5. FoundRight'
  BY <1>1, <1>3 DEF FoundRight
<1>6. \A f \in Files : f \notin todo' => disk'[f] = Data[f]
  BY <1>1, OKMeansIntact
<1> HIDE DEF loc
<1>7. KeptWhole'
  <2>1. ASSUME NEW f \in Files \ (todo' \cup built')
        PROVE  (disk[f] # Absent /\ Reassembled(f, disk[f]))'
    BY <1>6, <2>1, SliceFacts DEF Reassembled, DataOf
  <2> QED
    BY <2>1 DEF KeptWhole
<1>8. DoneMeansIntact'
  <2>1. pc' = "done" => todo' = {}
    BY <1>1
  <2>2. pc' = "done" => disk' = Intact
    BY <1>1, <1>6, <2>1 DEF Intact, Disk
  <2> QED
    BY <2>2 DEF DoneMeansIntact
<1>9. RecoveredRight' /\ PartRight' /\ BuiltWhole' /\ PhaseRight'
  <2>1. pc' # "rename"
    BY <1>1
  <2> QED
    BY <1>1, <2>1 DEF RecoveredRight, PartRight, BuiltWhole, PhaseRight
<1> QED
  BY <1>4, <1>5, <1>7, <1>8, <1>9 DEF IInv

\* Solve: with recovery data of these files, and having read the found slices
\* right, it recovers the missing ones right; having read one of them in part,
\* it answers for none.
LEMMA SolveIInv == IInv /\ (Solve \/ SolveMisread) => IInv'
<1> SUFFICES ASSUME IInv, Solve \/ SolveMisread PROVE IInv'
  OBVIOUS
<1> USE DEF IInv
<1>1. /\ pc = "solve" /\ pc' = "build" /\ torn = {} /\ built = {} /\ cur = 0
      /\ UNCHANGED <<disk, tmp, found, unseen, unswept, todo, cur, built>>
      /\ recovered' \in [Missing(found) -> Windows]
      /\ torn' = {} \/ torn' = Missing(found)
      /\ faults' \in 0 .. MaxFaults
  BY FaultType DEF Solve, SolveMisread, lookVars, PhaseRight
<1>2. TypeOK'
  <2>1. DOMAIN recovered' \subseteq Slices /\ \A s \in DOMAIN recovered' : recovered'[s] \in Windows
    BY <1>1 DEF Missing
  <2>2. torn' \subseteq Slices
    BY <1>1 DEF Missing
  <2> QED
    BY <1>1, <2>1, <2>2 DEF TypeOK, Running
<1>3. FoundRight'
  BY <1>1 DEF FoundRight
<1>4. RecoveredRight'
  <2>1. CASE Solve
    <3>1. Reliable => ReadRight
      BY <1>1 DEF ReadRight, FoundRight
    <3>2. Reliable => \A s \in DOMAIN recovered' : recovered'[s] = DataOf(s)
      BY <2>1, <3>1 DEF Solve
    <3> QED
      BY <1>1, <3>2, ReliableStays DEF RecoveredRight
  <2>2. CASE SolveMisread
    <3>1. DOMAIN recovered' \ torn' = {}
      BY <1>1, <2>2 DEF SolveMisread
    <3> QED
      BY <3>1 DEF RecoveredRight
  <2> QED
    BY <2>1, <2>2
<1>5. PartRight' /\ PhaseRight'
  BY <1>1 DEF PartRight, PhaseRight
<1>6. BuiltWhole' /\ KeptWhole'
  BY <1>1, ReliableStays DEF BuiltWhole, KeptWhole, Reassembled, Running
<1>7. DoneMeansIntact'
  BY <1>1 DEF DoneMeansIntact
<1> QED
  BY <1>2, <1>3, <1>4, <1>5, <1>6, <1>7

\* CreateTmp touches no file but the temporary one it truncates.
LEMMA CreateTmpIInv == IInv /\ CreateTmp => IInv'
<1> SUFFICES ASSUME IInv, CreateTmp PROVE IInv'
  OBVIOUS
<1> USE DEF IInv
<1>1. PICK f \in todo : cur' = f /\ tmp' = [tmp EXCEPT ![f] = << >>]
  BY DEF CreateTmp
<1>2. /\ f \in Files /\ f \notin built /\ f # 0 /\ pc = "build"
      /\ UNCHANGED <<disk, pc, found, unseen, unswept, recovered, todo, built, torn, faults>>
  BY SliceFacts DEF TypeOK, CreateTmp, BuiltWhole, Running, Files, lookVars
<1>3. TypeOK'
  <2>1. << >> \in File
    BY DEF File
  <2>2. tmp' \in Disk
    BY <1>1, <2>1 DEF TypeOK, Disk
  <2> QED
    BY <1>1, <1>2, <2>2 DEF TypeOK
<1>4. tmp'[f] = << >> /\ \A h \in built : tmp'[h] = tmp[h]
  BY <1>1, <1>2 DEF TypeOK, Disk
<1>5. PartRight'
  <2>1. tmp'[f] # Absent
    <3>1. << >> \in Seq(Byte)
      OBVIOUS
    <3> QED
      BY <1>4, <3>1, SetAssumption
  <2>2. Len(tmp'[f]) = 0
    BY <1>4
  <2>3. Len(Data[f]) = 0 \/ \E s \in Slices : s[1] = f /\ Offset(s) = 0
    <3>1. CASE Len(Data[f]) # 0
      <4>1. (1 - 1) * Size = 0 /\ 0 < Len(Data[f])
        BY <1>2, <3>1, SliceFacts
      <4>2. <<f, 1>> \in Slices
        BY <1>2, <4>1, SliceFacts
      <4> QED
        BY <4>1, <4>2 DEF Offset
    <3> QED
      BY <3>1
  <2>4. \A s \in Slices : ~Written(tmp'[f], s)
    BY <2>2, SliceFacts DEF Written
  <2> QED
    BY <1>1, <1>2, <2>1, <2>2, <2>3, <2>4 DEF PartRight, Due, Written
<1>6. BuiltWhole' /\ KeptWhole'
  BY <1>2, <1>4, ReliableStays DEF BuiltWhole, KeptWhole, Reassembled
<1> QED
  BY <1>2, <1>3, <1>5, <1>6, ReliableStays DEF FoundRight, RecoveredRight,
     PhaseRight, DoneMeansIntact

\* What either write appends: the window that belongs there, unless the slice
\* is one that may be spoilt.
LEMMA WrittenWindow ==
    ASSUME IInv, WriteSlice \/ WriteMisread
    PROVE  \E s \in Slices, w \in Windows :
             /\ Due(s) /\ Write(s, w)
             /\ s \notin torn' /\ (s \in DOMAIN found \/ Reliable) => w = DataOf(s)
<1> USE DEF IInv
<1>0. cur \in Files /\ cur # 0 /\ pc = "build"
  BY DEF WriteSlice, WriteMisread, TypeOK
<1>1. CASE WriteSlice
  <2>0. torn' = torn
    BY <1>1 DEF WriteSlice, runVars
  <2>1. PICK s \in Slices :
          /\ Due(s)
          /\ \/ /\ s \in DOMAIN found /\ Readable(found[s])
                /\ Write(s, WindowAt(disk, found[s]))
             \/ s \in DOMAIN recovered \ DOMAIN found /\ Write(s, recovered[s])
    BY <1>1 DEF WriteSlice
  <2>2. CASE s \in DOMAIN found /\ Write(s, WindowAt(disk, found[s]))
    <3>1. WindowAt(disk, found[s]) = DataOf(s)
      BY <1>0, <2>2 DEF FoundRight
    <3>2. DataOf(s) \in Windows
      BY SliceFacts
    <3> QED
      BY <2>1, <2>2, <3>1, <3>2
  <2>3. CASE s \in DOMAIN recovered \ DOMAIN found /\ Write(s, recovered[s])
    <3>1. recovered[s] \in Windows
      BY <2>3 DEF TypeOK
    <3>2. s \notin torn /\ Reliable => recovered[s] = DataOf(s)
      BY <1>0, <2>3 DEF RecoveredRight
    <3> QED
      BY <2>0, <2>1, <2>3, <3>1, <3>2
  <2> QED
    BY <2>1, <2>2, <2>3
<1>2. CASE WriteMisread
  <2>1. PICK s \in DOMAIN found :
          /\ Due(s) /\ Readable(found[s])
          /\ \E w \in Misreads(found[s]) : Write(s, w)
          /\ torn' = torn \cup {s}
    BY <1>2 DEF WriteMisread
  <2>2. PICK w \in Misreads(found[s]) : Write(s, w)
    BY <2>1
  <2>3. s \in Slices /\ found[s][1] \in Files /\ found[s][2] \in Nat
    BY <2>1 DEF TypeOK
  <2>4. WindowAt(disk, found[s]) \in Windows
    <3>1. disk[found[s][1]] \in Seq(Byte)
      BY <2>1, <2>3 DEF TypeOK, Disk, File, Readable
    <3> QED
      BY <2>3, <3>1, WindowType DEF WindowAt
  <2>5. w \in Windows
    BY <2>2, <2>4, SetAssumption DEF Misreads, Windows
  <2> QED
    BY <2>1, <2>2, <2>3, <2>5
<1> QED
  BY <1>1, <1>2

\* Either write appends the slice that belongs at this place of the file.
LEMMA WriteIInv == IInv /\ (WriteSlice \/ WriteMisread) => IInv'
<1> SUFFICES ASSUME IInv, WriteSlice \/ WriteMisread PROVE IInv'
  OBVIOUS
<1> USE DEF IInv
<1>1. /\ pc = "build" /\ cur # 0 /\ torn \subseteq torn' /\ torn' \subseteq Slices
      /\ UNCHANGED <<disk, pc, found, unseen, unswept, recovered, todo, cur, built>>
      /\ faults' \in 0 .. MaxFaults
  <2>1. CASE WriteSlice
    BY <2>1, FaultType DEF WriteSlice, runVars, lookVars, TypeOK
  <2>2. CASE WriteMisread
    <3>1. torn' \subseteq Slices
      BY <2>2 DEF WriteMisread, TypeOK
    <3>2. torn \subseteq torn'
      BY <2>2 DEF WriteMisread
    <3> QED
      BY <2>2, <3>1, <3>2, FaultType DEF WriteMisread, lookVars
  <2> QED
    BY <2>1, <2>2
<1>2. cur \in Files /\ cur \in todo /\ cur \notin built /\ tmp[cur] \in Seq(Byte)
  BY <1>1 DEF TypeOK, PartRight, BuiltWhole, Running, Disk, File
<1>3. PICK s \in Slices :
        \E w \in Windows :
          /\ Due(s) /\ Write(s, w)
          /\ s \notin torn' /\ (s \in DOMAIN found \/ Reliable) => w = DataOf(s)
  BY WrittenWindow
<1>4. PICK w \in Windows :
          /\ Due(s) /\ Write(s, w)
          /\ s \notin torn' /\ (s \in DOMAIN found \/ Reliable) => w = DataOf(s)
  BY <1>3
<1> DEFINE c == tmp[cur]
           e == c \o Trimmed(s, w)
<1>5. s[1] = cur /\ Offset(s) = Len(c)
  BY <1>4 DEF Due
<1>6. /\ e \in Seq(Byte)
      /\ Len(e) = Len(Data[cur]) \/ \E t \in Slices : t[1] = cur /\ Offset(t) = Len(e)
      /\ \A t \in Slices :
           t[1] = cur /\ Written(e, t) =>
               t = s \/ (Written(c, t) /\ Window(e, Offset(t)) = Window(c, Offset(t)))
      /\ w = DataOf(s) => Window(e, Offset(s)) = DataOf(s)
  BY <1>2, <1>5, WriteFacts
<1>7. tmp'[cur] = e /\ \A h \in Files \ {cur} : tmp'[h] = tmp[h]
  BY <1>2, <1>4 DEF TypeOK, Disk, Write
<1> HIDE DEF e
<1>8. TypeOK'
  <2>1. tmp' \in Disk
    BY <1>2, <1>4, <1>6, <1>7 DEF TypeOK, Disk, File, Write
  <2> QED
    BY <1>1, <2>1 DEF TypeOK
<1>9. PartRight'
  <2>1. tmp'[cur] # Absent
    BY <1>6, <1>7, SetAssumption
  <2>2. Len(tmp'[cur]) = Len(Data[cur]) \/ \E t \in Slices : t[1] = cur /\ Offset(t) = Len(tmp'[cur])
    BY <1>6, <1>7
  <2>3. ASSUME NEW t \in Slices \ torn', t[1] = cur, Written(tmp'[cur], t),
               t \in DOMAIN found \/ Reliable
        PROVE  Window(tmp'[cur], Offset(t)) = DataOf(t)
    <3>1. CASE t = s
      BY <1>4, <1>6, <1>7, <2>3, <3>1
    <3>2. CASE t # s
      <4>1. Written(c, t) /\ Window(e, Offset(t)) = Window(c, Offset(t))
        BY <1>6, <1>7, <2>3, <3>2
      <4>2. Window(c, Offset(t)) = DataOf(t)
        BY <1>1, <2>3, <4>1 DEF PartRight
      <4> QED
        BY <1>7, <4>1, <4>2
    <3> QED
      BY <3>1, <3>2
  <2> QED
    BY <1>1, <1>2, <2>1, <2>2, <2>3, ReliableStays DEF PartRight, Due, Written
<1>10. BuiltWhole' /\ KeptWhole'
  <2>1. \A h \in built : h \in Files \ {cur} /\ tmp'[h] = tmp[h]
    BY <1>2, <1>7 DEF TypeOK
  <2> QED
    BY <1>1, <2>1, ReliableStays DEF BuiltWhole, KeptWhole, Reassembled
<1> QED
  BY <1>1, <1>8, <1>9, <1>10, ReliableStays DEF FoundRight, RecoveredRight,
     PhaseRight, DoneMeansIntact

\* CloseTmp: when no slice is left to write the temporary file is whole.
LEMMA CloseTmpIInv == IInv /\ CloseTmp => IInv'
<1> SUFFICES ASSUME IInv, CloseTmp PROVE IInv'
  OBVIOUS
<1> USE DEF IInv
<1>1. /\ cur \in Files /\ tmp[cur] # Absent /\ tmp[cur] \in Seq(Byte) /\ cur \in todo
      /\ Len(tmp[cur]) = Len(Data[cur])
  BY DEF CloseTmp, TypeOK, PartRight, Disk, File
<1>2. UNCHANGED <<disk, tmp, found, unseen, unswept, recovered, torn, faults>>
  BY DEF CloseTmp, lookVars
<1>3. Reassembled(cur, tmp[cur])
  <2>1. \A s \in Slices : s[1] = cur => Written(tmp[cur], s)
    BY <1>1, SliceFacts DEF Written
  <2> QED
    BY <1>1, <2>1 DEF CloseTmp, PartRight, Reassembled
<1>4. TypeOK'
  BY <1>1, <1>2 DEF CloseTmp, TypeOK, Running
<1>5. BuiltWhole'
  <2>1. built \cap todo = {} /\ \A f \in built : tmp[f] # Absent /\ Reassembled(f, tmp[f])
    BY DEF CloseTmp, BuiltWhole, Running
  <2>2. \A f : Reassembled(f, tmp[f])' <=> Reassembled(f, tmp[f])
    BY <1>2, ReliableStays DEF Reassembled
  <2>3. built' \cap todo' = {}
    BY <2>1 DEF CloseTmp
  <2> QED
    BY <1>1, <1>2, <1>3, <2>1, <2>2, <2>3 DEF CloseTmp, BuiltWhole
<1>6. FoundRight' /\ RecoveredRight' /\ PartRight'
  BY <1>2, ReliableStays DEF CloseTmp, FoundRight, RecoveredRight, PartRight
<1>7. KeptWhole'
  <2>1. Files \ (todo' \cup built') = Files \ (todo \cup built) /\ pc \in Running
    BY <1>1 DEF CloseTmp, Running
  <2> QED
    BY <1>2, <2>1, ReliableStays DEF KeptWhole, Reassembled
<1>8. PhaseRight' /\ DoneMeansIntact'
  BY <1>2 DEF CloseTmp, PhaseRight, DoneMeansIntact
<1> QED
  BY <1>4, <1>5, <1>6, <1>7, <1>8

\* CleanUp leaves a disk of temporary files.
LEMMA CleanUpType == TypeOK /\ CleanUp => tmp' \in Disk
  BY DEF TypeOK, CleanUp, Disk, File

\* Steps that end the run without touching a protected file.
LEMMA StopIInv ==
    ASSUME IInv, pc' \in {"refused", "ioerror", "crashed"},
           UNCHANGED <<disk, runVars>>, tmp' \in Disk, faults' \in 0 .. MaxFaults
    PROVE  IInv'
<1> USE DEF IInv
<1>1. TypeOK'
  BY DEF TypeOK, runVars, lookVars, Halted
<1> QED
  BY <1>1 DEF FoundRight, RecoveredRight, PartRight, BuiltWhole, KeptWhole, PhaseRight,
     DoneMeansIntact, Running

\* With the recovery data right and no read broken off, whole means as recorded.
LEMMA WholeIsIntact ==
    ASSUME NEW f \in Files, NEW c \in Seq(Byte), Reassembled(f, c), Reliable, torn = {}
    PROVE  c = Data[f]
  BY SlicesMakeTheFile DEF Reassembled

\* Rename: the file that takes the place of another one is whole.
LEMMA RenameIInv ==
    IInv /\ Rename =>
        /\ IInv'
        /\ \A f \in Files : disk'[f] # disk[f] => disk'[f] # Absent /\ Reassembled(f, disk'[f])
<1> SUFFICES ASSUME IInv, Rename
             PROVE  /\ IInv'
                    /\ \A f \in Files : disk'[f] # disk[f]
                            => disk'[f] # Absent /\ Reassembled(f, disk'[f])
  OBVIOUS
<1> USE DEF IInv
<1>1. PICK f \in built :
        /\ disk' = [disk EXCEPT ![f] = tmp[f]]
        /\ tmp' = [tmp EXCEPT ![f] = Absent]
        /\ built' = built \ {f}
        /\ pc' = IF built = {f} THEN "done" ELSE "rename"
  BY DEF Rename
<1>2. /\ f \in Files /\ tmp[f] # Absent /\ tmp[f] \in Seq(Byte) /\ Reassembled(f, tmp[f])
      /\ pc = "rename" /\ todo = {}
      /\ UNCHANGED <<found, unseen, unswept, recovered, todo, cur, torn, faults>>
  BY DEF Rename, lookVars, TypeOK, BuiltWhole, Running, Disk, File, PhaseRight
<1>3. disk'[f] = tmp[f] /\ \A h \in Files \ {f} : disk'[h] = disk[h] /\ tmp'[h] = tmp[h]
  BY <1>1, <1>2 DEF TypeOK, Disk
<1>4. TypeOK'
  <2>1. disk' \in Disk /\ tmp' \in Disk
    BY <1>1, <1>2 DEF TypeOK, Disk, File
  <2> QED
    BY <1>1, <1>2, <2>1 DEF TypeOK, Running, Halted
<1>5. BuiltWhole'
  <2>1. \A h \in built' : h \in Files \ {f} /\ h \in built
    BY <1>1 DEF TypeOK
  <2>2. \A h \in built : tmp[h] # Absent /\ Reassembled(h, tmp[h])
    BY <1>2 DEF BuiltWhole, Running
  <2> QED
    BY <1>2, <1>3, <2>1, <2>2, ReliableStays DEF BuiltWhole, Reassembled
<1>6. \A h \in Files \ built' : disk'[h] # Absent /\ Reassembled(h, disk'[h])
  <2> SUFFICES ASSUME NEW h \in Files \ built'
               PROVE  disk'[h] # Absent /\ Reassembled(h, disk'[h])
    OBVIOUS
  <2>1. CASE h = f
    BY <1>2, <1>3, <2>1
  <2>2. CASE h # f
    BY <1>1, <1>2, <1>3, <2>2 DEF KeptWhole, Running
  <2> QED
    BY <2>1, <2>2
<1>7. KeptWhole'
  BY <1>2, <1>6, ReliableStays DEF KeptWhole, Reassembled
<1>8. DoneMeansIntact'
  <2> SUFFICES ASSUME pc' = "done", Reliable, torn = {} PROVE disk' = Intact
    BY <1>2, ReliableStays DEF DoneMeansIntact
  <2>1. built' = {}
    BY <1>1
  <2>2. ASSUME NEW h \in Files PROVE disk'[h] = Data[h]
    <3>1. disk'[h] # Absent /\ Reassembled(h, disk'[h]) /\ disk'[h] \in Seq(Byte)
      BY <1>4, <1>6, <2>1 DEF TypeOK, Disk, File
    <3> QED
      BY <3>1, WholeIsIntact
  <2> QED
    BY <1>4, <2>2 DEF TypeOK, Disk, Intact
<1>9. FoundRight' /\ RecoveredRight' /\ PartRight' /\ PhaseRight'
  BY <1>1, <1>2 DEF FoundRight, RecoveredRight, PartRight, PhaseRight
<1>10. \A h \in Files : disk'[h] # disk[h] => disk'[h] # Absent /\ Reassembled(h, disk'[h])
  BY <1>2, <1>3
<1> QED
  BY <1>4, <1>5, <1>7, <1>8, <1>9, <1>10

\* Every step keeps the invariant.
LEMMA NextIInv == IInv /\ [Next]_vars => IInv'
<1> SUFFICES ASSUME IInv, [Next]_vars PROVE IInv'
  OBVIOUS
<1>1. CASE Begin
  BY <1>1, BeginIInv
<1>2. CASE Solve \/ SolveMisread
  BY <1>2, SolveIInv
<1>3. CASE SolveFails
  <2>1. faults' \in 0 .. MaxFaults /\ tmp' \in Disk
    BY <1>3 DEF SolveFails, IInv, TypeOK
  <2> QED
    BY <1>3, <2>1, StopIInv DEF SolveFails
<1>4. CASE CreateTmp
  BY <1>4, CreateTmpIInv
<1>5. CASE WriteSlice \/ WriteMisread
  BY <1>5, WriteIInv
<1>6. CASE CloseTmp
  BY <1>6, CloseTmpIInv
<1>7. CASE WriteFails
  <2>1. faults' \in 0 .. MaxFaults /\ tmp' \in Disk
    BY <1>7, CleanUpType DEF WriteFails, IInv, TypeOK
  <2> QED
    BY <1>7, <2>1, StopIInv DEF WriteFails
<1>8. CASE Rename
  BY <1>8, RenameIInv
<1>9. CASE Failure
  <2>1. faults' \in 0 .. MaxFaults
    BY <1>9, FaultType
    DEF Failure, LocateError, SolveError, BuildError, RenameError, Crash, IInv
  <2>2. tmp' \in Disk
    BY <1>9, CleanUpType
    DEF Failure, LocateError, SolveError, BuildError, RenameError, Crash, IInv, TypeOK
  <2>3. UNCHANGED <<disk, runVars>> /\ pc' \in {"ioerror", "crashed"}
    BY <1>9 DEF Failure, LocateError, SolveError, BuildError, RenameError, Crash
  <2> QED
    BY <2>1, <2>2, <2>3, StopIInv
<1>10. CASE UNCHANGED vars
  BY <1>10, ReliableStays DEF vars, IInv, TypeOK, FoundRight, RecoveredRight, PartRight, Due,
     BuiltWhole, Reassembled, KeptWhole, PhaseRight, DoneMeansIntact
<1> QED
  BY <1>1, <1>2, <1>3, <1>4, <1>5, <1>6, <1>7, <1>8, <1>9, <1>10 DEF Next, Step, Misread

\* The inductive invariant of repair, and with it type correctness.
THEOREM Invariance == Spec => []IInv
<1> QED
  BY InitIInv, NextIInv, PTL DEF Spec

\* Every reachable state is of the declared type.
THEOREM TypeCorrect == Spec => []TypeOK
<1>1. IInv => TypeOK
  BY DEF IInv
<1> QED
  BY <1>1, Invariance, PTL

\* RepairWith returns nil only with every file of the set back as recorded
\* (repair.go:96-132), whatever was found or could not be opened, and whatever
\* happened to earlier runs, provided the recovery slices are of these files
\* and no read of this run broke off in the middle of a slice (repair.go:312-318).
THEOREM DoneIsIntact == Spec => []DoneMeansIntact
<1>1. IInv => DoneMeansIntact
  BY DEF IInv
<1> QED
  BY <1>1, Invariance, PTL

\* A protected file is only ever replaced by a whole one, as long as recorded and
\* right in every slice that was found, be the recovery data stale or not
\* (repair.go:192-194), but for slices of which a read broke off: there is no
\* state in which a file is half rewritten.
THEOREM ReplacementIsWhole == Spec => WholeReplacement
<1> DEFINE Whole ==
      \A f \in Files : disk'[f] # disk[f] => disk'[f] # Absent /\ Reassembled(f, disk'[f])
<1>1. IInv /\ [Next]_vars => [Whole]_vars
  <2> SUFFICES ASSUME IInv, [Next]_vars PROVE Whole
    OBVIOUS
  <2>1. CASE Rename
    BY <2>1, RenameIInv
  <2>2. CASE ~Rename
    <3>1. disk' = disk
      BY <2>2 DEF Next, Step, Misread, Begin, Solve, SolveMisread, SolveFails, CreateTmp,
         WriteSlice, WriteMisread, CloseTmp, WriteFails, Failure, LocateError, SolveError,
         BuildError, RenameError, Crash, vars
    <3> QED
      BY <3>1
  <2> QED
    BY <2>1, <2>2
<1>2. Spec => [][Whole]_vars
  BY <1>1, Invariance, PTL DEF Spec
<1> QED
  BY <1>2 DEF WholeReplacement

-----------------------------------------------------------------------------
(***************************************************************************)
(* What repair may not do even when it fails.  The plan is made for the    *)
(* disk as it is until the first rename (PlanFits), it is only carried out *)
(* when there are recovery slices enough (PlanPays) and every missing      *)
(* slice was recovered (PlanFull).                                         *)
(***************************************************************************)
PlanFits == pc \in {"solve", "build"} => found = Locate(disk, unseen, unswept)

PlanPays == pc \in {"build", "rename"} => Cardinality(Missing(found)) <= Cardinality(Exps)

PlanFull == pc = "build" => Missing(found) \subseteq DOMAIN recovered

SafeInv ==
    /\ PlanFits
    /\ PlanPays
    /\ PlanFull
    /\ RefusedForAReason

\* There are finitely many slices, and the empty set has none.
LEMMA FiniteSlices ==
    /\ IsFiniteSet(Slices)
    /\ \A loc : IsFiniteSet(Missing(loc))
    /\ Cardinality(Exps) \in Nat
<1> DEFINE part ==
             [f \in Files |-> {f} \X {i \in 1 .. Len(Data[f]) : (i - 1) * Size < Len(Data[f])}]
           parts == { part[f] : f \in Files }
<1>1. IsFiniteSet(parts)
  <2>1. 1 \in Int /\ Len(Data) \in Int
    BY SliceFacts
  <2>2. IsFiniteSet(Files)
    BY <2>1, FS_Interval DEF Files
  <2>3. part \in Surjection(Files, parts)
    BY DEF Surjection
  <2> QED
    BY <2>2, <2>3, FS_Surjection
<1>2. ASSUME NEW P \in parts PROVE IsFiniteSet(P)
  <2>1. PICK f \in Files : P = part[f]
    OBVIOUS
  <2> DEFINE I == {i \in 1 .. Len(Data[f]) : (i - 1) * Size < Len(Data[f])}
  <2>2. 1 \in Int /\ Len(Data[f]) \in Int
    BY SliceFacts
  <2>3. IsFiniteSet(1 .. Len(Data[f])) /\ I \subseteq 1 .. Len(Data[f])
    BY <2>2, FS_Interval
  <2>4. IsFiniteSet(I)
    BY <2>3, FS_Subset
  <2>5. IsFiniteSet({f})
    BY FS_Singleton
  <2>6. P = {f} \X I
    BY <2>1
  <2> QED
    BY <2>4, <2>5, <2>6, FS_Product
<1>3. IsFiniteSet(Slices)
  <2>1. Slices = UNION parts
    BY DEF Slices
  <2> QED
    BY <1>1, <1>2, <2>1, FS_UNION
<1>4. \A loc : Missing(loc) \subseteq Slices
  BY DEF Missing
<1> QED
  BY <1>3, <1>4, FS_Subset, FS_CardinalityType, RepairAssumption

LEMMA InitSafeInv == Init => SafeInv
  BY DEF Init, SafeInv, PlanFits, PlanPays, PlanFull, RefusedForAReason

\* Begin: the plan is made for the disk as it is.
LEMMA BeginSafeInv == IInv /\ Begin => SafeInv'
<1> SUFFICES ASSUME IInv, Begin PROVE SafeInv'
  OBVIOUS
<1> DEFINE loc == Locate(disk, unseen', unswept')
<1>1. /\ disk' = disk /\ found' = loc
      /\ \/ pc' = "done" \/ pc' = "solve"
         \/ pc' = "build" /\ Missing(loc) = {}
  BY DEF Begin
<1>2. PlanFits' /\ RefusedForAReason'
  BY <1>1 DEF PlanFits, RefusedForAReason
<1>3. pc' \in {"build", "rename"} => Missing(found') = {}
  BY <1>1
<1>4. PlanPays'
  <2>1. Cardinality({}) = 0 /\ 0 <= Cardinality(Exps)
    BY FS_EmptySet, FiniteSlices
  <2> QED
    BY <1>3, <2>1 DEF PlanPays
<1>5. PlanFull'
  BY <1>3 DEF PlanFull
<1> QED
  BY <1>2, <1>4, <1>5 DEF SafeInv

\* Solving goes on only with as many recovery slices as slices are missing.
LEMMA SolveSafeInv == SafeInv /\ (Solve \/ SolveMisread) => SafeInv'
<1> SUFFICES ASSUME SafeInv, Solve \/ SolveMisread PROVE SafeInv'
  OBVIOUS
<1>1. /\ pc = "solve" /\ pc' = "build" /\ Enough
      /\ UNCHANGED <<disk, found, unseen, unswept>>
      /\ DOMAIN recovered' = Missing(found)
  BY DEF Solve, SolveMisread, Solvable, lookVars
<1>2. Cardinality(Missing(found)) <= Cardinality(Exps)
  <2>1. Cardinality(Missing(found)) \in Nat /\ Cardinality(Exps) \in Nat
    BY FiniteSlices, FS_CardinalityType
  <2> QED
    BY <1>1, <2>1 DEF Enough
<1> QED
  BY <1>1, <1>2 DEF SafeInv, PlanFits, PlanPays, PlanFull, RefusedForAReason, Missing

\* Building leaves the disk and the plan alone.
LEMMA BuildSafeInv ==
    ASSUME SafeInv, CreateTmp \/ WriteSlice \/ WriteMisread \/ CloseTmp
    PROVE  SafeInv'
<1>1. /\ pc = "build" /\ UNCHANGED <<disk, found, unseen, unswept, recovered>>
      /\ pc' \in {"build", "rename"}
  BY DEF CreateTmp, WriteSlice, WriteMisread, CloseTmp, runVars, lookVars
<1> QED
  BY <1>1 DEF SafeInv, PlanFits, PlanPays, PlanFull, RefusedForAReason, Missing

LEMMA RenameSafeInv == SafeInv /\ Rename => SafeInv'
<1> SUFFICES ASSUME SafeInv, Rename PROVE SafeInv'
  OBVIOUS
<1>1. pc = "rename" /\ pc' \in {"rename", "done"} /\ UNCHANGED <<found, unseen, unswept, recovered>>
  BY DEF Rename, lookVars
<1> QED
  BY <1>1 DEF SafeInv, PlanFits, PlanPays, PlanFull, RefusedForAReason, Missing

\* Refusing: without enough recovery slices, with a singular matrix or with a
\* slice that cannot be read back; no missing slice was forgotten.
LEMMA RefuseSafeInv == SafeInv /\ (SolveFails \/ WriteFails) => SafeInv'
<1> SUFFICES ASSUME SafeInv, SolveFails \/ WriteFails PROVE SafeInv'
  OBVIOUS
<1>1. /\ pc \in {"solve", "build"} /\ pc' = "refused"
      /\ UNCHANGED <<disk, found, unseen, unswept>>
  BY DEF SolveFails, WriteFails, runVars, lookVars
<1>2. found = Locate(disk, unseen, unswept)
  BY <1>1 DEF SafeInv, PlanFits
<1>3. \/ ~Enough
      \/ \E s \in DOMAIN found : ~Readable(found[s])
      \/ <<LowestExps(Cardinality(Missing(found))), Missing(found)>> \in Singular
  <2>1. CASE SolveFails
    BY <2>1 DEF SolveFails, Solvable
  <2>2. CASE WriteFails
    <3>1. PICK s \in Slices :
            IF s \in DOMAIN found THEN ~Readable(found[s]) ELSE s \notin DOMAIN recovered
      BY <2>2 DEF WriteFails
    <3>2. s \in DOMAIN found
      BY <2>2, <3>1 DEF WriteFails, SafeInv, PlanFull, Missing
    <3> QED
      BY <3>1, <3>2
  <2> QED
    BY <2>1, <2>2
<1>4. RefusedForAReason'
  BY <1>1, <1>2, <1>3 DEF RefusedForAReason, Enough, Readable
<1> QED
  BY <1>1, <1>4 DEF SafeInv, PlanFits, PlanPays, PlanFull

LEMMA NextSafeInv == IInv /\ SafeInv /\ [Next]_vars => SafeInv'
<1> SUFFICES ASSUME IInv, SafeInv, [Next]_vars PROVE SafeInv'
  OBVIOUS
<1>1. CASE Begin
  BY <1>1, BeginSafeInv
<1>2. CASE Solve \/ SolveMisread
  BY <1>2, SolveSafeInv
<1>3. CASE SolveFails \/ WriteFails
  BY <1>3, RefuseSafeInv
<1>4. CASE CreateTmp \/ WriteSlice \/ WriteMisread \/ CloseTmp
  BY <1>4, BuildSafeInv
<1>5. CASE Rename
  BY <1>5, RenameSafeInv
<1>6. CASE Failure
  <2>1. pc' \in {"ioerror", "crashed"}
    BY <1>6 DEF Failure, LocateError, SolveError, BuildError, RenameError, Crash
  <2> QED
    BY <2>1 DEF SafeInv, PlanFits, PlanPays, PlanFull, RefusedForAReason
<1>7. CASE UNCHANGED vars
  BY <1>7 DEF vars, SafeInv, PlanFits, PlanPays, PlanFull, RefusedForAReason, Enough, Readable,
     Missing
<1> QED
  BY <1>1, <1>2, <1>3, <1>4, <1>5, <1>6, <1>7 DEF Next, Step, Misread

\* The inductive invariant of what repair keeps even when it fails.
THEOREM SafeInvariance == Spec => []SafeInv
<1>1. Init => IInv /\ SafeInv
  BY InitIInv, InitSafeInv
<1>2. IInv /\ SafeInv /\ [Next]_vars => (IInv /\ SafeInv)'
  BY NextIInv, NextSafeInv
<1> QED
  BY <1>1, <1>2, PTL DEF Spec

\* Repair gives up for one of three reasons only (repair.go:136-186), before it
\* replaced any file: that a missing slice was not recovered, an internal
\* error of rewriteAll, is never one of them.
THEOREM RefusalHasReason == Spec => []RefusedForAReason
<1>1. SafeInv => RefusedForAReason
  BY DEF SafeInv
<1> QED
  BY <1>1, SafeInvariance, PTL

\* A whole file contains the slices it is right in.
LEMMA WholeContains ==
    ASSUME NEW s \in Slices, NEW c \in Seq(Byte), Len(c) = Len(Data[s[1]]),
           Window(c, Offset(s)) = DataOf(s)
    PROVE  IsIn(DataOf(s), c)
<1>1. Offset(s) \in 0 .. Len(c) - 1
  BY SliceFacts
<1> QED
  BY <1>1 DEF IsIn

\* Before the first rename, what was found is in the protected files.
LEMMA FoundOnDisk ==
    ASSUME NEW s \in Slices, disk \in Disk, s \in DOMAIN found,
           found = Locate(disk, unseen, unswept)
    PROVE  Aligned(disk, {}, s) \/ \E f \in Files : disk[f] # Absent /\ IsIn(DataOf(s), disk[f])
<1>1. s \in Findable(disk, unseen, unswept)
  BY DEF Locate
<1>2. CASE Aligned(disk, unseen, s)
  BY <1>2 DEF Aligned
<1>3. CASE found[s] \in Locations(disk) /\ WindowAt(disk, found[s]) = DataOf(s)
  <2> DEFINE at == found[s]
  <2>1. /\ at[1] \in Files /\ at[2] \in Nat /\ disk[at[1]] # Absent
        /\ disk[at[1]] \in Seq(Byte) /\ at[2] < Len(disk[at[1]])
    BY <1>3, LocationFacts
  <2> HIDE DEF at
  <2>2. Window(disk[at[1]], at[2]) = DataOf(s)
    BY <1>3 DEF WindowAt, at
  <2>3. at[2] \in 0 .. Len(disk[at[1]]) - 1
    BY <2>1
  <2>4. IsIn(DataOf(s), disk[at[1]])
    BY <2>2, <2>3 DEF IsIn
  <2> QED
    BY <2>1, <2>4
<1> QED
  BY <1>1, <1>2, <1>3, LocateSound

\* After a rename it is in its place or in the temporary file that is about to
\* be put there, but for slices of which a read broke off.
LEMMA RenameKeepsFound ==
    ASSUME IInv, Rename, NEW s \in Slices \ torn, s \in DOMAIN found
    PROVE  InSomeFile(s)'
<1>1. s[1] \in Files /\ DataOf(s)' = DataOf(s)
  BY SliceFacts DEF DataOf, Offset
<1>2. PICK f \in built :
        disk' = [disk EXCEPT ![f] = tmp[f]] /\ tmp' = [tmp EXCEPT ![f] = Absent]
  BY DEF Rename
<1>3. \A h \in Files :
        /\ disk'[h] = IF h = f THEN tmp[f] ELSE disk[h]
        /\ h # f => tmp'[h] = tmp[h]
  BY <1>2 DEF IInv, TypeOK, Disk
<1>4. pc = "rename" /\ todo = {} /\ disk \in Disk /\ tmp \in Disk
  BY DEF Rename, IInv, PhaseRight, TypeOK
<1>5. CASE s[1] \in built
  <2>1. tmp[s[1]] # Absent /\ Reassembled(s[1], tmp[s[1]]) /\ tmp[s[1]] \in Seq(Byte)
    BY <1>1, <1>4, <1>5 DEF IInv, BuiltWhole, Running, Disk, File
  <2>2. IsIn(DataOf(s), tmp[s[1]])
    BY <2>1, WholeContains DEF Reassembled
  <2>3. disk'[s[1]] = tmp[s[1]] \/ tmp'[s[1]] = tmp[s[1]]
    BY <1>1, <1>3
  <2> QED
    BY <1>1, <2>1, <2>2, <2>3 DEF InSomeFile
<1>6. CASE s[1] \notin built
  <2>1. disk[s[1]] # Absent /\ Reassembled(s[1], disk[s[1]]) /\ disk[s[1]] \in Seq(Byte)
    BY <1>1, <1>4, <1>6 DEF IInv, KeptWhole, Running, Disk, File
  <2>2. IsIn(DataOf(s), disk[s[1]])
    BY <2>1, WholeContains DEF Reassembled
  <2>3. disk'[s[1]] = disk[s[1]]
    BY <1>1, <1>2, <1>3, <1>6
  <2> QED
    BY <1>1, <2>1, <2>2, <2>3 DEF InSomeFile
<1> QED
  BY <1>5, <1>6

\* No step, of a run or of what goes wrong around it, destroys contents
\* (repair.go:199-206, :268-272): a temporary file is truncated or removed only
\* while the disk has all that was found, and a file replaced only when
\* temporary files or files in place have all of it but for the slices of which
\* a read broke off (repair.go:312-318).
THEOREM NothingIsLost == Spec => NothingLost
<1> DEFINE Kept ==
      <<disk, tmp>>' # <<disk, tmp>> /\ Cardinality(Lost) <= Cardinality(Exps)
        => Cardinality(Lost' \ torn') <= Cardinality(Exps)
<1>1. IInv /\ SafeInv /\ [Next]_vars => [Kept]_vars
  <2> SUFFICES ASSUME IInv, SafeInv, [Next]_vars, <<disk, tmp>>' # <<disk, tmp>>
               PROVE  Cardinality(Lost' \ torn') <= Cardinality(Exps)
    OBVIOUS
  <2>1. /\ pc \in {"build", "rename"} /\ torn \subseteq torn'
        /\ ~Rename => pc = "build" /\ disk' = disk
    BY DEF Next, Step, Misread, Begin, Solve, SolveMisread, SolveFails, CreateTmp, WriteSlice,
       WriteMisread, CloseTmp, WriteFails, Rename, Failure, LocateError, SolveError,
       BuildError, RenameError, Crash, runVars, vars
  <2>2. Lost' \ torn' \subseteq Missing(found)
    <3> SUFFICES ASSUME NEW s \in Slices \ torn, s \in DOMAIN found,
                        ~InSomeFile(s)', ~Aligned(disk, {}, s)'
                 PROVE  FALSE
      BY <2>1 DEF Lost, Missing
    <3>1. CASE Rename
      BY <3>1, RenameKeepsFound
    <3>2. CASE ~Rename
      <4>1. pc = "build" /\ disk' = disk /\ disk \in Disk
        BY <2>1, <3>2 DEF IInv, TypeOK
      <4>2. found = Locate(disk, unseen, unswept)
        BY <4>1 DEF SafeInv, PlanFits
      <4>3. Aligned(disk, {}, s) \/ \E f \in Files : disk[f] # Absent /\ IsIn(DataOf(s), disk[f])
        BY <4>1, <4>2, FoundOnDisk
      <4>4. Aligned(disk, {}, s)' <=> Aligned(disk, {}, s)
        BY <4>1 DEF Aligned, Existing, WindowAt
      <4>5. (\A w, c : IsIn(w, c)' <=> IsIn(w, c)) /\ DataOf(s)' = DataOf(s)
        BY DEF IsIn, DataOf
      <4> QED
        BY <4>1, <4>3, <4>4, <4>5 DEF InSomeFile
    <3> QED
      BY <3>1, <3>2
  <2>3. /\ Cardinality(Lost' \ torn') <= Cardinality(Missing(found))
        /\ Cardinality(Lost' \ torn') \in Nat
        /\ Cardinality(Missing(found)) \in Nat
    BY <2>2, FiniteSlices, FS_Subset, FS_CardinalityType
  <2> QED
    BY <2>1, <2>3, FiniteSlices DEF SafeInv, PlanPays
<1>2. Spec => [][Kept]_vars
  BY <1>1, Invariance, SafeInvariance, PTL DEF Spec
<1> QED
  BY <1>2 DEF NothingLost

-----------------------------------------------------------------------------
(***************************************************************************)
(* That Par2Repair implements the safety part of RepairPromise: each of    *)
(* its steps is a step of the promise or one that a caller does not see.   *)
(***************************************************************************)

(***************************************************************************)
(* What is right in its place in a file that is to be replaced was found   *)
(* when the run began, provided the file could be opened then, and so it   *)
(* is also in the file that takes its place.                               *)
(***************************************************************************)
InPlace(d, s) ==
    /\ d[s[1]] # Absent /\ Offset(s) < Len(d[s[1]])
    /\ WindowAt(d, Home(s)) = DataOf(s)

RightIsFound ==
    pc \in Running =>
        \A s \in Slices :
            /\ s[1] \in (todo \cup built) \ unseen
            /\ InPlace(disk, s)
            => s \in DOMAIN found

PInv == IInv /\ RightIsFound

LEMMA PlainTypes == IInv => /\ disk \in Disk /\ tmp \in Disk /\ pc \in Running \cup Halted
                            /\ todo \subseteq Files /\ built \subseteq Files
                            /\ unseen \subseteq Files /\ torn \subseteq Slices
  BY DEF IInv, TypeOK

\* A slice that is right in its place is found there.
LEMMA RightIsFindable ==
    ASSUME NEW d \in Disk, NEW U, NEW W, NEW s \in Slices, s[1] \notin U, InPlace(d, s)
    PROVE  s \in DOMAIN Locate(d, U, W)
<1>1. s[1] \in Files /\ s[2] \in Nat \ {0} /\ Offset(s) \in Nat
  BY SliceFacts
<1>2. d[s[1]] # Absent /\ Len(d[s[1]]) \in Nat
  BY <1>1 DEF InPlace, Disk, File
<1>3. ASSUME NEW k \in 1 .. s[2] - 1 PROVE ~(k * Size > Len(d[s[1]]))
  <2>1. k \in Nat /\ s[2] - 1 \in Nat /\ k <= s[2] - 1
    BY <1>1
  <2>2. k = s[2] - 1 \/ k < s[2] - 1
    BY <1>1
  <2>3. k * Size \in Nat /\ (s[2] - 1) * Size \in Nat /\ Size \in Nat
    BY <2>1, Multiples, SetAssumption
  <2>4. k < s[2] - 1 => k * Size + Size <= (s[2] - 1) * Size
    BY <2>1, Multiples
  <2>5. k * Size <= (s[2] - 1) * Size
    BY <2>2, <2>3, <2>4
  <2> QED
    BY <1>2, <2>3, <2>5 DEF InPlace, Offset
<1>4. Aligned(d, U, s)
  BY <1>1, <1>2, <1>3 DEF Aligned, InPlace, Existing
<1> QED
  BY <1>4 DEF Locate, Findable

LEMMA BeginRight == IInv /\ Begin => RightIsFound'
<1> SUFFICES ASSUME IInv, Begin PROVE RightIsFound'
  OBVIOUS
<1>1. disk \in Disk /\ disk' = disk /\ found' = Locate(disk, unseen', unswept')
  BY PlainTypes DEF Begin
<1>2. \A s : InPlace(disk, s)' <=> InPlace(disk, s)
  BY <1>1 DEF InPlace, WindowAt, DataOf, Home
<1> QED
  BY <1>1, <1>2, RightIsFindable DEF RightIsFound

\* No other step finds anything, and a file that changes is no longer waiting.
LEMMA StepRight == PInv /\ [Next]_vars => RightIsFound'
<1> SUFFICES ASSUME PInv, [Next]_vars PROVE RightIsFound'
  OBVIOUS
<1>1. CASE Begin
  BY <1>1, BeginRight DEF PInv
<1>2. CASE Rename
  <2>1. PICK f \in built : disk' = [disk EXCEPT ![f] = tmp[f]] /\ built' = built \ {f}
    BY <1>2 DEF Rename
  <2>2. pc = "rename" /\ todo = {} /\ UNCHANGED <<todo, found, unseen>>
    BY <1>2 DEF Rename, PInv, IInv, PhaseRight, lookVars
  <2>3. \A h \in built' : h \in built /\ disk'[h] = disk[h]
    BY <2>1, PlainTypes DEF PInv, Disk
  <2>4. \A s \in Slices : s[1] \in built' => (InPlace(disk', s) <=> InPlace(disk, s))
    BY <2>3, SliceFacts DEF InPlace, WindowAt, DataOf, Home
  <2> QED
    BY <2>2, <2>3, <2>4 DEF PInv, RightIsFound, Running
<1>3. CASE CloseTmp
  <2>1. cur \in todo /\ pc = "build"
    BY <1>3 DEF CloseTmp, PInv, IInv, PartRight
  <2>2. todo' \cup built' = todo \cup built /\ UNCHANGED <<disk, found, unseen>>
    BY <1>3, <2>1 DEF CloseTmp, lookVars
  <2> QED
    BY <2>1, <2>2 DEF PInv, RightIsFound, Running
<1>4. CASE ~Begin /\ ~Rename /\ ~CloseTmp
  <2>1. UNCHANGED <<disk, found, unseen, todo, built>> /\ (pc' \in Running => pc \in Running)
    BY <1>4 DEF Next, Step, Misread, Solve, SolveMisread, SolveFails, CreateTmp, WriteSlice,
       WriteMisread, WriteFails, Failure, LocateError, SolveError, BuildError, RenameError,
       Crash, vars, runVars, lookVars, Running
  <2> QED
    BY <2>1 DEF PInv, RightIsFound
<1> QED
  BY <1>1, <1>2, <1>3, <1>4

\* What was right in its place is found, in every reachable state of a run.
THEOREM PInvHolds == Spec => []PInv
<1>1. Init => PInv
  BY InitIInv DEF Init, PInv, RightIsFound, Running
<1>2. PInv /\ [Next]_vars => PInv'
  BY NextIInv, StepRight DEF PInv
<1> QED
  BY <1>1, <1>2, PTL DEF Spec

-----------------------------------------------------------------------------
(***************************************************************************)
(* The steps.                                                              *)
(***************************************************************************)
\* What the mapping of the constants of the promise stands for.
Sound == Enough /\ Reliable
Spoilt == torn \cup { s \in Slices : s[1] \in unseen /\ ~Sound }

LEMMA SoundStays ==
    ASSUME found' = found
    PROVE  Sound' = Sound
<1>1. Enough' = Enough
  BY DEF Enough, Missing
<1>2. Reliable' = Reliable
  BY DEF Reliable, Missing
<1> QED
  BY <1>1, <1>2 DEF Sound

\* The promise is about the same set.
LEMMA SameSet ==
    /\ Promise!Files = Files /\ Promise!Slices = Slices
    /\ Promise!Disk = Disk /\ Promise!Intact = Intact
    /\ \A d : Promise!Right(d) = { s \in Slices : InPlace(d, s) }
<1>1. Promise!Files = Files /\ Promise!Slices = Slices
  BY DEF Promise!Files, Files, Promise!Slices, Slices
<1>2. Promise!Intact = Intact
  BY <1>1 DEF Promise!Intact, Intact
<1>3. Promise!Disk = Disk
  BY <1>1 DEF Promise!Disk, Disk, Promise!File, File
<1>4. \A s : /\ Promise!Offset(s) = Offset(s) /\ Promise!Home(s) = Home(s)
             /\ Promise!DataOf(s) = DataOf(s)
  BY DEF Promise!Offset, Offset, Promise!Home, Home, Promise!DataOf, DataOf,
     Promise!Window, Window
<1>5. \A d, at : Promise!WindowAt(d, at) = WindowAt(d, at)
  BY DEF Promise!WindowAt, WindowAt, Promise!Window, Window
<1> QED
  BY <1>1, <1>2, <1>3, <1>4, <1>5 DEF Promise!Right, InPlace

LEMMA BeginStarts == IInv /\ Begin => Promise!Start
<1> SUFFICES ASSUME IInv, Begin PROVE Promise!Start
  OBVIOUS
<1> DEFINE loc == Locate(disk, unseen', unswept')
<1>1. pc \notin Running
  BY DEF Begin, Running, Halted
<1>2. pc' \in Running \/ (pc' = "done" /\ disk = Intact)
  <2>1. CASE { f \in Files : ~FileOK(disk, loc, f) } = {}
    <3>1. disk \in Disk /\ \A f \in Files : disk[f] = Data[f]
      BY <2>1, PlainTypes, OKMeansIntact
    <3>2. disk = Intact
      BY <3>1 DEF Disk, Intact
    <3> QED
      BY <2>1, <3>2 DEF Begin
  <2>2. CASE { f \in Files : ~FileOK(disk, loc, f) } # {}
    BY <2>2 DEF Begin, Running
  <2> QED
    BY <2>1, <2>2
<1>3. disk' = disk /\ torn' = {}
  BY DEF Begin
<1>4. Sound' \in BOOLEAN
  BY DEF Sound
<1>5. Spoilt' \in SUBSET Slices
  BY <1>3 DEF Spoilt
<1> QED
  BY <1>1, <1>2, <1>3, <1>4, <1>5, SameSet DEF Promise!Start, Running, Sound, Spoilt

LEMMA RenameReplaces == PInv /\ Rename => Promise!Replace
<1> SUFFICES ASSUME PInv, Rename PROVE Promise!Replace
  OBVIOUS
<1> USE DEF PInv
<1>1. PICK f \in built :
        /\ disk' = [disk EXCEPT ![f] = tmp[f]]
        /\ built' = built \ {f}
        /\ pc' = IF built = {f} THEN "done" ELSE "rename"
  BY DEF Rename
<1>2. /\ f \in Files /\ tmp[f] # Absent /\ Reassembled(f, tmp[f]) /\ pc = "rename"
      /\ UNCHANGED <<found, unseen, torn>>
  BY PlainTypes DEF Rename, IInv, BuiltWhole, Running, lookVars
<1>3. disk'[f] = tmp[f] /\ \A h \in Files \ {f} : disk'[h] = disk[h]
  BY <1>1, <1>2, PlainTypes DEF Disk
<1>4. disk'[f] # Absent /\ Len(disk'[f]) = Len(Data[f])
  BY <1>2, <1>3 DEF Reassembled
<1>5. { s \in Slices : InPlace(disk, s) } \ Spoilt \subseteq { s \in Slices : InPlace(disk', s) }
  <2> SUFFICES ASSUME NEW s \in Slices, InPlace(disk, s), s \notin Spoilt
               PROVE  InPlace(disk', s)
    OBVIOUS
  <2>1. s[1] \in Files /\ Offset(s) < Len(Data[s[1]]) /\ s \notin torn
    BY SliceFacts DEF Spoilt
  <2>2. CASE s[1] = f
    <3>1. s \in DOMAIN found \/ Reliable
      <4>1. CASE f \in unseen
        BY <2>2, <4>1 DEF Spoilt, Sound
      <4>2. CASE f \notin unseen
        BY <1>2, <2>2, <4>2 DEF RightIsFound, Running
      <4> QED
        BY <4>1, <4>2
    <3>2. Window(tmp[f], Offset(s)) = DataOf(s)
      BY <1>2, <2>1, <2>2, <3>1 DEF Reassembled
    <3> QED
      BY <1>3, <1>4, <2>1, <2>2, <3>2 DEF InPlace, WindowAt, Home
  <2>3. CASE s[1] # f
    BY <1>3, <2>1, <2>3 DEF InPlace, WindowAt, Home
  <2> QED
    BY <2>2, <2>3
<1>6. Sound' = Sound /\ Spoilt' = Spoilt
  BY <1>2, SoundStays DEF Spoilt
<1>7. (pc' = "done" /\ Sound /\ Spoilt = {}) => disk' = Intact
  <2>1. DoneMeansIntact'
    BY RenameIInv DEF IInv
  <2> QED
    BY <1>2, <2>1, ReliableStays DEF DoneMeansIntact, Sound, Spoilt
<1>8. pc' \in {"rename", "done"}
  BY <1>1
<1> QED
  BY <1>2, <1>3, <1>4, <1>5, <1>6, <1>7, <1>8, SameSet
  DEF Promise!Replace, Running, Sound, Spoilt

\* A read that breaks off spoils more slices.
LEMMA MisreadSpoils == IInv /\ Misread => Promise!Spoil
<1> SUFFICES ASSUME IInv, Misread PROVE Promise!Spoil
  OBVIOUS
<1>1. /\ pc \in Running /\ pc' \in Running
      /\ UNCHANGED <<disk, found, unseen>>
      /\ torn \subseteq torn' /\ torn' \subseteq Slices
  <2>1. CASE SolveMisread
    BY <2>1 DEF SolveMisread, IInv, PhaseRight, Running, lookVars, Missing
  <2>2. CASE WriteMisread
    BY <2>2 DEF WriteMisread, IInv, TypeOK, Running, lookVars
  <2> QED
    BY <2>1, <2>2 DEF Misread
<1>2. Sound' = Sound
  BY <1>1, SoundStays
<1>3. Spoilt \subseteq Spoilt' /\ Spoilt' \in SUBSET Slices
  BY <1>1, <1>2 DEF Spoilt
<1> QED
  BY <1>1, <1>2, <1>3, SameSet DEF Promise!Spoil, Running, Sound, Spoilt

\* All other steps are seen as an end of the run or not at all.
LEMMA OthersAreHidden ==
    ASSUME Next, ~Begin, ~Rename, ~Misread, pc \in Running \cup Halted
    PROVE  Promise!GiveUp \/ UNCHANGED Promise!promiseVars
<1>1. UNCHANGED <<disk, found, unseen, torn>>
  BY DEF Next, Step, Solve, SolveFails, CreateTmp, WriteSlice, CloseTmp, WriteFails, Failure,
     LocateError, SolveError, BuildError, RenameError, Crash, runVars, lookVars
<1>2. (pc \in Running /\ pc' \in Running) \/ pc' \in {"refused", "ioerror", "crashed"}
  BY DEF Next, Step, Solve, SolveFails, CreateTmp, WriteSlice, CloseTmp, WriteFails, Failure,
     LocateError, SolveError, BuildError, RenameError, Crash, Running
<1>3. Sound' = Sound /\ Spoilt' = Spoilt
  BY <1>1, SoundStays DEF Spoilt
<1> QED
  BY <1>1, <1>2, <1>3 DEF Promise!GiveUp, Promise!promiseVars, Running, Sound, Spoilt

LEMMA StepKeepsPromise == PInv /\ [Next]_vars => [Promise!PromiseNext]_(Promise!promiseVars)
<1> SUFFICES ASSUME PInv, [Next]_vars
             PROVE  Promise!PromiseNext \/ UNCHANGED Promise!promiseVars
  OBVIOUS
<1>1. CASE Begin
  BY <1>1, BeginStarts DEF PInv, Promise!PromiseNext
<1>2. CASE Rename
  BY <1>2, RenameReplaces DEF Promise!PromiseNext
<1>3. CASE Misread
  BY <1>3, MisreadSpoils DEF PInv, Promise!PromiseNext
<1>4. CASE Next /\ ~Begin /\ ~Rename /\ ~Misread
  BY <1>4, OthersAreHidden, PlainTypes DEF PInv, Promise!PromiseNext
<1>5. CASE UNCHANGED vars
  <2>1. UNCHANGED <<pc, disk, found, unseen, torn>>
    BY <1>5 DEF vars
  <2>2. Sound' = Sound /\ Spoilt' = Spoilt
    BY <2>1, SoundStays DEF Spoilt
  <2> QED
    BY <2>1, <2>2 DEF Promise!promiseVars, Sound, Spoilt
<1> QED
  BY <1>1, <1>2, <1>3, <1>4, <1>5

\* A repair is what its callers are promised: files are replaced one at a time
\* and whole, without loss of a slice that was right in its place, and success
\* means that all is back (repair.go:90-132, :192-274); but for slices of which a
\* read broke off (repair.go:312-318), and, with recovery slices of other
\* versions, for files that could not be opened (scan.go:100-103).
THEOREM Implements == Spec => Promise!PromiseSafety
<1>1. Init => Promise!PromiseInit
  <2>1. Sound \in BOOLEAN
    BY DEF Sound
  <2>2. Init => Spoilt \in SUBSET Slices
    BY DEF Init, Spoilt
  <2> QED
    BY <2>1, <2>2, InitIInv, PlainTypes, SameSet
    DEF Init, Promise!PromiseInit, Running, Sound, Spoilt
<1> QED
  BY <1>1, StepKeepsPromise, PInvHolds, PTL DEF Spec, Promise!PromiseSafety

-----------------------------------------------------------------------------
(* The commands.  The repair is one of their stages. *)

allVars == <<vars, checkVars>>

(***************************************************************************)
(* The inductive invariant.  Files that were fine when the command began   *)
(* and could be opened when the repair did are not among those it builds   *)
(* (OnlyRebuilt), so they are still as recorded when only the others are   *)
(* verified again (OthersIntact); the repair has then succeeded, so that   *)
(* with reliable recovery data and no read broken off all files are back   *)
(* (RepairedIsDone).                                                       *)
(***************************************************************************)
OnlyRebuilt == stage = "repair" => todo \cup built \subseteq rebuilt \cup unseen

OthersIntact ==
    /\ stage = "verified" => \A f \in Files \ rebuilt : disk[f] = Data[f]
    /\ stage \in {"repair", "repaired"} => \A f \in Files \ (rebuilt \cup unseen) : disk[f] = Data[f]

RepairedIsDone == stage = "repaired" => pc = "done"

AllIntact == stage = "purge" \/ exit = "success" => AllElseIntact

ExitWhenExited == exit = "success" => stage = "exited"

CheckInv ==
    /\ IInv
    /\ OnlyRebuilt
    /\ OthersIntact
    /\ RepairedIsDone
    /\ AllIntact
    /\ ExitWhenExited

-----------------------------------------------------------------------------
\* A disk that is as recorded is so in the sense of the exit code.
LEMMA NoneBadIsIntact ==
    ASSUME NEW d \in Disk, NEW U, NEW W, \A f \in Files : FileOK(d, Locate(d, U, W), f)
    PROVE  \A f \in Files : d[f] = Data[f]
  BY OKMeansIntact

\* Whether all is intact does not change with the commands' own state.
LEMMA AllStays ==
    ASSUME UNCHANGED <<disk, found, unseen, torn>>
    PROVE  AllElseIntact' <=> AllElseIntact
<1>1. Unverified' = Unverified
  BY ReliableStays DEF Unverified
<1> QED
  BY <1>1 DEF AllElseIntact

\* A step that leaves the repair alone keeps its invariant.
LEMMA RepairUntouched ==
    ASSUME IInv, UNCHANGED <<disk, tmp, pc, runVars>>, faults' \in 0 .. MaxFaults
    PROVE  IInv'
  BY ReliableStays DEF runVars, lookVars, IInv, TypeOK, FoundRight, RecoveredRight, PartRight,
     Due, BuiltWhole, Reassembled, KeptWhole, PhaseRight, DoneMeansIntact

\* So does a new process, which knows nothing of the last one.
LEMMA NewProcessIInv ==
    ASSUME IInv, NewProcess, UNCHANGED <<disk, tmp>>, faults' \in 0 .. MaxFaults
    PROVE  IInv'
<1>1. DOMAIN found' = {} /\ DOMAIN recovered' = {}
  BY DEF NewProcess, EmptyMap
<1>2. TypeOK'
  BY <1>1 DEF NewProcess, IInv, TypeOK, Halted
<1> QED
  BY <1>1, <1>2 DEF NewProcess, IInv, FoundRight, RecoveredRight, PartRight, BuiltWhole,
     KeptWhole, PhaseRight, DoneMeansIntact, Running

\* Whatever ends a command with another code than 0 has little to show; this
\* is what an exit leaves.
LEMMA ExitKeeps ==
    ASSUME IInv', NEW code, Exit(code), code = "success" => AllElseIntact'
    PROVE  CheckInv'
  BY DEF CheckInv, Exit, OnlyRebuilt, OthersIntact, RepairedIsDone, AllIntact, ExitWhenExited

\* Success, with or without a purge to follow, needs an intact disk.
LEMMA SucceedKeeps ==
    ASSUME IInv', Succeed, AllElseIntact'
    PROVE  CheckInv'
<1>1. CASE Exit("success")
  BY <1>1, ExitKeeps
<1>2. CASE Purge
  BY <1>2 DEF CheckInv, Purge, OnlyRebuilt, OthersIntact, RepairedIsDone, AllIntact,
     ExitWhenExited
<1> QED
  BY <1>1, <1>2 DEF Succeed

LEMMA InitCheckInv == CheckInit => CheckInv
  BY InitIInv DEF CheckInit, CheckInv, OnlyRebuilt, OthersIntact, RepairedIsDone, AllIntact,
     ExitWhenExited

\* Verify finds all files fine, or remembers those that are not.
LEMMA VerifyKeeps == CheckInv /\ Verify => CheckInv'
<1> SUFFICES ASSUME CheckInv, Verify PROVE CheckInv'
  OBVIOUS
<1>1. PICK U \in SUBSET Existing(disk) :
        \E W \in SUBSET Existing(disk) : Opening(U, W) /\ VerifyOutcome(Locate(disk, U, W))
  BY DEF Verify
<1>2. PICK W \in SUBSET Existing(disk) : Opening(U, W) /\ VerifyOutcome(Locate(disk, U, W))
  BY <1>1
<1> DEFINE loc == Locate(disk, U, W)
<1>3. /\ IInv' /\ UNCHANGED disk /\ disk \in Disk
  <2>1. faults' \in 0 .. MaxFaults
    BY <1>2, OpeningType DEF CheckInv, IInv
  <2> QED
    BY <2>1, NewProcessIInv DEF CheckInv, Verify, IInv, TypeOK
<1>4. CASE Bad(loc) = {} /\ Succeed
  <2>1. \A f \in Files : disk'[f] = Data[f]
    BY <1>3, <1>4, NoneBadIsIntact DEF Bad
  <2> QED
    BY <1>3, <1>4, <2>1, SucceedKeeps DEF AllElseIntact
<1>5. CASE Exit("repair not possible")
  BY <1>3, <1>5, ExitKeeps
<1>6. CASE Exit("repair possible")
  BY <1>3, <1>6, ExitKeeps
<1>7. CASE stage' = "verified" /\ exit' = "none" /\ rebuilt' = Bad(loc)
  <2>1. \A f \in Files \ rebuilt' : disk'[f] = Data[f]
    BY <1>3, <1>7, OKMeansIntact DEF Bad
  <2> QED
    BY <1>3, <1>7, <2>1
    DEF CheckInv, OnlyRebuilt, OthersIntact, RepairedIsDone, AllIntact, ExitWhenExited
<1> QED
  BY <1>2, <1>4, <1>5, <1>6, <1>7 DEF VerifyOutcome

\* The repair begins with files Verify found bad, or that it cannot open now.
LEMMA StartKeeps == CheckInv /\ StartRepair => CheckInv'
<1> SUFFICES ASSUME CheckInv, StartRepair PROVE CheckInv'
  OBVIOUS
<1>1. IInv'
  BY BeginIInv DEF CheckInv, StartRepair
<1>2. UNCHANGED <<disk, exit, rebuilt>> /\ disk \in Disk /\ stage' = "repair" /\ exit # "success"
  BY DEF CheckInv, StartRepair, Begin, IInv, TypeOK, ExitWhenExited
<1>3. \A f \in Files \ rebuilt : disk[f] = Data[f]
  BY DEF CheckInv, StartRepair, OthersIntact
<1>4. todo' \cup built' \subseteq rebuilt \cup unseen'
  <2>1. todo' = { f \in Files : ~FileOK(disk, Locate(disk, unseen', unswept'), f) } /\ built' = {}
    BY DEF StartRepair, Begin
  <2> QED
    BY <1>2, <1>3, <2>1, IntactIsOK
<1> QED
  BY <1>1, <1>2, <1>3, <1>4
  DEF CheckInv, OnlyRebuilt, OthersIntact, RepairedIsDone, AllIntact, ExitWhenExited

\* No step of the repair changes a file that is not to be built.
LEMMA RunKeeps == CheckInv /\ RunRepair => CheckInv'
<1> SUFFICES ASSUME CheckInv, RunRepair PROVE CheckInv'
  OBVIOUS
<1>1. IInv'
  BY NextIInv DEF CheckInv, RunRepair, Next, Failure
<1>2. stage = "repair" /\ UNCHANGED checkVars /\ exit # "success"
  BY DEF CheckInv, RunRepair, ExitWhenExited
<1>3. todo' \cup built' \subseteq rebuilt \cup unseen /\ unseen' = unseen
  <2>1. todo \cup built \subseteq rebuilt \cup unseen
    BY <1>2 DEF CheckInv, OnlyRebuilt
  <2>2. CASE CloseTmp
    <3>1. cur \in todo
      BY <2>2 DEF CloseTmp, CheckInv, IInv, PartRight
    <3> QED
      BY <2>1, <2>2, <3>1 DEF CloseTmp, lookVars
  <2>3. CASE Rename
    BY <2>1, <2>3 DEF Rename, lookVars
  <2>4. CASE ~CloseTmp /\ ~Rename
    <3>1. UNCHANGED <<todo, built, unseen>>
      BY <2>4 DEF RunRepair, Step, Misread, Solve, SolveMisread, SolveFails, CreateTmp, WriteSlice,
         WriteMisread, WriteFails, SolveError, BuildError, RenameError, runVars, lookVars
    <3> QED
      BY <2>1, <3>1
  <2> QED
    BY <2>2, <2>3, <2>4
<1>4. \A f \in Files \ (rebuilt \cup unseen) : disk'[f] = Data[f]
  <2>1. \A f \in Files \ (rebuilt \cup unseen) : disk[f] = Data[f]
    BY <1>2 DEF CheckInv, OthersIntact
  <2>2. CASE Rename
    <3>1. PICK f \in built : disk' = [disk EXCEPT ![f] = tmp[f]]
      BY <2>2 DEF Rename
    <3>2. f \in rebuilt \cup unseen
      BY <1>2, <3>1 DEF CheckInv, OnlyRebuilt
    <3>3. \A h \in Files \ (rebuilt \cup unseen) : disk'[h] = disk[h]
      BY <3>1, <3>2 DEF CheckInv, IInv, TypeOK, Disk
    <3> QED
      BY <2>1, <3>3
  <2>3. CASE ~Rename
    <3>1. disk' = disk
      BY <2>3 DEF RunRepair, Step, Misread, Solve, SolveMisread, SolveFails, CreateTmp, WriteSlice,
         WriteMisread, CloseTmp, WriteFails, SolveError, BuildError, RenameError
    <3> QED
      BY <2>1, <3>1
  <2> QED
    BY <2>2, <2>3
<1> QED
  BY <1>1, <1>2, <1>3, <1>4
  DEF CheckInv, checkVars, OnlyRebuilt, OthersIntact, RepairedIsDone, AllIntact, ExitWhenExited

\* Verifying the rebuilt files is enough, but for files the repair could not open
\* and replaced by something it cannot answer for.
LEMMA ReverifyKeeps == CheckInv /\ Reverify => CheckInv'
<1> SUFFICES ASSUME CheckInv, Reverify PROVE CheckInv'
  OBVIOUS
<1>1. PICK U \in SUBSET Existing(disk) :
        \E W \in SUBSET Existing(disk) : Opening(U, W) /\ ReverifyOutcome(Locate(disk, U, W))
  BY DEF Reverify
<1>2. PICK W \in SUBSET Existing(disk) : Opening(U, W) /\ ReverifyOutcome(Locate(disk, U, W))
  BY <1>1
<1> DEFINE loc == Locate(disk, U, W)
<1>3. /\ IInv' /\ UNCHANGED <<disk, found, unseen, torn>> /\ disk \in Disk
      /\ stage = "repaired" /\ pc = "done"
  <2>1. faults' \in 0 .. MaxFaults
    BY <1>2, OpeningType DEF CheckInv, IInv
  <2> QED
    BY <2>1, RepairUntouched
    DEF CheckInv, Reverify, IInv, TypeOK, runVars, lookVars, RepairedIsDone
<1>4. CASE rebuilt \cap Bad(loc) = {} /\ Succeed
  <2>1. ASSUME NEW f \in Files
        PROVE  disk[f] = Data[f] \/ (unseen # {} /\ f \in Unverified)
    <3>1. CASE f \in rebuilt
      BY <1>3, <1>4, <3>1, OKMeansIntact DEF Bad
    <3>2. CASE f \notin rebuilt /\ f \notin unseen
      BY <1>3, <3>2 DEF CheckInv, OthersIntact
    <3>3. CASE f \in unseen /\ Reliable /\ torn = {}
      BY <1>3, <3>3 DEF CheckInv, IInv, DoneMeansIntact, Intact
    <3>4. CASE f \in unseen /\ ~(Reliable /\ torn = {})
      BY <3>4 DEF Unverified
    <3> QED
      BY <3>1, <3>2, <3>3, <3>4
  <2>2. AllElseIntact'
    BY <1>3, <2>1, AllStays DEF AllElseIntact
  <2> QED
    BY <1>3, <1>4, <2>2, SucceedKeeps
<1>5. CASE Exit("repair failed")
  BY <1>3, <1>5, ExitKeeps
<1> QED
  BY <1>2, <1>4, <1>5 DEF ReverifyOutcome

\* What is left: the purge, and the ends that are no success.
LEMMA OtherKeeps ==
    ASSUME CheckInv,
           \/ Insufficient \/ RepairFails \/ RepairReturns \/ PurgeNext \/ Purged
           \/ VerifyError \/ RepairLocateError \/ CrashInRepair \/ CrashInPurge
    PROVE  CheckInv'
<1>1. [Next]_vars \/ (VerifyError \/ CrashInPurge)
  BY DEF Insufficient, RepairFails, RepairReturns, PurgeNext, Purged, RepairLocateError,
     CrashInRepair, Next, Failure
<1>2. IInv'
  <2>1. CASE VerifyError \/ CrashInPurge
    <3>1. UNCHANGED <<disk, tmp, pc, runVars>> /\ Fault
      BY <2>1 DEF VerifyError, CrashInPurge
    <3>2. faults' \in 0 .. MaxFaults
      BY <3>1, FaultType DEF CheckInv, IInv
    <3> QED
      BY <3>1, <3>2, RepairUntouched DEF CheckInv
  <2>2. CASE [Next]_vars
    BY <2>2, NextIInv DEF CheckInv
  <2> QED
    BY <1>1, <2>1, <2>2
<1>3. CASE RepairReturns \/ PurgeNext
  <2>1. UNCHANGED <<disk, found, unseen, torn, todo, built, pc, rebuilt, exit>>
    BY <1>3 DEF RepairReturns, PurgeNext, vars
  <2>2. AllElseIntact' <=> AllElseIntact
    BY <2>1, AllStays
  <2>3. CASE RepairReturns
    BY <1>2, <2>1, <2>2, <2>3 DEF RepairReturns, CheckInv, OnlyRebuilt, OthersIntact,
       RepairedIsDone, AllIntact, ExitWhenExited
  <2>4. CASE PurgeNext
    BY <1>2, <2>1, <2>2, <2>4 DEF PurgeNext, CheckInv, OnlyRebuilt, OthersIntact,
       RepairedIsDone, AllIntact, ExitWhenExited
  <2> QED
    BY <1>3, <2>3, <2>4
<1>4. CASE Purged
  <2>1. Exit("success") /\ AllElseIntact /\ UNCHANGED <<disk, found, unseen, torn>>
    BY <1>4 DEF Purged, CheckInv, AllIntact, vars
  <2> QED
    BY <1>2, <2>1, AllStays, ExitKeeps
<1>5. CASE ~(RepairReturns \/ PurgeNext \/ Purged)
  <2>1. \E code \in {"insufficient data", "repair failed", "file I/O error", "crashed"} : Exit(code)
    BY <1>5 DEF Insufficient, RepairFails, VerifyError, RepairLocateError, CrashInRepair,
       CrashInPurge
  <2> QED
    BY <1>2, <2>1, ExitKeeps
<1> QED
  BY <1>3, <1>4, <1>5

\* Every step keeps the invariant.
LEMMA NextCheckInv == CheckInv /\ [CheckNext]_allVars => CheckInv'
<1> SUFFICES ASSUME CheckInv, [CheckNext]_allVars PROVE CheckInv'
  OBVIOUS
<1>1. CASE UNCHANGED allVars
  <2>1. IInv'
    BY <1>1, NextIInv DEF CheckInv, allVars
  <2>2. AllElseIntact' <=> AllElseIntact
    BY <1>1, AllStays DEF allVars, vars
  <2> QED
    BY <1>1, <2>1, <2>2 DEF allVars, vars, checkVars, CheckInv, OnlyRebuilt, OthersIntact,
       RepairedIsDone, AllIntact, ExitWhenExited
<1>2. CASE CheckNext
  BY <1>2, VerifyKeeps, StartKeeps, RunKeeps, ReverifyKeeps, OtherKeeps DEF CheckNext, CheckStep
<1> QED
  BY <1>1, <1>2

\* The inductive invariant of the commands.
THEOREM CheckInvariance == CheckSpec => []CheckInv
<1> QED
  BY InitCheckInv, NextCheckInv, PTL DEF CheckSpec, allVars

\* Exit code 0 means that every file of the set is as it was recorded
\* (check.go:140-146, :213-229), whatever the recovery slices were, whichever
\* reads broke off and however often earlier commands failed or were
\* interrupted.  Not covered is a file that was fine and could not be opened when
\* the repair looked: it is replaced and not verified again (check.go:189-224), so
\* that it is as recorded only if the recovery data was and no read broke off.
THEOREM SuccessIsTrue == CheckSpec => []SuccessMeansIntact
<1>1. CheckInv => SuccessMeansIntact
  BY DEF CheckInv, AllIntact, SuccessMeansIntact
<1> QED
  BY <1>1, CheckInvariance, PTL

\* Recovery files are removed only while every protected file is as recorded in
\* that sense (check.go:232-233), also by a command that follows others that
\* failed.
THEOREM PurgeIsSafe == CheckSpec => PurgedOnlyWhenIntact
<1> DEFINE Safe == present' # present => AllElseIntact
<1>1. CheckInv /\ [CheckNext]_allVars => [Safe]_allVars
  <2> SUFFICES ASSUME CheckInv, CheckNext PROVE Safe
    BY DEF allVars
  <2>1. CASE PurgeNext
    BY <2>1 DEF PurgeNext, CheckInv, AllIntact
  <2>2. CASE ~PurgeNext
    BY <2>2 DEF CheckNext, CheckStep, Insufficient, Verify, StartRepair, RunRepair, RepairFails,
       RepairReturns, Reverify, Purged, VerifyError, RepairLocateError, CrashInRepair,
       CrashInPurge, checkVars
  <2> QED
    BY <2>1, <2>2
<1>2. CheckSpec => [][Safe]_allVars
  BY <1>1, CheckInvariance, PTL DEF CheckSpec, allVars
<1> QED
  BY <1>2 DEF PurgedOnlyWhenIntact, allVars

=============================================================================
