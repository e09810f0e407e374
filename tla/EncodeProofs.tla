---------------------------- MODULE EncodeProofs ----------------------------
(***************************************************************************)
(* Theorems about Par2Encode and Par2RoundTrip: par2.Create computes,      *)
(* whatever the schedule of its goroutines, what one pass over the files   *)
(* would; and what is lost afterwards comes back from the recovery slices. *)
(***************************************************************************)
EXTENDS Par2RoundTrip, FieldProofs, SequenceTheorems

-----------------------------------------------------------------------------
(***************************************************************************)
(* The inductive invariant.                                                *)
(***************************************************************************)

\* A batch is in the window, and its goroutines are being started or at work.
Busy == pc \in {"whole", "slices", "encode", "wait"}

\* The file that is open, and the batch that was read of it.
BatchInv ==
    /\ length \in [Files -> Nat] /\ workers \in Budgets
    /\ pc \in {"open", "read", "whole", "slices", "encode", "wait",
               "done", "failed"}
    /\ file \in 1 .. Len(Totals) + 1 /\ base = Before(file)
    /\ done \in Nat /\ n \in Nat /\ read \in 0 .. n
    /\ \A k \in DOMAIN window : window[k] \in SliceData
    /\ pc = "read" \/ Busy => file \in Files /\ done <= Totals[file]
    /\ pc = "done" => file = Len(Totals) + 1
    /\ pc = "encode" => Count > 0
    /\ Busy =>
        /\ n > 0 /\ done + n <= Totals[file]
        /\ read = IF done < length[file] THEN AtMost(n, length[file] - done) ELSE 0
        /\ window = [k \in 1 .. n |-> IF k <= read THEN <<file, done + k>> ELSE Pad]

JobType == [kind : {"whole", "hash", "code"}, lo : Nat, hi : Nat,
            at : Nat, i : Nat, loaded : BOOLEAN, acc : SUBSET Terms]

\* The goroutines have parts of their own.
JobsInv ==
    /\ jobs \subseteq JobType
    /\ \A j \in jobs :
        /\ j.lo <= j.at /\ j.at < j.hi
        /\ j.kind = "whole" => j.hi = 1
        /\ j.kind = "hash" => j.hi <= n
        /\ j.kind = "code" => j.hi <= Count /\ j.i < n
    /\ \A j, k \in jobs : j # k => j.kind # k.kind \/ j.hi <= k.lo \/ k.hi <= j.lo
    /\ jobs # {} => pc \in {"slices", "encode", "wait"}
    /\ pc = "slices" => \A j \in jobs : j.kind = "whole"
    /\ pc = "encode" => \A j \in jobs : j.kind # "code"

\* Some goroutine has still to do item x (counted from one) of its kind.
Ahead(kind, x) == \E j \in jobs : j.kind = kind /\ j.at < x /\ x <= j.hi

\* What slice i of file f gets as its checksums in the end.
Hash(f, i, h) == IF i <= length[f] THEN h = <<f, i>> ELSE h \in {Pad, Unset}

HashesInv ==
    /\ DOMAIN hashes = Files
    /\ \A f \in Files : \A i \in DOMAIN hashes[f] : hashes[f][i] \in SliceData \cup {Unset}
    /\ pc # "failed" => \A f \in Files :
        /\ f < file =>
            DOMAIN hashes[f] = 1 .. Totals[f] /\ \A i \in 1 .. Totals[f] : Hash(f, i, hashes[f][i])
        /\ f > file \/ (pc = "open" /\ f = file) => hashes[f] = << >>
        /\ f = file /\ pc # "open" =>
            /\ DOMAIN hashes[f] = 1 .. Totals[f]
            /\ \A i \in 1 .. done : Hash(f, i, hashes[f][i])
            /\ \A i \in 1 .. Totals[f] :
                i > (IF Busy THEN done + n ELSE done) => hashes[f][i] = Unset
    /\ pc \in {"encode", "wait"} => \A k \in 1 .. n :
        Ahead("hash", k) \/ hashes[file][done + k] = window[k]

\* The first m slices of file f.
Prefix(f, m) == [i \in 1 .. m |-> <<f, i>>]

WholeInv ==
    /\ DOMAIN whole = Files
    /\ \A f \in Files : whole[f] \in Seq(SliceData \ {Pad})
    /\ pc # "failed" => \A f \in Files :
        /\ f < file => whole[f] = Prefix(f, Encoded(f))
        /\ f > file \/ (pc = "open" /\ f = file) => whole[f] = << >>
        /\ f = file /\ pc # "open" =>
            whole[f] = Prefix(f, AtMost(length[f],
                          IF pc \in {"read", "whole"} \/ Ahead("whole", 1)
                          THEN done ELSE done + n))

\* The terms of the files before this one and of its first m slices.
Taken(m) ==
    { s \in UNION { {f} \X (1 .. Encoded(f)) : f \in Files } :
        s[1] < file \/ (s[1] = file /\ s[2] <= m) }
Upto(m) == { <<Before(s[1]) + s[2], s>> : s \in Taken(m) }

RecoveryInv ==
    /\ recovery \in [1 .. Count -> SUBSET Terms]
    /\ \A x \in 1 .. Count :
        /\ pc \in {"open", "done"} => recovery[x] = Upto(0)
        /\ pc \in {"read", "whole", "slices", "encode"} => recovery[x] = Upto(done)
        /\ pc = "wait" =>
            /\ \A j \in jobs : j.kind = "code" =>
                /\ j.at + 1 = x =>
                    recovery[x] = Upto(done + j.i) /\ (j.loaded => j.acc = recovery[x])
                /\ j.at + 1 < x /\ x <= j.hi => recovery[x] = Upto(done)
            /\ ~Ahead("code", x) => recovery[x] = Upto(done + n)

IInv == /\ BatchInv /\ JobsInv /\ HashesInv /\ WholeInv /\ RecoveryInv
        /\ pc = "failed" => ChecksumsMatchRecovery
-----------------------------------------------------------------------------
(***************************************************************************)
(* Lemmas about the operators of the model.                                *)
(***************************************************************************)

\* The files are numbered, and each has a number of slices.
LEMMA FilesType ==
  /\ Len(Totals) \in Nat
  /\ Files = 1 .. Len(Totals)
  /\ \A f \in Files : Totals[f] \in Nat
BY EncodeAssumption DEF Files

(***************************************************************************)
(* Offset is what its recursive equation says.                             *)
(***************************************************************************)
LEMMA OffsetType ==
  /\ Offset \in [0 .. Len(Totals) -> Nat]
  /\ Offset[0] = 0
  /\ \A f \in Files : Offset[f] = Offset[f - 1] + Totals[f]
<1> DEFINE N == Len(Totals)
           Sums(m, g) == /\ g \in [0 .. m -> Nat]
                         /\ \A f \in 0 .. m : g[f] = IF f = 0 THEN 0 ELSE g[f - 1] + Totals[f]
           S == { m \in Nat : m <= N => \E g : Sums(m, g) }
<1>1. N \in Nat /\ \A f \in 1 .. N : Totals[f] \in Nat
  BY FilesType
<1>2. 0 \in S
  <2>1. Sums(0, [f \in 0 .. 0 |-> 0])
    OBVIOUS
  <2>2. QED
    BY <2>1
<1>3. ASSUME NEW m \in Nat, m \in S
      PROVE  m + 1 \in S
  <2> SUFFICES ASSUME m + 1 <= N
               PROVE  \E g : Sums(m + 1, g)
    OBVIOUS
  <2>0. m <= N
    BY <1>1
  <2>1. PICK g : Sums(m, g)
    BY <1>3, <2>0
  <2> DEFINE h == [f \in 0 .. m + 1 |-> IF f <= m THEN g[f] ELSE g[m] + Totals[m + 1]]
  <2>2. Totals[m + 1] \in Nat /\ g[m] \in Nat
    BY <1>1, <2>1
  <2>3. h \in [0 .. m + 1 -> Nat]
    BY <2>1, <2>2
  <2>4. \A f \in 0 .. m + 1 : h[f] = IF f = 0 THEN 0 ELSE h[f - 1] + Totals[f]
    BY <2>1, <2>2
  <2>5. Sums(m + 1, h)
    BY <2>3, <2>4
  <2>6. QED
    BY <2>5
<1>4. N \in S
  <2> HIDE DEF S
  <2>1. Nat \subseteq S
    BY <1>2, <1>3, NatSetInduction
  <2>2. QED
    BY <1>1, <2>1
<1>5. PICK g : Sums(N, g)
  BY <1>4
<1>6. g = [f \in 0 .. N |-> IF f = 0 THEN 0 ELSE g[f - 1] + Totals[f]]
  BY <1>5
<1>7. Offset = [f \in 0 .. N |-> IF f = 0 THEN 0 ELSE Offset[f - 1] + Totals[f]]
  BY <1>6 DEF Offset
<1> DEFINE T == { m \in Nat : m <= N => Offset[m] \in Nat }
<1>8. 0 \in T
  BY <1>1, <1>7
<1>9. ASSUME NEW m \in Nat, m \in T
      PROVE  m + 1 \in T
  <2> SUFFICES ASSUME m + 1 <= N
               PROVE  Offset[m + 1] \in Nat
    OBVIOUS
  <2>1. Offset[m] \in Nat /\ m + 1 \in 1 .. N
    BY <1>1, <1>9
  <2>2. Offset[m + 1] = Offset[m] + Totals[m + 1]
    BY <1>1, <1>7, <2>1
  <2>3. QED
    BY <1>1, <2>1, <2>2
<1>10. \A m \in Nat : m <= N => Offset[m] \in Nat
  <2> HIDE DEF T
  <2>1. Nat \subseteq T
    BY <1>8, <1>9, NatSetInduction
  <2>2. QED
    BY <2>1 DEF T
<1>11. Offset \in [0 .. N -> Nat]
  BY <1>1, <1>7, <1>10
<1>12. QED
  BY <1>1, <1>7, <1>11, FilesType

\* Where a file starts among all slices.
LEMMA BeforeType ==
  /\ Before(1) = 0
  /\ \A f \in 1 .. Len(Totals) + 1 : Before(f) \in Nat
  /\ \A f \in Files : Before(f + 1) = Before(f) + Totals[f]
<1>1. \A f \in Files : (f + 1) - 1 = f /\ f \in Nat
  BY FilesType
<1>2. \A f \in Files : Before(f + 1) = Offset[f]
  BY <1>1 DEF Before
<1>3. \A f \in Files : Before(f) = Offset[f - 1]
  BY DEF Before
<1>4. Before(1) = 0
  BY OffsetType DEF Before
<1>5. \A f \in 1 .. Len(Totals) + 1 : Before(f) \in Nat
  <2>1. \A f \in 1 .. Len(Totals) + 1 : f - 1 \in 0 .. Len(Totals)
    BY FilesType
  <2>2. QED
    BY <2>1, OffsetType DEF Before
<1>6. QED
  BY <1>2, <1>3, <1>4, <1>5, OffsetType

LEMMA AtMostType ==
  \A a, b \in Nat : /\ AtMost(a, b) \in Nat
                    /\ AtMost(a, b) <= a /\ AtMost(a, b) <= b
                    /\ AtMost(a, b) = a \/ AtMost(a, b) = b
BY DEF AtMost

LEMMA Quotient ==
  ASSUME NEW a \in Nat, NEW b \in Nat \ {0}
  PROVE  /\ a \div b \in Nat
         /\ b * (a \div b) <= a
         /\ a < b * (a \div b) + b
OBVIOUS

(***************************************************************************)
(* fanOut: the parts are not empty, do not overlap and cover 1 .. m.       *)
(***************************************************************************)
LEMMA FanOutParts ==
  ASSUME NEW kind, NEW m \in Nat \ {0}, workers \in Nat \ {0}
  PROVE  /\ \A j \in FanOut(kind, m) : \E lo, hi \in Nat :
               j = Job(kind, lo, hi) /\ lo < hi /\ hi <= m
         /\ \A j, k \in FanOut(kind, m) : j # k => j.hi <= k.lo \/ k.hi <= j.lo
         /\ \A x \in 1 .. m : \E j \in FanOut(kind, m) : j.at < x /\ x <= j.hi
<1> DEFINE parts == AtMost(workers, m)
           step == (m + parts - 1) \div parts
           lo(q) == q * step
           hi(q) == AtMost((q + 1) * step, m)
           Starts == { q \in 0 .. parts - 1 : q * step < m }
<1>1. parts \in Nat \ {0}
  BY AtMostType
<1>2. step \in Nat /\ parts * step <= m + parts - 1 /\ m + parts - 1 < parts * step + parts
  BY <1>1, Quotient
<1>3. step >= 1 /\ m <= parts * step
  BY <1>1, <1>2
<1>4. FanOut(kind, m) = { Job(kind, lo(q), hi(q)) : q \in Starts }
  BY DEF FanOut
<1> HIDE DEF parts, step
<1>5. ASSUME NEW q \in Starts
      PROVE  /\ lo(q) \in Nat /\ hi(q) \in Nat /\ (q + 1) * step = lo(q) + step
             /\ lo(q) < hi(q) /\ hi(q) <= m
  <2>1. q \in Nat /\ lo(q) \in Nat /\ (q + 1) * step = lo(q) + step /\ lo(q) < m
    BY <1>1, <1>2
  <2>2. (q + 1) * step \in Nat /\ (q + 1) * step > lo(q)
    BY <1>2, <1>3, <2>1
  <2>3. QED
    BY <2>1, <2>2, AtMostType
<1>6. ASSUME NEW q \in Starts, NEW r \in Starts, q < r
      PROVE  hi(q) <= lo(r)
  <2>1. (q + 1) * step <= r * step
    BY <1>1, <1>2, <1>6
  <2>2. hi(q) <= (q + 1) * step
    BY <1>2, <1>5, AtMostType
  <2>3. QED
    BY <1>2, <1>5, <2>1, <2>2
<1>7. ASSUME NEW x \in 1 .. m
      PROVE  \E q \in Starts : lo(q) < x /\ x <= hi(q)
  <2> DEFINE q == (x - 1) \div step
  <2>1. q \in Nat /\ step * q <= x - 1 /\ x - 1 < step * q + step
    BY <1>2, <1>3, Quotient
  <2> HIDE DEF q
  <2>2. q * step = step * q /\ (q + 1) * step = q * step + step
    BY <1>2, <2>1
  <2>3. q < parts
    BY <1>1, <1>2, <1>3, <2>1, <2>2
  <2>4. q \in Starts
    BY <1>1, <1>2, <2>1, <2>2, <2>3
  <2>5. x <= hi(q)
    BY <1>2, <2>1, <2>2 DEF AtMost
  <2>6. QED
    BY <1>2, <2>1, <2>2, <2>4, <2>5
<1> HIDE DEF Starts
<1>8. \A j \in FanOut(kind, m) : \E q \in Starts :
        j = Job(kind, lo(q), hi(q)) /\ j.lo = lo(q) /\ j.hi = hi(q) /\ j.at = lo(q)
  BY <1>4 DEF Job
<1>9. \A j \in FanOut(kind, m) : \E l, h \in Nat : j = Job(kind, l, h) /\ l < h /\ h <= m
  BY <1>5, <1>8
<1>10. ASSUME NEW j \in FanOut(kind, m), NEW k \in FanOut(kind, m), j # k
       PROVE  j.hi <= k.lo \/ k.hi <= j.lo
  <2>1. PICK q \in Starts : j = Job(kind, lo(q), hi(q)) /\ j.lo = lo(q) /\ j.hi = hi(q)
    BY <1>8
  <2>2. PICK r \in Starts : k = Job(kind, lo(r), hi(r)) /\ k.lo = lo(r) /\ k.hi = hi(r)
    BY <1>8
  <2>3. q # r /\ q \in Nat /\ r \in Nat
    BY <1>1, <1>10, <2>1, <2>2 DEF Starts
  <2>4. QED
    BY <1>6, <2>1, <2>2, <2>3
<1>11. ASSUME NEW x \in 1 .. m
       PROVE  \E j \in FanOut(kind, m) : j.at < x /\ x <= j.hi
  <2>1. PICK q \in Starts : lo(q) < x /\ x <= hi(q)
    BY <1>7
  <2>2. Job(kind, lo(q), hi(q)) \in FanOut(kind, m)
    BY <1>4
  <2>3. QED
    BY <2>1, <2>2 DEF Job
<1>12. QED
  BY <1>9, <1>10, <1>11

\* What slice s of Taken(m) is.
LEMMA TakenElement ==
  ASSUME NEW m, NEW s
  PROVE  s \in Taken(m) <=>
           \E f \in Files : \E i \in 1 .. Encoded(f) :
             s = <<f, i>> /\ (f < file \/ (f = file /\ i <= m))
BY DEF Taken

LEMMA EncodedType ==
  ASSUME length \in [Files -> Nat]
  PROVE  \A f \in Files : /\ Encoded(f) \in Nat
                          /\ \A i \in Nat : i <= Encoded(f) <=> i <= length[f] /\ i <= Totals[f]
BY FilesType DEF Encoded, AtMost

\* A slice of data is no padding.
LEMMA SliceIsData ==
  ASSUME NEW f \in Files, NEW i \in Nat
  PROVE  <<f, i>> \in SliceData \ {Pad} /\ <<f, i>> # Unset
BY EncodeAssumption DEF SliceData

-----------------------------------------------------------------------------
(***************************************************************************)
(* The initial state and the steps of the goroutine of Create.             *)
(***************************************************************************)
LEMMA InitInv == Init => IInv
<1> SUFFICES ASSUME Init
             PROVE  IInv
  OBVIOUS
<1> USE DEF Init, Busy
<1>1. length \in [Files -> Nat]
  <2>1. \A f \in Files : Lengths[f] \subseteq Nat
    BY EncodeAssumption, FilesType
  <2>2. QED
    BY <2>1
<1>2. BatchInv
  BY <1>1, FilesType, BeforeType DEF BatchInv
<1>3. JobsInv
  BY DEF JobsInv
<1>4. HashesInv
  BY FilesType DEF HashesInv
<1>5. WholeInv
  BY FilesType DEF WholeInv
<1>6. Upto(0) = {}
  BY FilesType, TakenElement DEF Upto
<1>7. RecoveryInv
  BY <1>6, EncodeAssumption DEF RecoveryInv
<1>8. QED
  BY <1>2, <1>3, <1>4, <1>5, <1>7 DEF IInv

LEMMA OpenFileInv == IInv /\ OpenFile => IInv'
<1> SUFFICES ASSUME IInv, OpenFile
             PROVE  IInv'
  OBVIOUS
<1> USE DEF IInv, OpenFile, inputs
<1>1. /\ pc = "open" /\ pc' = "read" /\ file \in Files /\ done' = 0 /\ jobs = {}
      /\ hashes' = [hashes EXCEPT ![file] = [i \in 1 .. Totals[file] |-> Unset]]
  BY DEF JobsInv
<1>2. BatchInv'
  BY <1>1, FilesType DEF BatchInv, Busy, Before
<1>3. JobsInv'
  BY <1>1 DEF JobsInv
<1>4. HashesInv'
  BY <1>1, FilesType DEF HashesInv, Busy, Hash, BatchInv
<1>5. WholeInv'
  <2>1. \A f \in Files : f = file => whole[f] = << >>
    BY <1>1 DEF WholeInv
  <2>2. AtMost(length[file], 0) = 0
    BY FilesType DEF BatchInv, AtMost
  <2>3. Prefix(file, 0) = << >>
    BY DEF Prefix
  <2>4. QED
    BY <1>1, <2>1, <2>2, <2>3 DEF WholeInv, Prefix, Encoded
<1>6. RecoveryInv'
  BY <1>1 DEF RecoveryInv, Upto, Taken, Encoded, Before
<1>7. QED
  BY <1>1, <1>2, <1>3, <1>4, <1>5, <1>6

LEMMA ReadBatchInv == IInv /\ ReadBatch => IInv'
<1> SUFFICES ASSUME IInv, ReadBatch
             PROVE  IInv'
  OBVIOUS
<1> DEFINE m == AtMost(Batch, Totals[file] - done)
           r == IF done < length[file] THEN AtMost(m, length[file] - done) ELSE 0
           w == [k \in 1 .. m |-> IF k <= r THEN <<file, done + k>> ELSE Pad]
<1>1. /\ pc = "read" /\ pc' = "whole" /\ file \in Files /\ jobs = {}
      /\ done \in Nat /\ done < Totals[file] /\ length[file] \in Nat
      /\ n' = m /\ read' = r /\ window' = w
      /\ UNCHANGED <<inputs, file, base, done, jobs, outputs>>
  BY DEF IInv, JobsInv, BatchInv, ReadBatch
<1>2. m \in Nat \ {0} /\ done + m <= Totals[file] /\ r \in 0 .. m
  <2>1. Totals[file] \in Nat
    BY <1>1, FilesType
  <2>2. Totals[file] - done \in Nat \ {0} /\ Batch \in Nat \ {0}
    BY <1>1, <2>1, EncodeAssumption
  <2>3. m \in Nat \ {0} /\ m <= Totals[file] - done
    BY <2>2, AtMostType
  <2> HIDE DEF m
  <2>4. r \in 0 .. m
    BY <1>1, <2>3 DEF AtMost
  <2>5. QED
    BY <1>1, <2>1, <2>3, <2>4
<1>3. \A k \in 1 .. m : w[k] \in SliceData
  <2> HIDE DEF m, r
  <2>1. QED
    BY <1>1, <1>2, SliceIsData DEF SliceData
<1> USE DEF IInv, inputs, outputs
<1>4. BatchInv'
  <2>1. DOMAIN window' = 1 .. m
    BY <1>1
  <2>2. /\ (n = m)' /\ (read = r)' /\ (window = w)'
    BY <1>1
  <2> HIDE DEF m, r, w
  <2>3. /\ n' \in Nat /\ read' \in 0 .. n' /\ n' > 0 /\ (done + n <= Totals[file])'
    BY <1>1, <1>2
  <2>4. /\ (read = IF done < length[file] THEN AtMost(n, length[file] - done) ELSE 0)'
        /\ (window = [k \in 1 .. n |-> IF k <= read THEN <<file, done + k>> ELSE Pad])'
    BY <1>1 DEF m, r, w
  <2>5. \A k \in DOMAIN window' : window'[k] \in SliceData
    BY <1>1, <1>3, <2>1
  <2>6. QED
    BY <1>1, <2>3, <2>4, <2>5 DEF BatchInv, Busy, Before
<1> HIDE DEF m, r, w
<1>5. JobsInv'
  BY <1>1 DEF JobsInv
<1>6. HashesInv'
  BY <1>1, <1>2, FilesType DEF HashesInv, Busy, Hash, BatchInv
<1>7. WholeInv'
  BY <1>1 DEF WholeInv, Prefix, Encoded
<1>8. RecoveryInv'
  BY <1>1 DEF RecoveryInv, Upto, Taken, Encoded, Before
<1>9. QED
  BY <1>1, <1>4, <1>5, <1>6, <1>7, <1>8

\* While no goroutine is at work, what was added up is what has checksums.
LEMMA ChecksumsMatch ==
  ASSUME IInv
  PROVE  ChecksumsMatchRecovery
<1> SUFFICES ASSUME pc \in {"open", "read", "done"}, NEW x \in 1 .. Count
             PROVE  recovery[x] = { <<Before(s[1]) + s[2], hashes[s[1]][s[2]]>> : s \in Hashed }
  BY DEF IInv, ChecksumsMatchRecovery
<1> DEFINE m == IF pc = "read" THEN done ELSE 0
<1>1. /\ length \in [Files -> Nat] /\ done \in Nat /\ file \in Nat
      /\ pc = "done" => file = Len(Totals) + 1
      /\ pc = "read" => done <= Totals[file]
  BY FilesType DEF IInv, BatchInv
<1>2. recovery[x] = Upto(m)
  BY DEF IInv, RecoveryInv
<1>3. ASSUME NEW f \in Files, NEW i
      PROVE  /\ i \in DOMAIN hashes[f] /\ hashes[f][i] \notin {Pad, Unset}
                <=> i \in 1 .. Encoded(f) /\ (f < file \/ (f = file /\ i <= m))
             /\ i \in DOMAIN hashes[f] /\ hashes[f][i] \notin {Pad, Unset}
                => hashes[f][i] = <<f, i>>
  <2>1. CASE f < file
    <3>1. /\ DOMAIN hashes[f] = 1 .. Totals[f]
          /\ \A k \in 1 .. Totals[f] : Hash(f, k, hashes[f][k])
      BY <2>1 DEF IInv, HashesInv
    <3>2. CASE i \in 1 .. Totals[f]
      <4>1. i \in Nat /\ (i \in 1 .. Encoded(f) <=> i <= length[f])
        BY <1>1, <3>2, EncodedType, FilesType
      <4>2. Hash(f, i, hashes[f][i]) /\ <<f, i>> \notin {Pad, Unset}
        BY <3>1, <3>2, <4>1, SliceIsData
      <4>3. QED
        BY <2>1, <3>1, <3>2, <4>1, <4>2 DEF Hash
    <3>3. CASE i \notin 1 .. Totals[f]
      <4>1. i \notin 1 .. Encoded(f)
        BY <1>1, <3>3, EncodedType, FilesType
      <4>2. QED
        BY <3>1, <3>3, <4>1
    <3>4. QED
      BY <3>2, <3>3
  <2>2. CASE f > file \/ (pc # "read" /\ f = file)
    <3>1. hashes[f] = << >>
      BY <1>1, <2>2, FilesType DEF IInv, HashesInv
    <3>2. ~(f < file) /\ (f = file => m = 0)
      BY <1>1, <2>2, FilesType
    <3>3. QED
      BY <3>1, <3>2
  <2>3. CASE pc = "read" /\ f = file
    <3>1. /\ DOMAIN hashes[f] = 1 .. Totals[f]
          /\ \A k \in 1 .. done : Hash(f, k, hashes[f][k])
          /\ \A k \in 1 .. Totals[f] : k > done => hashes[f][k] = Unset
      BY <2>3 DEF IInv, HashesInv, Busy
    <3>2. CASE i \in 1 .. done
      <4>1. i \in Nat /\ i \in 1 .. Totals[f] /\ (i \in 1 .. Encoded(f) <=> i <= length[f])
        BY <1>1, <2>3, <3>2, EncodedType, FilesType
      <4>2. Hash(f, i, hashes[f][i]) /\ <<f, i>> \notin {Pad, Unset}
        BY <3>1, <3>2, <4>1, SliceIsData
      <4>3. i <= m /\ i \in DOMAIN hashes[f]
        BY <1>1, <2>3, <3>1, <3>2, <4>1
      <4>4. QED
        BY <2>3, <4>1, <4>2, <4>3 DEF Hash
    <3>3. CASE i \notin 1 .. done
      <4>1. i \in 1 .. Totals[f] => hashes[f][i] = Unset
        BY <1>1, <2>3, <3>1, <3>3, FilesType
      <4>2. ~(i \in 1 .. Encoded(f) /\ (f < file \/ (f = file /\ i <= m)))
        BY <1>1, <2>3, <3>3, EncodedType
      <4>3. QED
        BY <3>1, <4>1, <4>2
    <3>4. QED
      BY <3>2, <3>3
  <2>4. QED
    BY <1>1, <2>1, <2>2, <2>3, FilesType
<1>4. Hashed = Taken(m) /\ \A s \in Hashed : hashes[s[1]][s[2]] = s
  <2>1. \A s : s \in Hashed <=>
          \E f \in Files : \E i \in DOMAIN hashes[f] :
            s = <<f, i>> /\ hashes[f][i] \notin {Pad, Unset}
    BY DEF Hashed
  <2>2. \A s : s \in Hashed <=> s \in Taken(m)
    BY <1>3, <2>1, TakenElement
  <2>3. ASSUME NEW s \in Hashed
        PROVE  hashes[s[1]][s[2]] = s
    <3>1. PICK f \in Files : \E i \in DOMAIN hashes[f] :
            s = <<f, i>> /\ hashes[f][i] \notin {Pad, Unset}
      BY <2>1
    <3>2. QED
      BY <1>3, <3>1
  <2>4. QED
    BY <2>2, <2>3
<1>5. QED
  BY <1>2, <1>4 DEF Upto

LEMMA ReadFailsInv == IInv /\ ReadFails => IInv'
<1> SUFFICES ASSUME IInv, ReadFails
             PROVE  IInv'
  OBVIOUS
<1> USE DEF IInv, ReadFails, inputs, outputs
<1>1. pc \in {"open", "read"} /\ pc' = "failed" /\ jobs = {}
  BY DEF JobsInv
<1>2. BatchInv'
  BY <1>1 DEF BatchInv, Busy, Before
<1>3. JobsInv'
  BY <1>1 DEF JobsInv
<1>4. HashesInv'
  BY <1>1 DEF HashesInv
<1>5. WholeInv'
  BY <1>1 DEF WholeInv
<1>6. RecoveryInv'
  BY <1>1 DEF RecoveryInv
<1>7. ChecksumsMatchRecovery'
  BY <1>1, ChecksumsMatch DEF ChecksumsMatchRecovery, Hashed, Before
<1>8. QED
  BY <1>2, <1>3, <1>4, <1>5, <1>6, <1>7

\* What was taken of all files before the next one.
LEMMA TakenNext ==
  ASSUME length \in [Files -> Nat], file \in Files, file' = file + 1,
         UNCHANGED length
  PROVE  Upto(0)' = Upto(Totals[file])
<1>1. Taken(0)' = Taken(Totals[file])
  <2>1. ASSUME NEW f \in Files, NEW i \in 1 .. Encoded(f)
        PROVE  (f < file' \/ (f = file' /\ i <= 0)) <=>
                  (f < file \/ (f = file /\ i <= Totals[file]))
    <3>1. i \in Nat /\ i >= 1 /\ i <= Totals[f]
      BY EncodedType
    <3>2. f \in Nat /\ file \in Nat
      BY FilesType
    <3>3. f < file + 1 <=> f < file \/ f = file
      BY <3>2
    <3>4. QED
      BY <3>1, <3>3
  <2>2. QED
    BY <2>1 DEF Taken, Encoded
<1>2. QED
  BY <1>1 DEF Upto, Before

LEMMA FileEndsInv == IInv /\ FileEnds => IInv'
<1> SUFFICES ASSUME IInv, FileEnds
             PROVE  IInv'
  OBVIOUS
<1> USE DEF IInv, inputs, outputs
<1>1. /\ pc = "read" /\ file \in Files /\ jobs = {} /\ length \in [Files -> Nat]
      /\ done = Totals[file] /\ Totals[file] \in Nat
      /\ file \in 1 .. Len(Totals)
      /\ file' = file + 1 /\ base' = base + Totals[file]
      /\ pc' = IF file = Len(Totals) THEN "done" ELSE "open"
      /\ UNCHANGED <<inputs, done, n, read, window, jobs, outputs>>
  BY FilesType DEF JobsInv, BatchInv, FileEnds
<1>2. BatchInv'
  <2>1. file + 1 \in 1 .. Len(Totals) + 1
    BY <1>1, FilesType
  <2>2. base' = Before(file + 1)
    BY <1>1, BeforeType DEF BatchInv
  <2>3. QED
    BY <1>1, <2>1, <2>2 DEF BatchInv, Busy, Before
<1>3. JobsInv'
  BY <1>1 DEF JobsInv
<1>4. HashesInv'
  <2>1. ASSUME NEW f \in Files
        PROVE  /\ f < file + 1 => f < file \/ f = file
               /\ f > file + 1 => f > file
               /\ f = file + 1 => f > file
    BY <1>1, FilesType
  <2>2. \A f \in Files : f < file + 1 =>
          DOMAIN hashes[f] = 1 .. Totals[f] /\ \A i \in 1 .. Totals[f] : Hash(f, i, hashes[f][i])
    BY <1>1, <2>1 DEF HashesInv
  <2>3. \A f \in Files : f > file => hashes[f] = << >>
    BY <1>1, <2>1 DEF HashesInv
  <2>4. \A f \in Files : f = file + 1 => file # Len(Totals)
    BY <1>1, FilesType
  <2>5. QED
    BY <1>1, <2>1, <2>2, <2>3, <2>4 DEF HashesInv, Hash
<1>5. WholeInv'
  <2>1. ASSUME NEW f \in Files
        PROVE  /\ f < file + 1 => f < file \/ f = file
               /\ f > file + 1 => f > file
               /\ f = file + 1 => f > file
    BY <1>1, FilesType
  <2>2. whole[file] = Prefix(file, Encoded(file))
    BY <1>1 DEF WholeInv, Encoded
  <2>3. \A f \in Files : f = file + 1 => file # Len(Totals)
    BY <1>1, FilesType
  <2>4. QED
    BY <1>1, <2>1, <2>2, <2>3 DEF WholeInv, Prefix, Encoded
<1>6. RecoveryInv'
  <2>1. Upto(0)' = Upto(done)
    BY <1>1, TakenNext
  <2>2. QED
    BY <1>1, <2>1 DEF RecoveryInv
<1>7. QED
  BY <1>1, <1>2, <1>3, <1>4, <1>5, <1>6

-----------------------------------------------------------------------------
(***************************************************************************)
(* The goroutines are started, and waited for.                             *)
(***************************************************************************)

\* What the parts are that fanOut hands out.
LEMMA FanOutJobs ==
  ASSUME NEW kind \in {"whole", "hash", "code"}, NEW m \in Nat \ {0}, workers \in Nat \ {0}
  PROVE  \A j \in FanOut(kind, m) :
           /\ j \in JobType
           /\ j.kind = kind /\ j.at = j.lo /\ j.lo < j.hi /\ j.hi <= m
           /\ j.i = 0 /\ ~j.loaded
<1> SUFFICES ASSUME NEW j \in FanOut(kind, m)
             PROVE  /\ j \in JobType
                    /\ j.kind = kind /\ j.at = j.lo /\ j.lo < j.hi /\ j.hi <= m
                    /\ j.i = 0 /\ ~j.loaded
  OBVIOUS
<1>1. PICK lo \in Nat, hi \in Nat : j = Job(kind, lo, hi) /\ lo < hi /\ hi <= m
  BY FanOutParts
<1>2. QED
  BY <1>1 DEF Job, JobType

LEMMA SpawnWholeInv == IInv /\ SpawnWhole => IInv'
<1> SUFFICES ASSUME IInv, SpawnWhole
             PROVE  IInv'
  OBVIOUS
<1> USE DEF IInv, inputs, outputs
<1> DEFINE j == Job("whole", 0, 1)
<1>1. /\ pc = "whole" /\ pc' = "slices" /\ jobs = {} /\ jobs' = {j}
      /\ UNCHANGED <<inputs, file, base, done, n, read, window, outputs>>
  BY DEF JobsInv, SpawnWhole
<1>2. BatchInv'
  BY <1>1 DEF BatchInv, Busy, Before
<1>3. /\ j \in JobType
      /\ j.kind = "whole" /\ j.lo = 0 /\ j.at = 0 /\ j.hi = 1
  BY DEF Job, JobType
<1> HIDE DEF j
<1>4. JobsInv'
  BY <1>1, <1>3 DEF JobsInv
<1>5. HashesInv'
  BY <1>1 DEF HashesInv, Hash, Busy
<1>6. WholeInv'
  <2>1. Ahead("whole", 1)'
    BY <1>1, <1>3 DEF Ahead
  <2>2. QED
    BY <1>1, <2>1 DEF WholeInv, Prefix, Encoded
<1>7. RecoveryInv'
  BY <1>1 DEF RecoveryInv, Upto, Taken, Encoded, Before
<1>8. QED
  BY <1>1, <1>2, <1>4, <1>5, <1>6, <1>7

LEMMA SpawnHashInv == IInv /\ SpawnHash => IInv'
<1> SUFFICES ASSUME IInv, SpawnHash
             PROVE  IInv'
  OBVIOUS
<1> USE DEF IInv, inputs, outputs
<1> DEFINE new == FanOut("hash", n)
<1>1. /\ pc = "slices" /\ pc' \in {"encode", "wait"} /\ jobs' = jobs \cup new
      /\ pc' = "encode" => Count > 0
      /\ pc' = "wait" => Count = 0
      /\ UNCHANGED <<inputs, file, base, done, n, read, window, outputs>>
  BY EncodeAssumption DEF SpawnHash
<1>2. n \in Nat \ {0} /\ workers \in Nat \ {0}
  BY <1>1, EncodeAssumption DEF BatchInv, Busy
<1>3. /\ \A j \in jobs : j.kind = "whole"
      /\ \A j \in new : j.kind = "hash"
  BY <1>1, <1>2, FanOutJobs DEF JobsInv
<1>4. BatchInv'
  BY <1>1 DEF BatchInv, Busy, Before
<1>5. JobsInv'
  <2>1. \A j \in new :
          /\ j \in JobType
          /\ j.kind = "hash" /\ j.lo <= j.at /\ j.at < j.hi /\ j.hi <= n
    BY <1>2, FanOutJobs DEF JobType
  <2>2. \A j, k \in new : j # k => j.hi <= k.lo \/ k.hi <= j.lo
    BY <1>2, FanOutParts
  <2>3. \A j, k \in jobs' : j # k => j.kind # k.kind \/ j.hi <= k.lo \/ k.hi <= j.lo
    BY <1>1, <1>3, <2>2 DEF JobsInv
  <2> HIDE DEF new
  <2>4. jobs' \subseteq JobType
    BY <1>1, <2>1 DEF JobsInv
  <2>5. \A j \in jobs' :
        /\ j.lo <= j.at /\ j.at < j.hi
        /\ j.kind = "whole" => j.hi = 1
        /\ j.kind = "hash" => j.hi <= n
        /\ j.kind # "code"
    BY <1>1, <1>3, <2>1 DEF JobsInv
  <2>6. QED
    BY <1>1, <2>3, <2>4, <2>5 DEF JobsInv
<1>6. HashesInv'
  <2>1. \A k \in 1 .. n : \E j \in new : j.kind = "hash" /\ j.at < k /\ k <= j.hi
    BY <1>2, <1>3, FanOutParts
  <2> HIDE DEF new
  <2>2. \A k \in 1 .. n' : Ahead("hash", k)'
    BY <1>1, <2>1 DEF Ahead
  <2>3. QED
    BY <1>1, <2>2 DEF HashesInv, Hash, Busy
<1>7. WholeInv'
  <2> HIDE DEF new
  <2>1. Ahead("whole", 1)' <=> Ahead("whole", 1)
    BY <1>1, <1>3 DEF Ahead
  <2>2. QED
    BY <1>1, <2>1 DEF WholeInv, Prefix, Encoded
<1>8. RecoveryInv'
  <2>1. Count = 0 => 1 .. Count = {}
    OBVIOUS
  <2>2. QED
    BY <1>1, <2>1 DEF RecoveryInv, Upto, Taken, Encoded, Before
<1>9. QED
  BY <1>1, <1>4, <1>5, <1>6, <1>7, <1>8

LEMMA SpawnCodeInv == IInv /\ SpawnCode => IInv'
<1> SUFFICES ASSUME IInv, SpawnCode
             PROVE  IInv'
  OBVIOUS
<1> USE DEF IInv, inputs, outputs
<1> DEFINE new == FanOut("code", Count)
<1>1. /\ pc = "encode" /\ pc' = "wait" /\ jobs' = jobs \cup new
      /\ UNCHANGED <<inputs, file, base, done, n, read, window, outputs>>
  BY DEF SpawnCode
<1>2. /\ n \in Nat \ {0} /\ workers \in Nat \ {0} /\ Count \in Nat \ {0} /\ done \in Nat
  BY <1>1, EncodeAssumption DEF BatchInv, Busy
<1>3. /\ \A j \in jobs : j.kind # "code"
      /\ \A j \in new : j.kind = "code"
  BY <1>1, <1>2, FanOutJobs DEF JobsInv
<1>4. BatchInv'
  BY <1>1 DEF BatchInv, Busy, Before
<1>5. \A j \in new :
        /\ j \in JobType
        /\ j.lo <= j.at /\ j.at < j.hi /\ j.hi <= Count /\ j.i = 0 /\ ~j.loaded
  BY <1>2, FanOutJobs DEF JobType
<1>6. JobsInv'
  <2>1. \A j, k \in new : j # k => j.hi <= k.lo \/ k.hi <= j.lo
    BY <1>2, FanOutParts
  <2>2. \A j, k \in jobs' : j # k => j.kind # k.kind \/ j.hi <= k.lo \/ k.hi <= j.lo
    BY <1>1, <1>3, <2>1 DEF JobsInv
  <2> HIDE DEF new
  <2>3. jobs' \subseteq JobType
    BY <1>1, <1>5 DEF JobsInv
  <2>4. \A j \in jobs' :
        /\ j.lo <= j.at /\ j.at < j.hi
        /\ j.kind = "whole" => j.hi = 1
        /\ j.kind = "hash" => j.hi <= n
        /\ j.kind = "code" => j.hi <= Count /\ j.i < n
    BY <1>1, <1>2, <1>3, <1>5 DEF JobsInv
  <2>5. QED
    BY <1>1, <2>2, <2>3, <2>4 DEF JobsInv
<1>7. HashesInv'
  <2> HIDE DEF new
  <2>1. \A k : Ahead("hash", k)' <=> Ahead("hash", k)
    BY <1>1, <1>3 DEF Ahead
  <2>2. QED
    BY <1>1, <2>1 DEF HashesInv, Hash, Busy
<1>8. WholeInv'
  <2> HIDE DEF new
  <2>1. Ahead("whole", 1)' <=> Ahead("whole", 1)
    BY <1>1, <1>3 DEF Ahead
  <2>2. QED
    BY <1>1, <2>1 DEF WholeInv, Prefix, Encoded
<1>9. RecoveryInv'
  <2>1. \A x \in 1 .. Count : \E j \in new : j.kind = "code" /\ j.at < x /\ x <= j.hi
    BY <1>2, <1>3, FanOutParts
  <2> HIDE DEF new
  <2>2. \A x \in 1 .. Count : Ahead("code", x)'
    BY <1>1, <2>1 DEF Ahead
  <2>3. \A j \in jobs' : j.kind = "code" => j.i = 0 /\ ~j.loaded
    BY <1>1, <1>3, <1>5
  <2>4. \A x \in 1 .. Count : recovery[x] = Upto(done) /\ done + 0 = done
    BY <1>1, <1>2 DEF RecoveryInv
  <2>5. \A m : Upto(m)' = Upto(m)
    BY <1>1 DEF Upto, Taken, Encoded, Before
  <2>6. QED
    BY <1>1, <2>2, <2>3, <2>4, <2>5 DEF RecoveryInv
<1>10. QED
  BY <1>1, <1>4, <1>6, <1>7, <1>8, <1>9

\* What the window holds, while its goroutines are at work.
LEMMA WindowData ==
  ASSUME BatchInv, Busy
  PROVE  /\ file \in Files /\ length[file] \in Nat /\ Totals[file] \in Nat
         /\ done \in Nat /\ n \in Nat \ {0} /\ read \in 0 .. n /\ done + n <= Totals[file]
         /\ DOMAIN window = 1 .. n
         /\ \A k \in 1 .. n :
              /\ window[k] = IF k <= read THEN <<file, done + k>> ELSE Pad
              /\ k <= read <=> done + k <= length[file]
         /\ read < n => length[file] < done + n
         /\ read = n => done + n <= length[file]
<1>1. /\ file \in Files /\ length[file] \in Nat /\ Totals[file] \in Nat
      /\ done \in Nat /\ n \in Nat \ {0} /\ read \in 0 .. n /\ done + n <= Totals[file]
      /\ read = IF done < length[file] THEN AtMost(n, length[file] - done) ELSE 0
      /\ window = [k \in 1 .. n |-> IF k <= read THEN <<file, done + k>> ELSE Pad]
  BY FilesType DEF BatchInv
<1>2. \A k \in 1 .. n : k <= read <=> done + k <= length[file]
  BY <1>1 DEF AtMost
<1>3. /\ read < n => length[file] < done + n
      /\ read = n => done + n <= length[file]
  BY <1>1 DEF AtMost
<1>4. QED
  BY <1>1, <1>2, <1>3

LEMMA WaitInv == IInv /\ Wait => IInv'
<1> SUFFICES ASSUME IInv, Wait
             PROVE  IInv'
  OBVIOUS
<1> USE DEF IInv, inputs, outputs
<1> DEFINE next == IF read < n THEN Totals[file] ELSE done + n
<1>1. /\ pc = "wait" /\ pc' = "read" /\ jobs = {} /\ Busy /\ BatchInv
      /\ done' = next
      /\ UNCHANGED <<inputs, file, base, n, read, window, jobs, outputs>>
  BY DEF Wait, Busy
<1>2. /\ next \in Nat /\ done + n <= next /\ next <= Totals[file]
      /\ \A i \in Nat : i <= length[file] => (i <= next <=> i <= done + n)
  BY <1>1, WindowData
<1> HIDE DEF next
<1>3. BatchInv'
  BY <1>1, <1>2 DEF BatchInv, Busy, Before
<1>4. JobsInv'
  BY <1>1 DEF JobsInv
<1>5. HashesInv'
  <2>1. /\ DOMAIN hashes[file] = 1 .. Totals[file]
        /\ \A i \in 1 .. done : Hash(file, i, hashes[file][i])
        /\ \A i \in 1 .. Totals[file] : i > done + n => hashes[file][i] = Unset
    BY <1>1, WindowData DEF HashesInv
  <2>2. \A k \in 1 .. n : hashes[file][done + k] = window[k]
    BY <1>1 DEF HashesInv, Ahead
  <2>3. ASSUME NEW i \in 1 .. Totals[file]
        PROVE  i <= next => Hash(file, i, hashes[file][i])
    <3>1. CASE i <= done
      BY <1>1, <2>1, <3>1, WindowData
    <3>2. CASE i > done /\ i <= done + n
      <4>1. i - done \in 1 .. n /\ done + (i - done) = i
        BY <1>1, <3>2, WindowData
      <4>2. /\ hashes[file][i] = IF i - done <= read THEN <<file, i>> ELSE Pad
            /\ i - done <= read <=> i <= length[file]
        BY <1>1, <2>2, <4>1, WindowData
      <4>3. QED
        BY <4>2 DEF Hash
    <3>3. CASE i > done + n
      <4>1. i <= next => ~(i <= length[file])
        BY <1>1, <1>2, <3>3, WindowData
      <4>2. QED
        BY <2>1, <3>3, <4>1 DEF Hash
    <3>4. QED
      BY <1>1, <3>1, <3>2, <3>3, WindowData
  <2>4. \A i \in 1 .. Totals[file] : i > next => hashes[file][i] = Unset
    BY <1>1, <1>2, <2>1, WindowData
  <2>5. \A i \in 1 .. next : i \in 1 .. Totals[file] /\ i <= next
    BY <1>1, <1>2, WindowData
  <2>6. QED
    BY <1>1, <2>1, <2>3, <2>4, <2>5 DEF HashesInv, Hash, Busy
<1>6. WholeInv'
  <2>1. AtMost(length[file], done + n) = AtMost(length[file], next)
    <3>1. CASE read < n
      BY <1>1, <1>2, <3>1, WindowData DEF AtMost
    <3>2. CASE read = n
      BY <1>1, <3>2, WindowData DEF next
    <3>3. QED
      BY <1>1, <3>1, <3>2, WindowData
  <2>2. whole[file] = Prefix(file, AtMost(length[file], done + n))
    BY <1>1, WindowData DEF WholeInv, Ahead
  <2>3. QED
    BY <1>1, <2>1, <2>2 DEF WholeInv, Prefix, Encoded
<1>7. RecoveryInv'
  <2>1. Taken(done + n) = Taken(next)
    <3>1. ASSUME NEW f \in Files, NEW i \in 1 .. Encoded(f), f = file
          PROVE  i <= done + n <=> i <= next
      <4>1. i \in Nat /\ i <= length[f]
        BY EncodedType DEF BatchInv
      <4>2. QED
        BY <1>2, <3>1, <4>1
    <3>2. QED
      BY <3>1 DEF Taken
  <2>2. \A x \in 1 .. Count : recovery[x] = Upto(next)
    BY <1>1, <2>1 DEF RecoveryInv, Ahead, Upto
  <2>3. Upto(done)' = Upto(next)
    BY <1>1 DEF Upto, Taken, Encoded, Before
  <2>4. QED
    BY <1>1, <2>2, <2>3 DEF RecoveryInv
<1>8. QED
  BY <1>1, <1>3, <1>4, <1>5, <1>6, <1>7

-----------------------------------------------------------------------------
(***************************************************************************)
(* The goroutines at work: j makes a step and becomes k, or is gone.       *)
(***************************************************************************)
LEMMA JobStep ==
  ASSUME JobsInv, Busy, n' = n, pc' = pc, NEW j \in jobs, NEW k \in JobType,
         k.kind = j.kind, k.lo = j.lo, k.hi = j.hi, j.at <= k.at,
         j.kind = "code" => k.i < n,
         \/ k.at < k.hi /\ jobs' = (jobs \ {j}) \cup {k}
         \/ k.at >= k.hi /\ jobs' = jobs \ {j}
  PROVE  /\ JobsInv'
         /\ \A kind, x : kind # j.kind => (Ahead(kind, x)' <=> Ahead(kind, x))
         /\ \A x \in Nat : Ahead(j.kind, x) =>
              Ahead(j.kind, x)' \/ (j.at < x /\ x <= k.at /\ x <= j.hi)
<1>1. /\ j \in JobType /\ j.lo <= j.at /\ j.at < j.hi
      /\ \A l \in jobs : l # j => l.kind # j.kind \/ j.hi <= l.lo \/ l.hi <= j.lo
  BY DEF JobsInv, JobType
<1>2. JobsInv'
  <2>1. jobs' \subseteq JobType
    BY DEF JobsInv, JobType
  <2>2. \A l \in jobs' : l = k \/ (l \in jobs /\ l # j)
    OBVIOUS
  <2>3. k \in jobs' => k.lo <= k.at /\ k.at < k.hi
    BY <1>1, <2>1 DEF JobType
  <2>4. \A l \in jobs' :
        /\ l.lo <= l.at /\ l.at < l.hi
        /\ l.kind = "whole" => l.hi = 1
        /\ l.kind = "hash" => l.hi <= n
        /\ l.kind = "code" => l.hi <= Count /\ l.i < n
    BY <2>2, <2>3 DEF JobsInv
  <2>5. \A l, m \in jobs' : l # m => l.kind # m.kind \/ l.hi <= m.lo \/ m.hi <= l.lo
    BY <1>1, <2>2 DEF JobsInv
  <2>6. /\ jobs' # {} => pc \in {"slices", "encode", "wait"}
        /\ pc = "slices" => \A l \in jobs' : l.kind = "whole"
        /\ pc = "encode" => \A l \in jobs' : l.kind # "code"
    BY <2>2 DEF JobsInv
  <2>7. QED
    BY <2>1, <2>4, <2>5, <2>6 DEF JobsInv, JobType
<1>3. \A kind, x : kind # j.kind => (Ahead(kind, x)' <=> Ahead(kind, x))
  BY DEF Ahead
<1>4. \A x \in Nat : Ahead(j.kind, x) =>
        Ahead(j.kind, x)' \/ (j.at < x /\ x <= k.at /\ x <= j.hi)
  <2> SUFFICES ASSUME NEW x \in Nat, NEW l \in jobs, l.kind = j.kind, l.at < x, x <= l.hi
               PROVE  Ahead(j.kind, x)' \/ (j.at < x /\ x <= k.at /\ x <= j.hi)
    BY DEF Ahead
  <2>1. CASE l # j
    BY <2>1 DEF Ahead
  <2>2. CASE l = j
    BY <1>1, <2>2 DEF Ahead, JobType
  <2>3. QED
    BY <2>1, <2>2
<1>5. QED
  BY <1>2, <1>3, <1>4

LEMMA PrefixType ==
  ASSUME NEW f \in Files, NEW m \in Nat
  PROVE  /\ Prefix(f, m) \in Seq(SliceData \ {Pad})
         /\ Prefix(f, m) \in Seq(SliceData)
         /\ Len(Prefix(f, m)) = m
<1>1. \A i \in 1 .. m : <<f, i>> \in SliceData \ {Pad}
  BY SliceIsData
<1>2. Prefix(f, m) \in [1 .. m -> SliceData \ {Pad}]
  BY <1>1 DEF Prefix
<1>3. Prefix(f, m) \in [1 .. m -> SliceData]
  BY <1>2
<1>4. QED
  BY <1>2, <1>3

\* whole.Write(window[:read]) makes the prefix of the file longer.
LEMMA PrefixGrows ==
  ASSUME BatchInv, Busy
  PROVE  Prefix(file, AtMost(length[file], done)) \o SubSeq(window, 1, read)
           = Prefix(file, AtMost(length[file], done + n))
<1> DEFINE a == AtMost(length[file], done)
           b == AtMost(length[file], done + n)
           p == Prefix(file, a)
           q == SubSeq(window, 1, read)
<1>1. /\ length[file] \in Nat /\ done \in Nat /\ n \in Nat \ {0} /\ read \in 0 .. n
      /\ file \in Files
      /\ read > 0 => done + read <= length[file]
      /\ read < n => ~(done + (read + 1) <= length[file])
  <2>1. /\ length[file] \in Nat /\ done \in Nat /\ n \in Nat \ {0} /\ read \in 0 .. n
        /\ file \in Files
        /\ \A k \in 1 .. n : k <= read <=> done + k <= length[file]
    BY WindowData
  <2>2. read > 0 => read \in 1 .. n
    BY <2>1
  <2>3. read < n => read + 1 \in 1 .. n /\ ~(read + 1 <= read)
    BY <2>1
  <2>4. QED
    BY <2>1, <2>2, <2>3
<1>2. a \in Nat /\ b \in Nat /\ b = a + read /\ (read > 0 => a = done)
  BY <1>1 DEF AtMost
<1> HIDE DEF a, b
<1>3. window \in Seq(SliceData) /\ Len(window) = n
  <2>1. window \in [1 .. n -> SliceData]
    BY WindowData DEF BatchInv
  <2>2. QED
    BY <1>1, <2>1
<1>4. /\ q \in Seq(SliceData) /\ Len(q) = read
      /\ \A k \in 1 .. read : q[k] = <<file, done + k>>
  <2>1. \A k \in 1 .. read : window[k] = <<file, done + k>> /\ window[k] \in SliceData
    BY <1>1, <1>3, WindowData
  <2>2. QED
    BY <1>1, <2>1, SubSeqProperties
<1>5. p \in Seq(SliceData) /\ Len(p) = a /\ \A k \in 1 .. a : p[k] = <<file, k>>
  BY <1>1, <1>2, PrefixType DEF Prefix
<1>6. Prefix(file, b) \in Seq(SliceData) /\ Len(Prefix(file, b)) = b
      /\ \A k \in 1 .. b : Prefix(file, b)[k] = <<file, k>>
  BY <1>1, <1>2, PrefixType DEF Prefix
<1> HIDE DEF p, q
<1>7. /\ p \o q \in Seq(SliceData) /\ Len(p \o q) = b
      /\ \A k \in 1 .. b : (p \o q)[k] = IF k <= a THEN p[k] ELSE q[k - a]
  BY <1>1, <1>2, <1>4, <1>5, ConcatProperties
<1>8. ASSUME NEW k \in 1 .. b
      PROVE  (p \o q)[k] = <<file, k>>
  <2>1. CASE k <= a
    <3>1. k \in 1 .. a
      BY <1>2, <2>1
    <3>2. QED
      BY <1>5, <1>7, <2>1, <3>1
  <2>2. CASE ~(k <= a)
    <3>1. k - a \in 1 .. read /\ done + (k - a) = k
      BY <1>1, <1>2, <2>2
    <3>2. QED
      BY <1>4, <1>7, <2>2, <3>1
  <2>3. QED
    BY <2>1, <2>2
<1>9. p \o q = Prefix(file, b)
  BY <1>6, <1>7, <1>8, SeqEqual
<1>10. QED
  BY <1>9 DEF p, q, a, b

LEMMA HashWholeInv ==
  ASSUME IInv, NEW j \in jobs, HashWhole(j),
         UNCHANGED <<inputs, pc, file, base, done, n, read, window>>
  PROVE  IInv'
<1> USE DEF IInv, inputs
<1> DEFINE k == [j EXCEPT !.at = j.at + 1]
<1>1. /\ j.kind = "whole" /\ Proceed(j, k) /\ UNCHANGED <<hashes, recovery>>
      /\ whole' = [whole EXCEPT ![file] = @ \o SubSeq(window, 1, read)]
      /\ UNCHANGED <<length, workers, pc, file, base, done, n, read, window>>
  BY DEF HashWhole
<1>2. /\ Busy /\ pc \in {"slices", "encode", "wait"} /\ j \in JobType
      /\ j.lo = 0 /\ j.at = 0 /\ j.hi = 1
  BY <1>1 DEF JobsInv, Busy, JobType
<1>3. /\ k \in JobType /\ k.kind = j.kind /\ k.lo = j.lo /\ k.hi = j.hi /\ k.at = j.at + 1
      /\ jobs' = jobs \ {j}
  BY <1>1, <1>2 DEF JobType, Proceed
<1> HIDE DEF k
<1>4. /\ JobsInv'
      /\ \A kind, x : kind # "whole" => (Ahead(kind, x)' <=> Ahead(kind, x))
  BY <1>1, <1>2, <1>3, JobStep
<1>5. BatchInv'
  BY <1>1 DEF BatchInv, Busy, Before
<1>6. HashesInv'
  BY <1>1, <1>4 DEF HashesInv, Hash, Busy
<1>7. WholeInv'
  <2>1. Ahead("whole", 1)
    BY <1>1, <1>2 DEF Ahead
  <2>2. ~Ahead("whole", 1)'
    <3>1. \A l \in jobs : l # j => l.kind # "whole"
      BY <1>1, <1>2 DEF JobsInv, JobType
    <3>2. QED
      BY <1>3, <3>1 DEF Ahead
  <2>3. /\ file \in Files
        /\ whole[file] = Prefix(file, AtMost(length[file], done))
    BY <1>2, <2>1 DEF WholeInv, BatchInv
  <2>4. whole'[file] = Prefix(file, AtMost(length[file], done + n))
    <3>1. whole'[file] = whole[file] \o SubSeq(window, 1, read)
      BY <1>1, <2>3 DEF WholeInv
    <3>2. QED
      BY <1>2, <2>3, <3>1, PrefixGrows
  <2>5. Prefix(file, AtMost(length[file], done + n)) \in Seq(SliceData \ {Pad})
    <3>1. length[file] \in Nat /\ done + n \in Nat
      BY <1>2, WindowData
    <3>2. AtMost(length[file], done + n) \in Nat
      BY <3>1, AtMostType
    <3>3. QED
      BY <2>3, <3>2, PrefixType
  <2>6. DOMAIN whole' = Files /\ \A f \in Files : f # file => whole'[f] = whole[f]
    BY <1>1 DEF WholeInv
  <2>7. \A f \in Files : whole'[f] \in Seq(SliceData \ {Pad})
    BY <2>4, <2>5, <2>6 DEF WholeInv
  <2>8. \A f \in Files :
          /\ f < file => whole'[f] = Prefix(f, Encoded(f))
          /\ f > file => whole'[f] = << >>
    BY <1>2, <2>3, <2>6, FilesType DEF WholeInv
  <2>9. pc' \in {"slices", "encode", "wait"}
    BY <1>1, <1>2
  <2>10. QED
    BY <1>1, <2>2, <2>4, <2>6, <2>7, <2>8, <2>9 DEF WholeInv, Prefix, Encoded
<1>8. RecoveryInv'
  <2>1. \A l \in jobs' : l \in jobs
    BY <1>3
  <2>2. \A x : Ahead("code", x)' <=> Ahead("code", x)
    BY <1>4
  <2>3. \A m : Upto(m)' = Upto(m)
    BY <1>1 DEF Upto, Taken, Encoded, Before
  <2>4. QED
    BY <1>1, <1>2, <2>1, <2>2, <2>3 DEF RecoveryInv
<1>9. QED
  BY <1>1, <1>2, <1>4, <1>5, <1>6, <1>7, <1>8

LEMMA HashSliceInv ==
  ASSUME IInv, NEW j \in jobs, HashSlice(j),
         UNCHANGED <<inputs, pc, file, base, done, n, read, window>>
  PROVE  IInv'
<1> USE DEF IInv, inputs
<1> DEFINE k == [j EXCEPT !.at = j.at + 1]
<1>1. /\ j.kind = "hash" /\ Proceed(j, k) /\ UNCHANGED <<whole, recovery>>
      /\ hashes' = [hashes EXCEPT ![file][done + j.at + 1] = window[j.at + 1]]
      /\ UNCHANGED <<length, workers, pc, file, base, done, n, read, window>>
  BY DEF HashSlice
<1>2. /\ Busy /\ pc \in {"encode", "wait"} /\ j \in JobType
      /\ j.lo <= j.at /\ j.at < j.hi /\ j.hi <= n
  BY <1>1 DEF JobsInv, Busy, JobType
<1>3. /\ k \in JobType /\ k.kind = j.kind /\ k.lo = j.lo /\ k.hi = j.hi /\ k.at = j.at + 1
      /\ j.at <= k.at
      /\ \/ k.at < k.hi /\ jobs' = (jobs \ {j}) \cup {k}
         \/ k.at >= k.hi /\ jobs' = jobs \ {j}
  BY <1>1, <1>2 DEF JobType, Proceed
<1>4. j.at + 1 \in 1 .. n /\ done + (j.at + 1) = done + j.at + 1 /\ j.at + 1 = k.at /\ j.at \in Nat
  <2>1. j.at \in Nat /\ j.hi \in Nat /\ done \in Nat /\ n \in Nat
    BY <1>2, WindowData DEF JobType
  <2>2. QED
    BY <1>2, <1>3, <2>1
<1> HIDE DEF k
<1>5. /\ JobsInv'
      /\ \A kind, x : kind # "hash" => (Ahead(kind, x)' <=> Ahead(kind, x))
      /\ \A x \in Nat : Ahead("hash", x) =>
            Ahead("hash", x)' \/ (j.at < x /\ x <= k.at /\ x <= j.hi)
  BY <1>1, <1>2, <1>3, JobStep
<1>6. BatchInv'
  BY <1>1 DEF BatchInv, Busy, Before
<1>7. HashesInv'
  <2> DEFINE at == done + j.at + 1
  <2>1. /\ file \in Files /\ file \in Nat /\ done \in Nat /\ n \in Nat
        /\ at \in 1 .. Totals[file] /\ at > done /\ at <= done + n
    <3>1. /\ file \in Files /\ done \in Nat /\ n \in Nat /\ Totals[file] \in Nat
          /\ done + n <= Totals[file]
      BY <1>2, WindowData
    <3>2. QED
      BY <1>4, <3>1, FilesType
  <2>2. DOMAIN hashes = Files /\ DOMAIN hashes[file] = 1 .. Totals[file]
    BY <1>2, <2>1 DEF HashesInv
  <2> HIDE DEF at
  <2>3. /\ DOMAIN hashes' = Files
        /\ \A f \in Files : f # file => hashes'[f] = hashes[f]
        /\ DOMAIN hashes'[file] = 1 .. Totals[file]
        /\ \A i \in 1 .. Totals[file] :
              hashes'[file][i] = IF i = at THEN window[j.at + 1] ELSE hashes[file][i]
    BY <1>1, <2>1, <2>2 DEF at
  <2>4. window[j.at + 1] \in SliceData
    BY <1>2, <1>4, WindowData DEF BatchInv
  <2>5. \A f \in Files : \A i \in DOMAIN hashes'[f] : hashes'[f][i] \in SliceData \cup {Unset}
    BY <2>2, <2>3, <2>4 DEF HashesInv
  <2>6. \A f \in Files :
          /\ f < file =>
              DOMAIN hashes'[f] = 1 .. Totals[f] /\ \A i \in 1 .. Totals[f] : Hash(f, i, hashes'[f][i])
          /\ f > file => hashes'[f] = << >>
    BY <1>2, <2>1, <2>3, FilesType DEF HashesInv
  <2>7. /\ \A i \in 1 .. done : Hash(file, i, hashes[file][i])
        /\ \A i \in 1 .. Totals[file] : i > done + n => hashes[file][i] = Unset
    BY <1>2, <2>1 DEF HashesInv
  <2>8. /\ \A i \in 1 .. done : hashes'[file][i] = hashes[file][i]
        /\ \A i \in 1 .. Totals[file] : i > done + n => hashes'[file][i] = hashes[file][i]
    <3>1. \A i \in 1 .. done : i \in 1 .. Totals[file] /\ i # at
      BY <2>1, FilesType
    <3>2. QED
      BY <2>1, <2>3, <3>1
  <2>9. ASSUME NEW i \in 1 .. n
        PROVE  Ahead("hash", i)' \/ hashes'[file][done + i] = window[i]
    <3>1. done + i \in 1 .. Totals[file] /\ (done + i = at <=> i = j.at + 1) /\ i \in Nat
      BY <1>2, <1>4, <2>1, WindowData DEF at
    <3>2. CASE i = j.at + 1
      BY <2>3, <3>1, <3>2
    <3>3. CASE i # j.at + 1
      <4>1. Ahead("hash", i) => Ahead("hash", i)'
        BY <1>4, <1>5, <3>1, <3>3
      <4>2. Ahead("hash", i) \/ hashes[file][done + i] = window[i]
        BY <1>2 DEF HashesInv
      <4>3. QED
        BY <2>3, <3>1, <3>3, <4>1, <4>2
    <3>4. QED
      BY <3>2, <3>3
  <2>10. QED
    BY <1>1, <1>2, <2>3, <2>5, <2>6, <2>7, <2>8, <2>9 DEF HashesInv, Hash, Busy
<1>8. WholeInv'
  BY <1>1, <1>5 DEF WholeInv, Prefix, Encoded
<1>9. RecoveryInv'
  <2>1. \A l \in jobs' : l.kind = "code" => l \in jobs
    BY <1>1, <1>3
  <2>2. \A x : Ahead("code", x)' <=> Ahead("code", x)
    BY <1>5
  <2>3. \A m : Upto(m)' = Upto(m)
    BY <1>1 DEF Upto, Taken, Encoded, Before
  <2>4. QED
    BY <1>1, <1>2, <2>1, <2>2, <2>3 DEF RecoveryInv
<1>10. QED
  BY <1>1, <1>2, <1>5, <1>6, <1>7, <1>8, <1>9

LEMMA CodeLoadInv ==
  ASSUME IInv, NEW j \in jobs, CodeLoad(j),
         UNCHANGED <<inputs, pc, file, base, done, n, read, window>>
  PROVE  IInv'
<1> USE DEF IInv, inputs, outputs
<1> DEFINE k == [j EXCEPT !.loaded = TRUE, !.acc = recovery[j.at + 1]]
<1>1. /\ j.kind = "code" /\ ~j.loaded /\ jobs' = (jobs \ {j}) \cup {k}
      /\ UNCHANGED <<length, workers, pc, file, base, done, n, read, window, outputs>>
  BY DEF CodeLoad
<1>2. /\ Busy /\ pc = "wait" /\ j \in JobType
      /\ j.lo <= j.at /\ j.at < j.hi /\ j.hi <= Count /\ j.i < n
  BY <1>1 DEF JobsInv, Busy, JobType
<1>3. j.at + 1 \in 1 .. Count /\ j.at \in Nat
  BY <1>2, EncodeAssumption DEF JobType
<1>4. /\ k \in JobType /\ k.kind = j.kind /\ k.lo = j.lo /\ k.hi = j.hi /\ k.at = j.at
      /\ k.i = j.i /\ k.loaded /\ k.acc = recovery[j.at + 1]
      /\ j.at <= k.at /\ k.at < k.hi
  <2>1. recovery[j.at + 1] \in SUBSET Terms
    BY <1>3 DEF RecoveryInv
  <2>2. ASSUME NEW r \in SUBSET Terms, NEW l, l = [j EXCEPT !.loaded = TRUE, !.acc = r]
        PROVE  /\ l \in JobType /\ l.kind = j.kind /\ l.lo = j.lo /\ l.hi = j.hi
               /\ l.at = j.at /\ l.i = j.i /\ l.loaded /\ l.acc = r
    BY <1>2, <2>2 DEF JobType
  <2> DEFINE r == recovery[j.at + 1]
  <2>3. r \in SUBSET Terms /\ k = [j EXCEPT !.loaded = TRUE, !.acc = r]
    BY <2>1
  <2> HIDE DEF k, r
  <2>4. /\ k \in JobType /\ k.kind = j.kind /\ k.lo = j.lo /\ k.hi = j.hi /\ k.at = j.at
        /\ k.i = j.i /\ k.loaded /\ k.acc = r
    BY <2>2, <2>3
  <2>5. j.at <= k.at /\ k.at < k.hi
    BY <1>2, <1>3, <2>4
  <2>6. QED
    BY <2>4, <2>5 DEF r
<1> HIDE DEF k
<1>5. /\ JobsInv'
      /\ \A kind, x : kind # "code" => (Ahead(kind, x)' <=> Ahead(kind, x))
      /\ \A x \in Nat : Ahead("code", x) =>
            Ahead("code", x)' \/ (j.at < x /\ x <= k.at /\ x <= j.hi)
  BY <1>1, <1>2, <1>4, JobStep
<1>6. BatchInv'
  BY <1>1 DEF BatchInv, Busy, Before
<1>7. HashesInv'
  BY <1>1, <1>5 DEF HashesInv, Hash, Busy
<1>8. WholeInv'
  BY <1>1, <1>5 DEF WholeInv, Prefix, Encoded
<1>9. RecoveryInv'
  <2>1. \A x \in 1 .. Count : ~Ahead("code", x)' => ~Ahead("code", x)
    BY <1>3, <1>4, <1>5
  <2>2. \A l \in jobs' : l = k \/ l \in jobs
    BY <1>1
  <2>3. \A m : Upto(m)' = Upto(m)
    BY <1>1 DEF Upto, Taken, Encoded, Before
  <2>4. \A x \in 1 .. Count : \A l \in jobs : l.kind = "code" =>
          /\ l.at + 1 = x =>
              recovery[x] = Upto(done + l.i) /\ (l.loaded => l.acc = recovery[x])
          /\ l.at + 1 < x /\ x <= l.hi => recovery[x] = Upto(done)
    BY <1>2 DEF RecoveryInv
  <2>5. \A x \in 1 .. Count : \A l \in jobs' : l.kind = "code" =>
          /\ l.at + 1 = x =>
              recovery[x] = Upto(done + l.i) /\ (l.loaded => l.acc = recovery[x])
          /\ l.at + 1 < x /\ x <= l.hi => recovery[x] = Upto(done)
    BY <1>1, <1>4, <2>2, <2>4
  <2>6. QED
    BY <1>1, <1>2, <2>1, <2>3, <2>5 DEF RecoveryInv
<1>10. QED
  BY <1>1, <1>2, <1>5, <1>6, <1>7, <1>8, <1>9

\* Slice i of the window is what a recovery slice lacks that has those before.
LEMMA AddTerm ==
  ASSUME BatchInv, Busy, NEW i \in Nat, i < n
  PROVE  Upto(done + (i + 1)) =
           IF window[i + 1] = Pad THEN Upto(done + i)
           ELSE Toggle(Upto(done + i), <<base + done + i + 1, window[i + 1]>>)
<1> DEFINE d == done + i + 1
           t == <<Before(file) + d, <<file, d>>>>
<1>1. /\ file \in Files /\ length[file] \in Nat /\ Totals[file] \in Nat
      /\ done \in Nat /\ n \in Nat /\ d \in Nat /\ d >= 1 /\ d <= Totals[file]
      /\ done + (i + 1) = d /\ base = Before(file) /\ base \in Nat
      /\ length \in [Files -> Nat] /\ i + 1 \in 1 .. n
  <2>1. /\ file \in Files /\ length[file] \in Nat /\ Totals[file] \in Nat
        /\ done \in Nat /\ n \in Nat /\ done + n <= Totals[file]
    BY WindowData
  <2>2. base = Before(file) /\ base \in Nat /\ length \in [Files -> Nat]
    BY BeforeType DEF BatchInv
  <2>3. QED
    BY <2>1, <2>2
<1>2. /\ window[i + 1] = IF i + 1 <= read THEN <<file, d>> ELSE Pad
      /\ i + 1 <= read <=> d <= length[file]
      /\ <<file, d>> # Pad
  BY <1>1, WindowData, SliceIsData
<1>3. base + done + i + 1 = Before(file) + d
  BY <1>1
<1> HIDE DEF d
<1>4. \A f \in Files : \A e \in 1 .. Encoded(f) : f = file => (e <= d <=> e <= done + i \/ e = d)
  <2>1. \A e \in Nat : e <= d <=> e <= done + i \/ e = d
    BY <1>1 DEF d
  <2>2. \A f \in Files : \A e \in 1 .. Encoded(f) : e \in Nat
    BY <1>1, EncodedType
  <2>3. QED
    BY <2>1, <2>2
<1>5. <<file, d>> \notin Taken(done + i)
  <2>1. ~(d <= done + i) /\ ~(file < file)
    BY <1>1, FilesType DEF d
  <2>2. QED
    BY <2>1, TakenElement
<1>6. CASE d <= length[file]
  <2>1. d \in 1 .. Encoded(file)
    BY <1>1, <1>6, EncodedType
  <2>2. Taken(d) = Taken(done + i) \cup {<<file, d>>}
    BY <1>1, <1>4, <2>1 DEF Taken
  <2>3. Upto(d) = Upto(done + i) \cup {t}
    BY <2>2 DEF Upto
  <2>4. t \notin Upto(done + i)
    BY <1>5 DEF Upto
  <2>5. QED
    BY <1>1, <1>2, <1>3, <1>6, <2>3, <2>4 DEF Toggle
<1>7. CASE ~(d <= length[file])
  <2>1. d \notin 1 .. Encoded(file)
    BY <1>1, <1>7, EncodedType
  <2>2. Taken(d) = Taken(done + i)
    BY <1>1, <1>4, <2>1 DEF Taken
  <2>3. QED
    BY <1>1, <1>2, <1>7, <2>2 DEF Upto
<1>8. QED
  BY <1>6, <1>7

LEMMA CodeStoreInv ==
  ASSUME IInv, NEW j \in jobs, CodeStore(j),
         UNCHANGED <<inputs, pc, file, base, done, n, read, window>>
  PROVE  IInv'
<1> USE DEF IInv, inputs
<1> DEFINE slice == [j EXCEPT !.i = j.i + 1, !.loaded = FALSE, !.acc = {}]
           item == [j EXCEPT !.at = j.at + 1, !.i = 0, !.loaded = FALSE, !.acc = {}]
           k == IF j.i + 1 < n THEN slice ELSE item
           w == window[j.i + 1]
           sum == IF w = Pad THEN j.acc ELSE Toggle(j.acc, <<base + done + j.i + 1, w>>)
<1>1. /\ j.kind = "code" /\ j.loaded /\ Proceed(j, k)
      /\ recovery' = [recovery EXCEPT ![j.at + 1] = sum]
      /\ UNCHANGED <<length, workers, pc, file, base, done, n, read, window, hashes, whole>>
  BY DEF CodeStore
<1>2. /\ Busy /\ pc = "wait" /\ j \in JobType
      /\ j.lo <= j.at /\ j.at < j.hi /\ j.hi <= Count /\ j.i < n
      /\ \A l \in jobs : l # j => l.kind # "code" \/ j.hi <= l.lo \/ l.hi <= j.lo
  BY <1>1 DEF JobsInv, Busy, JobType
<1>3. /\ j.at + 1 \in 1 .. Count /\ j.at \in Nat /\ j.hi \in Nat /\ j.i \in Nat
      /\ n \in Nat /\ done \in Nat /\ n > 0
  BY <1>2, EncodeAssumption, WindowData DEF JobType
\* What becomes of the goroutine.
<1>4. /\ k \in JobType /\ k.kind = j.kind /\ k.lo = j.lo /\ k.hi = j.hi /\ j.at <= k.at
      /\ k.i < n /\ ~k.loaded
      /\ \/ k.at = j.at /\ k.i = j.i + 1
         \/ k.at = j.at + 1 /\ k.i = 0 /\ j.i + 1 = n
  <2>1. {} \in SUBSET Terms
    OBVIOUS
  <2>2. CASE j.i + 1 < n
    <3>1. k = slice
      BY <2>2
    <3> HIDE DEF k
    <3>2. ASSUME NEW r \in SUBSET Terms, NEW l,
                 l = [j EXCEPT !.i = j.i + 1, !.loaded = FALSE, !.acc = r]
          PROVE  /\ l \in JobType /\ l.kind = j.kind /\ l.lo = j.lo /\ l.hi = j.hi
                 /\ l.at = j.at /\ l.i = j.i + 1 /\ ~l.loaded
      <4>1. FALSE \in BOOLEAN /\ j.at + 1 \in Nat /\ j.i + 1 \in Nat
        BY <1>3
      <4>2. l \in JobType
        BY <1>2, <1>3, <3>2, <4>1 DEF JobType
      <4>3. l.kind = j.kind /\ l.lo = j.lo /\ l.hi = j.hi /\ l.at = j.at /\ l.i = j.i + 1
        BY <1>2, <3>2 DEF JobType
      <4>4. l.loaded = FALSE
        BY <1>2, <3>2 DEF JobType
      <4>5. QED
        BY <4>2, <4>3, <4>4
    <3>3. /\ k \in JobType /\ k.kind = j.kind /\ k.lo = j.lo /\ k.hi = j.hi
          /\ k.at = j.at /\ k.i = j.i + 1 /\ ~k.loaded
      BY <2>1, <3>1, <3>2
    <3>4. QED
      BY <1>3, <2>2, <3>3
  <2>3. CASE ~(j.i + 1 < n)
    <3>1. k = item /\ j.i + 1 = n
      BY <1>2, <1>3, <2>3
    <3> HIDE DEF k
    <3>2. ASSUME NEW r \in SUBSET Terms, NEW l,
                 l = [j EXCEPT !.at = j.at + 1, !.i = 0, !.loaded = FALSE, !.acc = r]
          PROVE  /\ l \in JobType /\ l.kind = j.kind /\ l.lo = j.lo /\ l.hi = j.hi
                 /\ l.at = j.at + 1 /\ l.i = 0 /\ ~l.loaded
      <4>1. FALSE \in BOOLEAN /\ j.at + 1 \in Nat /\ j.i + 1 \in Nat
        BY <1>3
      <4>2. l \in JobType
        BY <1>2, <1>3, <3>2, <4>1 DEF JobType
      <4>3. l.kind = j.kind /\ l.lo = j.lo /\ l.hi = j.hi /\ l.at = j.at + 1 /\ l.i = 0
        BY <1>2, <3>2 DEF JobType
      <4>4. l.loaded = FALSE
        BY <1>2, <3>2 DEF JobType
      <4>5. QED
        BY <4>2, <4>3, <4>4
    <3>3. /\ k \in JobType /\ k.kind = j.kind /\ k.lo = j.lo /\ k.hi = j.hi
          /\ k.at = j.at + 1 /\ k.i = 0 /\ ~k.loaded
      BY <2>1, <3>1, <3>2
    <3>4. QED
      BY <1>3, <3>1, <3>3
  <2>4. QED
    BY <2>2, <2>3
<1>5. \/ k.at < k.hi /\ jobs' = (jobs \ {j}) \cup {k}
      \/ k.at >= k.hi /\ jobs' = jobs \ {j}
  <2> HIDE DEF k
  <2>1. k.at \in Nat /\ k.hi \in Nat
    BY <1>4 DEF JobType
  <2>2. QED
    BY <1>1, <2>1 DEF Proceed
<1> HIDE DEF k
<1>6. /\ JobsInv'
      /\ \A kind, x : kind # "code" => (Ahead(kind, x)' <=> Ahead(kind, x))
      /\ \A x \in Nat : Ahead("code", x) =>
            Ahead("code", x)' \/ (j.at < x /\ x <= k.at /\ x <= j.hi)
  BY <1>1, <1>2, <1>4, <1>5, JobStep
<1>7. BatchInv'
  BY <1>1 DEF BatchInv, Busy, Before
<1>8. HashesInv'
  BY <1>1, <1>6 DEF HashesInv, Hash, Busy
<1>9. WholeInv'
  BY <1>1, <1>6 DEF WholeInv, Prefix, Encoded
\* What becomes of the recovery slices.
<1>10. sum = Upto(done + (j.i + 1))
  <2>1. j.acc = Upto(done + j.i)
    BY <1>1, <1>2, <1>3 DEF RecoveryInv
  <2>2. QED
    BY <1>2, <1>3, <2>1, AddTerm
<1> HIDE DEF sum
<1>11. /\ recovery' \in [1 .. Count -> SUBSET Terms]
       /\ recovery'[j.at + 1] = Upto(done + (j.i + 1))
       /\ \A x \in 1 .. Count : x # j.at + 1 => recovery'[x] = recovery[x]
  <2>1. Upto(done + (j.i + 1)) \in SUBSET Terms
    <3>1. \A s \in Taken(done + (j.i + 1)) : Before(s[1]) + s[2] \in Nat /\ s \in Files \X Nat
      <4>1. ASSUME NEW f \in Files, NEW e \in 1 .. Encoded(f)
            PROVE  Before(f) + e \in Nat /\ e \in Nat
        <5>1. f \in 1 .. Len(Totals) + 1
          BY FilesType
        <5>2. Before(f) \in Nat /\ e \in Nat
          BY <5>1, BeforeType
        <5>3. QED
          BY <5>2
      <4>2. QED
        BY <4>1 DEF Taken
    <3>2. QED
      BY <3>1 DEF Upto, Terms
  <2>2. QED
    BY <1>1, <1>3, <1>10, <2>1 DEF RecoveryInv
<1>12. ASSUME NEW x \in 1 .. Count, NEW l \in jobs', l.kind = "code"
       PROVE  /\ l.at + 1 = x =>
                   recovery'[x] = Upto(done + l.i) /\ (l.loaded => l.acc = recovery'[x])
              /\ l.at + 1 < x /\ x <= l.hi => recovery'[x] = Upto(done)
  <2>1. CASE l = k
    <3>1. CASE k.at = j.at /\ k.i = j.i + 1
      <4>1. x > j.at + 1 /\ x <= j.hi => recovery[x] = Upto(done)
        BY <1>1, <1>2, <1>3 DEF RecoveryInv
      <4>2. QED
        BY <1>3, <1>4, <1>11, <2>1, <3>1, <4>1
    <3>2. CASE k.at = j.at + 1 /\ k.i = 0
      <4>1. x > j.at + 1 /\ x <= j.hi => recovery[x] = Upto(done)
        BY <1>1, <1>2, <1>3 DEF RecoveryInv
      <4>2. k.at < j.hi /\ done + 0 = done
        BY <1>3, <1>4, <1>5, <1>12, <2>1, <3>2 DEF JobsInv
      <4>3. QED
        BY <1>3, <1>4, <1>11, <2>1, <3>2, <4>1, <4>2
    <3>3. QED
      BY <1>4, <3>1, <3>2
  <2>2. CASE l # k
    <3>1. l \in jobs /\ l # j
      BY <1>5, <2>2
    <3>2. /\ l \in JobType /\ l.lo <= l.at /\ l.at < l.hi
          /\ j.hi <= l.lo \/ l.hi <= j.lo
      BY <1>2, <1>12, <3>1 DEF JobsInv
    <3>3. l.at < x /\ x <= l.hi => x # j.at + 1
      BY <1>2, <1>3, <3>2 DEF JobType
    <3>4. /\ l.at + 1 = x =>
                recovery[x] = Upto(done + l.i) /\ (l.loaded => l.acc = recovery[x])
          /\ l.at + 1 < x /\ x <= l.hi => recovery[x] = Upto(done)
      BY <1>2, <1>12, <3>1 DEF RecoveryInv
    <3>5. /\ l.at + 1 = x => l.at < x /\ x <= l.hi
          /\ l.at + 1 < x => l.at < x
      BY <3>2 DEF JobType
    <3>6. QED
      BY <1>11, <3>3, <3>4, <3>5
  <2>3. QED
    BY <2>1, <2>2
<1>13. ASSUME NEW x \in 1 .. Count, ~Ahead("code", x)'
       PROVE  recovery'[x] = Upto(done + n)
  <2>1. CASE Ahead("code", x)
    <3>1. j.at < x /\ x <= k.at
      BY <1>6, <1>13, <2>1
    <3>2. x = j.at + 1 /\ j.i + 1 = n
      BY <1>3, <1>4, <3>1
    <3>3. QED
      BY <1>11, <3>2
  <2>2. CASE ~Ahead("code", x)
    <3>1. x # j.at + 1
      BY <1>1, <1>2, <1>3, <2>2 DEF Ahead
    <3>2. QED
      BY <1>2, <1>11, <2>2, <3>1 DEF RecoveryInv
  <2>3. QED
    BY <2>1, <2>2
<1>14. RecoveryInv'
  <2>1. \A m : Upto(m)' = Upto(m)
    BY <1>1 DEF Upto, Taken, Encoded, Before
  <2>2. QED
    BY <1>1, <1>2, <1>11, <1>12, <1>13, <2>1 DEF RecoveryInv
<1>15. QED
  BY <1>1, <1>2, <1>6, <1>7, <1>8, <1>9, <1>14

-----------------------------------------------------------------------------
(***************************************************************************)
(* The theorems.                                                           *)
(***************************************************************************)
LEMMA NextInv == IInv /\ [Next]_vars => IInv'
<1> SUFFICES ASSUME IInv, [Next]_vars
             PROVE  IInv'
  OBVIOUS
<1>1. CASE Main
  BY <1>1, OpenFileInv, ReadBatchInv, FileEndsInv, SpawnWholeInv, SpawnHashInv,
     SpawnCodeInv, WaitInv DEF Main
<1>2. CASE ReadFails
  BY <1>2, ReadFailsInv
<1>3. CASE Goroutine
  <2>1. PICK j \in jobs : HashWhole(j) \/ HashSlice(j) \/ CodeLoad(j) \/ CodeStore(j)
    BY <1>3 DEF Goroutine
  <2>2. UNCHANGED <<inputs, pc, file, base, done, n, read, window>>
    BY <1>3 DEF Goroutine
  <2>3. QED
    BY <2>1, <2>2, HashWholeInv, HashSliceInv, CodeLoadInv, CodeStoreInv
<1>4. CASE UNCHANGED vars
  <2>1. BatchInv' /\ JobsInv'
    BY <1>4 DEF IInv, vars, BatchInv, JobsInv, Busy, Before
  <2>2. HashesInv' /\ WholeInv'
    BY <1>4 DEF IInv, vars, HashesInv, WholeInv, Busy, Ahead, Hash, Prefix, Encoded
  <2>3. RecoveryInv'
    BY <1>4 DEF IInv, vars, RecoveryInv, Ahead, Upto, Taken, Encoded, Before
  <2>4. ChecksumsMatchRecovery' <=> ChecksumsMatchRecovery
    BY <1>4 DEF vars, ChecksumsMatchRecovery, Hashed, Before
  <2>5. QED
    BY <1>4, <2>1, <2>2, <2>3, <2>4 DEF IInv, vars
<1>5. QED
  BY <1>1, <1>2, <1>3, <1>4 DEF Next, Returned

LEMMA Invariant == Spec => []IInv
BY InitInv, NextInv, PTL DEF Spec

\* Between the steps of Create and of its goroutines, every variable has its
\* type, no batch goes past the end of a file, and every goroutine is at an
\* item of its own part. (encode.go:113-225)
THEOREM TypeCorrect == Spec => []TypeOK
<1>1. IInv => TypeOK
  <2> SUFFICES ASSUME IInv
               PROVE  TypeOK
    OBVIOUS
  <2>1. /\ length \in [Files -> Nat] /\ workers \in Budgets
        /\ pc \in {"open", "read", "whole", "slices", "encode", "wait", "done", "failed"}
        /\ file \in 1 .. Len(Totals) + 1
        /\ pc \in {"whole", "slices", "encode", "wait"} => done + n <= Totals[file]
        /\ read \in 0 .. n
        /\ \A k \in DOMAIN window : window[k] \in SliceData
    BY DEF IInv, BatchInv, Busy
  <2>2. base \in Nat
    BY BeforeType DEF IInv, BatchInv
  <2>3. \A j \in jobs : j.kind \in {"whole", "hash", "code"} /\ j.at \in j.lo .. j.hi - 1
    BY DEF IInv, JobsInv, JobType
  <2>4. /\ \A f \in Files : \A i \in DOMAIN hashes[f] : hashes[f][i] \in SliceData \cup {Unset}
        /\ \A f \in Files : whole[f] \in Seq(SliceData \ {Pad})
        /\ \A x \in 1 .. Count : recovery[x] \subseteq Terms
    BY DEF IInv, HashesInv, WholeInv, RecoveryInv
  <2>5. QED
    BY <2>1, <2>2, <2>3, <2>4 DEF TypeOK
<1>2. QED
  BY Invariant, <1>1, PTL

\* Whatever the number of workers, no two goroutines that are at work at the
\* same time ever write to one SliceHash, to one recovery slice or to the
\* whole-file hash. (encode.go:163-172, :206-225)
THEOREM EachHasItsOwnOutput == Spec => []OwnOutput
<1>1. IInv => OwnOutput
  <2> SUFFICES ASSUME IInv, NEW j \in jobs, NEW k \in jobs, j # k, j.kind = k.kind
               PROVE  j.at # k.at
    BY DEF OwnOutput
  <2>1. /\ j \in JobType /\ k \in JobType
        /\ j.hi <= k.lo \/ k.hi <= j.lo
        /\ j.lo <= j.at /\ j.at < j.hi /\ k.lo <= k.at /\ k.at < k.hi
    BY DEF IInv, JobsInv
  <2>2. QED
    BY <2>1 DEF JobType
<1>2. QED
  BY Invariant, <1>1, PTL

\* For files of any size that shrink or grow after they were identified, every
\* number of workers and every schedule: whenever no goroutine is at work, a
\* recovery slice holds exactly the slices that have checksums, each of them
\* once and under its own coefficient. (encode.go:171-194)
THEOREM RecoveryIsWhatHasChecksums == Spec => []ChecksumsMatchRecovery
<1>1. IInv => ChecksumsMatchRecovery
  BY ChecksumsMatch
<1>2. QED
  BY Invariant, <1>1, PTL

\* When Create is done, whatever the schedule of its goroutines, each file was
\* hashed in order and up to its end, and each of its slices has its checksums
\* and is in each recovery slice. (encode.go:64-66)
THEOREM ScheduleIsIrrelevant == Spec => []ResultIsSequential
<1>1. IInv => ResultIsSequential
  <2> SUFFICES ASSUME IInv, pc = "done", NEW f \in Files
               PROVE  /\ whole[f] = [i \in 1 .. Encoded(f) |-> <<f, i>>]
                      /\ \A i \in 1 .. Encoded(f) :
                          /\ hashes[f][i] = <<f, i>>
                          /\ \A x \in 1 .. Count : <<Before(f) + i, <<f, i>>>> \in recovery[x]
    BY DEF ResultIsSequential
  <2>1. f < file /\ length \in [Files -> Nat]
    BY FilesType DEF IInv, BatchInv
  <2>2. whole[f] = [i \in 1 .. Encoded(f) |-> <<f, i>>]
    BY <2>1 DEF IInv, WholeInv, Prefix
  <2>3. ASSUME NEW i \in 1 .. Encoded(f)
        PROVE  hashes[f][i] = <<f, i>>
    <3>1. i \in 1 .. Totals[f] /\ i <= length[f]
      BY <2>1, EncodedType, FilesType
    <3>2. QED
      BY <2>1, <3>1 DEF IInv, HashesInv, Hash
  <2>4. ASSUME NEW i \in 1 .. Encoded(f), NEW x \in 1 .. Count
        PROVE  <<Before(f) + i, <<f, i>>>> \in recovery[x]
    <3>1. <<f, i>> \in Taken(0)
      BY <2>1, TakenElement
    <3>2. QED
      BY <3>1 DEF IInv, RecoveryInv, Upto
  <2>5. QED
    BY <2>2, <2>3, <2>4
<1>2. QED
  BY Invariant, <1>1, PTL

-----------------------------------------------------------------------------
(***************************************************************************)
(* From the recovery slices back to what was lost.                         *)
(***************************************************************************)

\* The slices of a file are numbered after those of the files before it.
LEMMA BeforeGrows ==
    \A f, h \in Files : f < h => Before(f) + Totals[f] <= Before(h)
<1> DEFINE N == Len(Totals)
           P == { k \in Nat : \A f \in Files : f + 1 + k <= N + 1 => Before(f + 1) <= Before(f + 1 + k) }
<1>1. /\ N \in Nat /\ Files = 1 .. N /\ \A f \in Files : Totals[f] \in Nat
      /\ \A f \in 1 .. N + 1 : Before(f) \in Nat
      /\ \A f \in Files : Before(f + 1) = Before(f) + Totals[f]
  BY FilesType, BeforeType
<1> HIDE DEF N
<1>2. 0 \in P
  <2> SUFFICES ASSUME NEW f \in Files PROVE Before(f + 1) <= Before(f + 1 + 0)
    OBVIOUS
  <2>1. f + 1 \in 1 .. N + 1 /\ f + 1 + 0 = f + 1
    BY <1>1
  <2>2. Before(f + 1) \in Nat
    BY <1>1, <2>1
  <2> QED
    BY <2>1, <2>2
<1>3. ASSUME NEW k \in Nat, k \in P PROVE k + 1 \in P
  <2> SUFFICES ASSUME NEW f \in Files, f + 1 + (k + 1) <= N + 1
               PROVE  Before(f + 1) <= Before(f + 1 + (k + 1))
    OBVIOUS
  <2> DEFINE h == f + 1 + k
  <2>1. h \in Files /\ h + 1 = f + 1 + (k + 1) /\ h <= N + 1 /\ f + 1 \in 1 .. N + 1 /\ h \in 1 .. N + 1 /\ h + 1 \in 1 .. N + 1
    BY <1>1
  <2>2. Before(f + 1) <= Before(h)
    BY <1>3, <2>1
  <2> HIDE DEF h
  <2>3. Before(h + 1) = Before(h) + Totals[h] /\ Before(h) \in Nat /\ Totals[h] \in Nat /\ Before(f + 1) \in Nat
    BY <1>1, <2>1
  <2>4. Before(f + 1) <= Before(h + 1)
    BY <2>2, <2>3
  <2> QED
    BY <2>1, <2>4
<1> HIDE DEF P
<1>4. Nat \subseteq P
  BY <1>2, <1>3, NatSetInduction
<1>5. ASSUME NEW f \in Files, NEW h \in Files, f < h PROVE Before(f) + Totals[f] <= Before(h)
  <2> DEFINE k == h - (f + 1)
  <2>1. k \in Nat /\ f + 1 + k = h /\ h <= N + 1
    BY <1>1, <1>5
  <2> HIDE DEF k
  <2>2. k \in P
    BY <1>4, <2>1
  <2>3. Before(f + 1) <= Before(f + 1 + k)
    BY <2>1, <2>2 DEF P
  <2> QED
    BY <1>1, <2>1, <2>3
<1> QED
  BY <1>5

\* Every slice has one global index, and every global index is that of a slice.
LEMMA GlobalIndex ==
    /\ IsFiniteSet(Globals) /\ Cardinality(Globals) \in Nat /\ Globals = 1 .. Cardinality(Globals)
    /\ \A f \in Files : \A i \in 1 .. Totals[f] : Before(f) + i \in Globals
    /\ \A g \in Globals : \E f \in Files : \E i \in 1 .. Totals[f] : g = Before(f) + i
    /\ \A f \in Files : \A i \in 1 .. Totals[f] : SliceAt(Before(f) + i) = <<f, i>>
<1> DEFINE N == Len(Totals)
           P == { m \in Nat : m <= N => \A g \in 1 .. Before(m + 1) :
                                            \E f \in Files : \E i \in 1 .. Totals[f] : g = Before(f) + i }
<1>1. /\ N \in Nat /\ Files = 1 .. N /\ \A f \in Files : Totals[f] \in Nat
      /\ \A f \in 1 .. N + 1 : Before(f) \in Nat
      /\ \A f \in Files : Before(f + 1) = Before(f) + Totals[f]
      /\ Before(1) = 0
  BY FilesType, BeforeType
<1> HIDE DEF N
<1>2. Globals = 1 .. Before(N + 1) /\ Before(N + 1) \in Nat
  <2>1. N + 1 \in 1 .. N + 1
    BY <1>1
  <2> QED
    BY <1>1, <2>1 DEF Globals, N
<1>3. IsFiniteSet(Globals) /\ Cardinality(Globals) = Before(N + 1)
  BY <1>2, FS_Interval
<1>4. 0 \in P
  BY <1>1
<1>5. ASSUME NEW m \in Nat, m \in P PROVE m + 1 \in P
  <2> SUFFICES ASSUME m + 1 <= N, NEW g \in 1 .. Before((m + 1) + 1)
               PROVE  \E f \in Files : \E i \in 1 .. Totals[f] : g = Before(f) + i
    OBVIOUS
  <2>1. m + 1 \in Files /\ m <= N /\ m + 1 \in 1 .. N + 1
    BY <1>1
  <2>2. Before((m + 1) + 1) = Before(m + 1) + Totals[m + 1] /\ Before(m + 1) \in Nat /\ Totals[m + 1] \in Nat
    BY <1>1, <2>1
  <2>3. CASE g <= Before(m + 1)
    <3>1. g \in 1 .. Before(m + 1)
      BY <2>2, <2>3
    <3> QED
      BY <1>5, <2>1, <3>1
  <2>4. CASE g > Before(m + 1)
    <3> DEFINE i == g - Before(m + 1)
    <3>1. i \in 1 .. Totals[m + 1] /\ g = Before(m + 1) + i
      BY <2>2, <2>4
    <3> QED
      BY <2>1, <3>1
  <2> QED
    BY <2>2, <2>3, <2>4
<1> HIDE DEF P
<1>6. Nat \subseteq P
  BY <1>4, <1>5, NatSetInduction
<1>7. \A g \in Globals : \E f \in Files : \E i \in 1 .. Totals[f] : g = Before(f) + i
  <2>1. N \in P
    BY <1>1, <1>6
  <2> QED
    BY <1>1, <1>2, <2>1 DEF P
<1>8. ASSUME NEW f \in Files, NEW i \in 1 .. Totals[f] PROVE Before(f) + i \in Globals
  <2>1. Before(f) + i \in Nat /\ Before(f) + i >= 1 /\ Before(f) + i <= Before(f) + Totals[f]
    BY <1>1
  <2>2. Before(f) + Totals[f] <= Before(N + 1)
    <3>1. CASE f = N
      BY <1>1, <1>2, <3>1
    <3>2. CASE f < N
      <4>1. N \in Files /\ Before(f) + Totals[f] <= Before(N)
        BY <1>1, <3>2, BeforeGrows
      <4>2. Before(N + 1) = Before(N) + Totals[N] /\ Totals[N] \in Nat /\ Before(N) \in Nat /\ Before(f) \in Nat /\ Totals[f] \in Nat
        BY <1>1, <4>1
      <4> QED
        BY <4>1, <4>2
    <3> QED
      BY <1>1, <3>1, <3>2
  <2> QED
    BY <1>1, <1>2, <2>1, <2>2
<1>9. ASSUME NEW f \in Files, NEW i \in 1 .. Totals[f], NEW h \in Files, NEW k \in 1 .. Totals[h],
             Before(f) + i = Before(h) + k
      PROVE  f = h /\ i = k
  <2>1. /\ Before(f) \in Nat /\ Before(h) \in Nat /\ Totals[f] \in Nat /\ Totals[h] \in Nat
        /\ f \in Nat /\ h \in Nat /\ i \in Nat /\ k \in Nat
    BY <1>1
  <2>2. ~(f < h)
    <3>1. f < h => Before(f) + Totals[f] <= Before(h)
      BY BeforeGrows
    <3> QED
      BY <1>9, <2>1, <3>1
  <2>3. ~(h < f)
    <3>1. h < f => Before(h) + Totals[h] <= Before(f)
      BY BeforeGrows
    <3> QED
      BY <1>9, <2>1, <3>1
  <2> QED
    BY <1>9, <2>1, <2>2, <2>3
<1>10. ASSUME NEW f \in Files, NEW i \in 1 .. Totals[f] PROVE SliceAt(Before(f) + i) = <<f, i>>
  <2> DEFINE S == UNION { {h} \X (1 .. Totals[h]) : h \in Files }
             Q(s) == Before(s[1]) + s[2] = Before(f) + i
             t == CHOOSE s \in S : Q(s)
  <2>1. <<f, i>> \in S /\ Q(<<f, i>>)
    OBVIOUS
  <2>2. SliceAt(Before(f) + i) = t
    BY DEF SliceAt
  <2>3. t \in S /\ Q(t)
    <3> HIDE DEF S, Q
    <3> QED
      BY <2>1
  <2> HIDE DEF t
  <2>a. PICK h \in Files : \E k \in 1 .. Totals[h] : t = <<h, k>>
    BY <2>3
  <2>4. PICK k \in 1 .. Totals[h] : t = <<h, k>>
    BY <2>a
  <2>5. Before(h) + k = Before(f) + i
    BY <2>3, <2>4
  <2>6. h = f /\ k = i
    BY <1>9, <2>5
  <2> QED
    BY <2>2, <2>4, <2>6
<1> QED
  BY <1>2, <1>3, <1>7, <1>8, <1>10

\* With whichever kernel, a slice is multiplied.
LEMMA TimesIs ==
    \A kernel \in Kernels : \A factor, w \in Words : Times(kernel, factor, w) = GfMul(factor, w)
<1> SUFFICES ASSUME NEW kernel \in Kernels, NEW factor \in Words, NEW w \in Words
             PROVE  Times(kernel, factor, w) = GfMul(factor, w)
  OBVIOUS
<1> DEFINE D == Kernels \X Words \X Words
           f == [p \in D |-> Product(p[2], p[1], p[3])]
<1>1. Products = f
  BY TabulatedIsSame DEF Products
<1>2. <<kernel, factor, w>> \in D
  OBVIOUS
<1>3. f[<<kernel, factor, w>>] = Product(factor, kernel, w)
  BY <1>2
<1> QED
  BY <1>1, <1>3, TablesMultiply DEF Times

\* No two slices have the same constant.
LEMMA ConstantsFacts ==
    /\ Constants \in [Globals -> NonZero]
    /\ \A g, h \in Globals : Constants[g] = Constants[h] => g = h
<1>1. Cardinality(Globals) \in Nat /\ Cardinality(Globals) <= Cardinality(Coprimes)
      /\ Globals = 1 .. Cardinality(Globals)
  BY GlobalIndex, RoundTripAssumption
<1> QED
  BY <1>1, ConstantsDiffer DEF Constants

LEMMA ExponentsFacts ==
    /\ Exponents \in SUBSET Nat /\ IsFiniteSet(Exponents)
    /\ \A e \in Exponents : Slot(e) \in 1 .. Count
<1>1. Count \in Nat /\ Firsts \in SUBSET Nat /\ IsFiniteSet(Firsts) /\ IsFiniteSet(1 .. Count)
  BY EncodeAssumption, RoundTripAssumption, FS_Interval
<1>2. \A first \in Firsts : \A x \in 1 .. Count : first + x - 1 \in Nat
  BY <1>1
<1>3. Exponents \in SUBSET Nat
  BY <1>2 DEF Exponents
<1>4. IsFiniteSet(Exponents)
  <2> DEFINE D == Firsts \X (1 .. Count)
             f == [p \in D |-> p[1] + p[2] - 1]
  <2>1. IsFiniteSet(D)
    BY <1>1, FS_Product
  <2>2. f \in [D -> Exponents]
    BY DEF Exponents
  <2>3. \A e \in Exponents : \E p \in D : f[p] = e
    <3> SUFFICES ASSUME NEW first \in Firsts, NEW x \in 1 .. Count
                 PROVE  \E p \in D : f[p] = first + x - 1
      BY DEF Exponents
    <3>1. <<first, x>> \in D /\ f[<<first, x>>] = first + x - 1
      OBVIOUS
    <3> HIDE DEF f, D
    <3> QED
      BY <3>1
  <2> HIDE DEF f, D
  <2>4. f \in Surjection(D, Exponents)
    BY <2>2, <2>3 DEF Surjection
  <2> QED
    BY <2>1, <2>4, FS_Surjection
<1>5. ASSUME NEW e \in Exponents PROVE Slot(e) \in 1 .. Count
  <2>1. \E x \in 1 .. Count : \E first \in Firsts : e = first + x - 1
    BY DEF Exponents
  <2> QED
    BY <2>1 DEF Slot
<1> QED
  BY <1>3, <1>4, <1>5

-----------------------------------------------------------------------------
(* What Create leaves behind. *)

LEMMA ContentIs ==
    ASSUME IInv, pc = "done", NEW f \in Files, NEW i \in 1 .. Totals[f]
    PROVE  /\ Word[<<f, i>>] \in Words /\ WordOf(<<f, i>>) = Word[<<f, i>>]
           /\ i \in 1 .. Encoded(f) => Content(Before(f) + i) = Word[<<f, i>>]
           /\ i \notin 1 .. Encoded(f) => Content(Before(f) + i) = {}
<1>1. f < file /\ length \in [Files -> Nat] /\ i \in Nat
  BY FilesType DEF IInv, BatchInv
<1>2. Hash(f, i, hashes[f][i])
  BY <1>1 DEF IInv, HashesInv
<1>3. i \in 1 .. Encoded(f) <=> i <= length[f]
  BY <1>1, EncodedType, FilesType
<1>4. Content(Before(f) + i) = WordOf(hashes[f][i])
  <2>1. SliceAt(Before(f) + i) = <<f, i>>
    BY GlobalIndex
  <2> QED
    BY <2>1 DEF Content
<1>5. <<f, i>> \notin {Pad, Unset}
  BY <1>1, EncodeAssumption
<1>6. Word[<<f, i>>] \in Words /\ WordOf(<<f, i>>) = Word[<<f, i>>]
  BY <1>5, WordAssumption DEF WordOf
<1>7. CASE i <= length[f]
  <2>1. hashes[f][i] = <<f, i>>
    BY <1>2, <1>7 DEF Hash
  <2> QED
    BY <1>3, <1>4, <1>6, <1>7, <2>1
<1>8. CASE ~(i <= length[f])
  <2>1. hashes[f][i] \in {Pad, Unset}
    BY <1>2, <1>8 DEF Hash
  <2>2. WordOf(hashes[f][i]) = {}
    BY <2>1 DEF WordOf
  <2> QED
    BY <1>3, <1>4, <1>6, <1>8, <2>2
<1> QED
  BY <1>7, <1>8

LEMMA ContentIsWord ==
    ASSUME IInv, pc = "done"
    PROVE  \A g \in Globals : Content(g) \in Words
<1> SUFFICES ASSUME NEW g \in Globals PROVE Content(g) \in Words
  OBVIOUS
<1>1. PICK f \in Files : \E i \in 1 .. Totals[f] : g = Before(f) + i
  BY GlobalIndex
<1>2. PICK i \in 1 .. Totals[f] : g = Before(f) + i
  BY <1>1
<1>3. {} \in Words
  BY LimitFacts
<1> QED
  BY <1>2, <1>3, ContentIs

\* What a slice adds to the recovery slice with exponent e.
Share(e) == [g \in Globals |-> GfMul(GfPow(Constants[g], e), Content(g))]

LEMMA ShareIsWord ==
    ASSUME IInv, pc = "done", NEW e \in Nat
    PROVE  \A g \in Globals : /\ GfPow(Constants[g], e) \in Words /\ Share(e)[g] \in Words
                              /\ Share(e)[g] = GfMul(GfPow(Constants[g], e), Content(g))
<1> SUFFICES ASSUME NEW g \in Globals
             PROVE  /\ GfPow(Constants[g], e) \in Words /\ Share(e)[g] \in Words
                    /\ Share(e)[g] = GfMul(GfPow(Constants[g], e), Content(g))
  OBVIOUS
<1>1. Constants[g] \in NonZero
  BY ConstantsFacts
<1>2. GfPow(Constants[g], e) \in Words
  BY <1>1, PowFacts DEF NonZero
<1>3. Content(g) \in Words
  BY ContentIsWord
<1>4. Share(e)[g] = GfMul(GfPow(Constants[g], e), Content(g))
  BY DEF Share
<1> QED
  BY <1>2, <1>3, <1>4, IsField

\* A recovery slice is the sum of what all slices add to it.
LEMMA RecoveryIs ==
    ASSUME IInv, pc = "done", NEW e \in Exponents, NEW kernel \in Kernels
    PROVE  RecoverySlice(e, kernel) = Total(Globals, Share(e))
<1> DEFINE x == Slot(e)
           R == recovery[x]
           G == { g \in Globals : \E f \in Files : \E i \in 1 .. Encoded(f) : g = Before(f) + i }
           b == [g \in G |-> <<g, SliceAt(g)>>]
           h == [t \in R |-> Times(kernel, GfPow(Constants[t[1]], e), WordOf(t[2]))]
           s == Share(e)
<1>1. e \in Nat /\ x \in 1 .. Count
  BY ExponentsFacts
<1>2. R = { <<Before(t[1]) + t[2], t>> : t \in Taken(0) }
  BY <1>1 DEF IInv, RecoveryInv, Upto
<1>3. \A t : t \in Taken(0) <=> \E f \in Files : \E i \in 1 .. Encoded(f) : t = <<f, i>>
  <2>1. \A f \in Files : f < file
    BY FilesType DEF IInv, BatchInv
  <2> QED
    BY <2>1, TakenElement
<1>4. \A f \in Files : \A i \in 1 .. Encoded(f) : i \in 1 .. Totals[f]
  BY EncodedType, FilesType DEF IInv, BatchInv
<1>5. ASSUME NEW f \in Files, NEW i \in 1 .. Encoded(f)
      PROVE  /\ Before(f) + i \in G /\ b[Before(f) + i] = <<Before(f) + i, <<f, i>>>>
             /\ <<Before(f) + i, <<f, i>>>> \in R
             /\ Content(Before(f) + i) = WordOf(<<f, i>>)
  <2>1. i \in 1 .. Totals[f]
    BY <1>4
  <2>2. Before(f) + i \in G /\ SliceAt(Before(f) + i) = <<f, i>>
    BY <2>1, GlobalIndex
  <2>3. <<Before(f) + i, <<f, i>>>> \in R
    <3>1. <<f, i>> \in Taken(0)
      BY <1>3
    <3> QED
      BY <1>2, <3>1
  <2>4. Content(Before(f) + i) = WordOf(<<f, i>>)
    BY <2>1, ContentIs
  <2> HIDE DEF G
  <2> QED
    BY <2>2, <2>3, <2>4
<1>6. \A g \in G : \E f \in Files : \E i \in 1 .. Encoded(f) : g = Before(f) + i
  OBVIOUS
<1>7. G \in SUBSET Globals /\ IsFiniteSet(G) /\ IsFiniteSet(Globals)
  BY GlobalIndex, FS_Subset
<1>8. ASSUME NEW t \in R
      PROVE  \E g \in G : b[g] = t
  <2>1. PICK u \in Taken(0) : t = <<Before(u[1]) + u[2], u>>
    BY <1>2
  <2>2. PICK f \in Files : \E i \in 1 .. Encoded(f) : u = <<f, i>>
    BY <1>3
  <2>3. PICK i \in 1 .. Encoded(f) : u = <<f, i>>
    BY <2>2
  <2>4. t = <<Before(f) + i, <<f, i>>>>
    BY <2>1, <2>3
  <2> HIDE DEF b, G, R
  <2> QED
    BY <1>5, <2>4
<1>9. \A g \in G : b[g] \in R /\ b[g][1] = g /\ Content(g) = WordOf(b[g][2])
  <2> SUFFICES ASSUME NEW g \in G PROVE b[g] \in R /\ b[g][1] = g /\ Content(g) = WordOf(b[g][2])
    OBVIOUS
  <2>1. PICK f \in Files : \E i \in 1 .. Encoded(f) : g = Before(f) + i
    BY <1>6
  <2>2. PICK i \in 1 .. Encoded(f) : g = Before(f) + i
    BY <2>1
  <2> HIDE DEF b, G, R
  <2>3. b[g] = <<g, <<f, i>>>> /\ b[g] \in R /\ Content(g) = WordOf(<<f, i>>)
    BY <1>5, <2>2
  <2> QED
    BY <2>3
<1>10. b \in Bijection(G, R)
  <2>1. b \in [G -> R]
    <3>1. b = [g \in G |-> b[g]]
      OBVIOUS
    <3> HIDE DEF b, G, R
    <3> QED
      BY <1>9, <3>1
  <2> HIDE DEF b, G, R
  <2>2. \A g, k \in G : b[g] = b[k] => g = k
    BY <1>9
  <2> QED
    BY <1>8, <2>1, <2>2 DEF Bijection, Injection, Surjection, IsInjective
<1>11. \A g \in G : s[g] = h[b[g]]
  <2> SUFFICES ASSUME NEW g \in G PROVE s[g] = h[b[g]]
    OBVIOUS
  <2>1. g \in Globals
    OBVIOUS
  <2>2. b[g] \in R /\ b[g][1] = g /\ Content(g) = WordOf(b[g][2])
    BY <1>9
  <2> HIDE DEF b, G
  <2>3. h[b[g]] = Times(kernel, GfPow(Constants[g], e), Content(g))
    <3> HIDE DEF R
    <3> QED
      BY <2>2
  <2>4. GfPow(Constants[g], e) \in Words /\ s[g] = GfMul(GfPow(Constants[g], e), Content(g))
    BY <1>1, <2>1, ShareIsWord
  <2>5. Content(g) \in Words
    BY <2>1, ContentIsWord
  <2>6. Times(kernel, GfPow(Constants[g], e), Content(g)) = GfMul(GfPow(Constants[g], e), Content(g))
    BY <2>4, <2>5, TimesIs
  <2> QED
    BY <2>3, <2>4, <2>6
<1>12. RecoverySlice(e, kernel) = Total(R, h)
  BY DEF RecoverySlice
<1>13. \A g \in Globals \ G : s[g] = {}
  <2> SUFFICES ASSUME NEW g \in Globals \ G PROVE s[g] = {}
    OBVIOUS
  <2>1. PICK f \in Files : \E i \in 1 .. Totals[f] : g = Before(f) + i
    BY GlobalIndex
  <2>2. PICK i \in 1 .. Totals[f] : g = Before(f) + i
    BY <2>1
  <2>3. i \notin 1 .. Encoded(f)
    BY <2>2
  <2>4. Content(g) = {}
    BY <2>2, <2>3, ContentIs
  <2> HIDE DEF G
  <2>5. s[g] = GfMul(GfPow(Constants[g], e), {})
    BY <1>1, <2>4, ShareIsWord
  <2> QED
    BY <2>5 DEF GfMul
<1>14. \A g \in Globals : s[g] \in Words
  BY <1>1, ShareIsWord
<1> HIDE DEF R, G, b, h, s
<1>15. Total(G, s) = Total(R, h)
  BY <1>7, <1>10, <1>11, TotalRenamed
<1>16. Total(Globals \ G, s) = {}
  BY <1>13, TotalOfZeros
<1>17. Total(Globals, s) = Xor(Total(G, s), Total(Globals \ G, s))
  BY <1>7, <1>14, TotalOfParts
<1>18. Xor(Total(G, s), {}) = Total(G, s)
  BY XorFacts
<1> QED
  BY <1>12, <1>15, <1>16, <1>17, <1>18 DEF s

\* What is left of a recovery slice when the shares of the slices that were
\* found are subtracted.
LEMMA LessKnown ==
    ASSUME IInv, pc = "done", NEW missing \in SUBSET Globals, NEW e \in Exponents,
           NEW made \in Kernels, NEW used \in Kernels
    PROVE  Xor(RecoverySlice(e, made),
               Total(Globals \ missing, [g \in Globals |-> Times(used, GfPow(Constants[g], e), Content(g))]))
             = Total(missing, Share(e))
<1> DEFINE h == [g \in Globals |-> Times(used, GfPow(Constants[g], e), Content(g))]
           s == Share(e)
<1>1. e \in Nat /\ IsFiniteSet(Globals)
  BY ExponentsFacts, GlobalIndex
<1>2. \A g \in Globals : s[g] \in Words /\ h[g] = s[g]
  <2> SUFFICES ASSUME NEW g \in Globals PROVE s[g] \in Words /\ h[g] = s[g]
    OBVIOUS
  <2>1. /\ GfPow(Constants[g], e) \in Words /\ s[g] \in Words
        /\ s[g] = GfMul(GfPow(Constants[g], e), Content(g))
    BY <1>1, ShareIsWord
  <2>2. Content(g) \in Words
    BY ContentIsWord
  <2>3. Times(used, GfPow(Constants[g], e), Content(g)) = GfMul(GfPow(Constants[g], e), Content(g))
    BY <2>1, <2>2, TimesIs
  <2> HIDE DEF s
  <2> QED
    BY <2>1, <2>3
<1>3. RecoverySlice(e, made) = Total(Globals, s)
  BY RecoveryIs
<1> HIDE DEF h, s
<1>4. Total(Globals \ missing, h) = Total(Globals \ missing, s)
  BY <1>2, TotalSame
<1>5. Total(Globals, s) = Xor(Total(missing, s), Total(Globals \ missing, s))
  BY <1>1, <1>2, TotalOfParts
<1>6. \A p, q : Xor(Xor(p, q), q) = p
  BY XorFacts
<1> QED
  BY <1>3, <1>4, <1>5, <1>6 DEF h, s

\* Of the lost slices alone, that is what a row of the matrix makes.
LEMMA MissingIsMoment ==
    ASSUME IInv, pc = "done", NEW missing \in SUBSET Globals, NEW e \in Nat,
           NEW m \in Nat, NEW gs \in Bijection(1 .. m, missing), IsFiniteSet(1 .. m)
    PROVE  Total(missing, Share(e))
             = Moment(1 .. m, [c \in 1 .. m |-> Constants[gs[c]]], [c \in 1 .. m |-> Content(gs[c])], e)
<1> DEFINE I == 1 .. m
           a == [c \in I |-> Constants[gs[c]]]
           x == [c \in I |-> Content(gs[c])]
           f == [c \in I |-> GfMul(GfPow(a[c], e), x[c])]
           s == Share(e)
<1>1. \A c \in I : gs[c] \in missing /\ gs[c] \in Globals
  BY DEF Bijection, Injection
<1>2. \A c \in I : f[c] = s[gs[c]]
  BY <1>1, ShareIsWord
<1>3. Moment(I, a, x, e) = Total(I, f)
  BY DEF Moment
<1> HIDE DEF I, f, s, a, x
<1>4. IsFiniteSet(I) /\ gs \in Bijection(I, missing)
  BY DEF I
<1>5. Total(I, f) = Total(missing, s)
  BY <1>2, <1>4, TotalRenamed
<1> QED
  BY <1>3, <1>5 DEF I, a, x, s

\* The equations of solveMissing: the contents x of the lost slices satisfy them.
Equations(missing, have, m, result, a, es, x, rhs) ==
    /\ a \in [1 .. m -> NonZero] /\ (\A b, c \in 1 .. m : a[b] = a[c] => b = c)
    /\ es \in [1 .. m -> Nat] /\ rhs \in Rows(m) /\ x \in Rows(m)
    /\ es = Sorted(Lowest(have, m))
    /\ \A c \in 1 .. m : x[c] = Content(Sorted(missing)[c])
    /\ result = Solve(PowerRows(m, a, es), rhs)
    /\ Satisfies(m, PowerRows(m, a, es), rhs, x)

LEMMA SolveMissingIs ==
    ASSUME IInv, pc = "done", NEW missing \in SUBSET Globals, NEW have \in SUBSET Exponents,
           NEW m \in Nat, m = Cardinality(missing), m <= Cardinality(have),
           NEW made \in Kernels, NEW used \in Kernels
    PROVE  \E a, es, x, rhs :
             Equations(missing, have, m, SolveMissing(missing, have, made, used), a, es, x, rhs)
<1> DEFINE I == 1 .. m
           low == Lowest(have, m)
           es == Sorted(low)
           gs == Sorted(missing)
           a == [c \in I |-> Constants[gs[c]]]
           x == [c \in I |-> Content(gs[c])]
           known(e) == Total(Globals \ missing,
                             [g \in Globals |-> Times(used, GfPow(Constants[g], e), Content(g))])
           mat0 == [r \in DOMAIN es |-> [c \in DOMAIN gs |-> GfPow(Constants[gs[c]], es[r])]]
           rhs0 == [r \in DOMAIN es |-> Xor(RecoverySlice(es[r], made), known(es[r]))]
           rhs == [r \in I |-> Total(missing, Share(es[r]))]
<1>1. SolveMissing(missing, have, made, used) = Solve(mat0, rhs0)
  BY Zenon DEF SolveMissing
<1>2. missing \in SUBSET Nat /\ IsFiniteSet(missing) /\ Cardinality(missing) = m
  <2>1. IsFiniteSet(Globals) /\ Globals \in SUBSET Nat
    BY GlobalIndex
  <2>2. IsFiniteSet(missing)
    BY <2>1, FS_Subset
  <2> QED
    BY <2>1, <2>2, FS_CardinalityType
<1>3. have \in SUBSET Nat /\ IsFiniteSet(have) /\ Cardinality(have) \in Nat
  <2>1. IsFiniteSet(Exponents) /\ Exponents \in SUBSET Nat
    BY ExponentsFacts
  <2>2. IsFiniteSet(have)
    BY <2>1, FS_Subset
  <2> QED
    BY <2>1, <2>2, FS_CardinalityType
<1>4. low \in SUBSET have /\ low \in SUBSET Nat /\ IsFiniteSet(low) /\ Cardinality(low) = m
  <2>1. low = { y \in have : Rank(have, y) < m }
    BY DEF Lowest, Rank, Below
  <2>2. m \in 0 .. Cardinality(have)
    BY <1>2, <1>3
  <2> HIDE DEF low
  <2>3. IsFiniteSet({ y \in have : Rank(have, y) < m }) /\ Cardinality({ y \in have : Rank(have, y) < m }) = m
    BY <1>3, <2>2, LowestOfSet
  <2> QED
    BY <1>3, <2>1, <2>3
<1> HIDE DEF low
<1>5. /\ gs \in [I -> missing] /\ DOMAIN gs = I
      /\ \A b, c \in I : gs[b] = gs[c] => b = c
      /\ \A g \in missing : \E c \in I : gs[c] = g
  BY <1>2, SortedFacts
<1>6. es \in [I -> low] /\ DOMAIN es = I
  BY <1>4, SortedFacts
<1> HIDE DEF gs, es, I
<1>7. gs \in Bijection(I, missing)
  BY <1>5 DEF Bijection, Injection, Surjection, IsInjective
<1>8. \A r \in I : es[r] \in have /\ es[r] \in Exponents /\ es[r] \in Nat
  BY <1>4, <1>6, <1>3
<1>9. a \in [I -> NonZero] /\ \A b, c \in I : a[b] = a[c] => b = c
  <2>1. \A c \in I : gs[c] \in Globals /\ a[c] = Constants[gs[c]]
    BY <1>5
  <2>2. \A c \in I : a[c] \in NonZero
    BY <2>1, ConstantsFacts
  <2>3. a \in [I -> NonZero]
    BY <2>2
  <2>4. \A b, c \in I : a[b] = a[c] => gs[b] = gs[c]
    BY <2>1, ConstantsFacts
  <2> HIDE DEF a
  <2> QED
    BY <1>5, <2>3, <2>4
<1>10. x \in [I -> Words]
  <2>1. \A c \in I : gs[c] \in Globals
    BY <1>5
  <2> QED
    BY <2>1, ContentIsWord
<1>11. mat0 = PowerRows(m, a, es)
  <2>1. \A c \in I : a[c] = Constants[gs[c]]
    OBVIOUS
  <2>2. PowerRows(m, a, es) = [r \in I |-> [c \in I |-> GfPow(a[c], es[r])]]
    BY DEF PowerRows, I
  <2>3. mat0 = [r \in I |-> [c \in I |-> GfPow(Constants[gs[c]], es[r])]]
    BY <1>5, <1>6
  <2> HIDE DEF a
  <2>4. \A r \in I : [c \in I |-> GfPow(a[c], es[r])] = [c \in I |-> GfPow(Constants[gs[c]], es[r])]
    BY <2>1
  <2> QED
    BY <2>2, <2>3, <2>4
<1>12. rhs0 = rhs
  <2>1. \A r \in I : Xor(RecoverySlice(es[r], made), known(es[r])) = Total(missing, Share(es[r]))
    BY <1>8, LessKnown
  <2> HIDE DEF known
  <2> QED
    BY <1>6, <2>1
<1>13. rhs \in [I -> Words]
  BY TotalIsWord
<1>14. ASSUME NEW r \in I PROVE rhs[r] = Moment(I, a, x, es[r])
  <2>a. IsFiniteSet(1 .. m)
    BY FS_Interval
  <2>1. IsFiniteSet(1 .. m) /\ gs \in Bijection(1 .. m, missing) /\ es[r] \in Nat
    BY <1>7, <1>8, <2>a DEF I
  <2>2. Total(missing, Share(es[r])) = Moment(1 .. m, [c \in 1 .. m |-> Constants[gs[c]]], [c \in 1 .. m |-> Content(gs[c])], es[r])
    <3> DEFINE e == es[r]
    <3>1. e \in Nat
      BY <2>1
    <3> HIDE DEF e
    <3>2. Total(missing, Share(e)) = Moment(1 .. m, [c \in 1 .. m |-> Constants[gs[c]]], [c \in 1 .. m |-> Content(gs[c])], e)
      BY <2>1, <3>1, MissingIsMoment
    <3> QED
      BY <3>2 DEF e
  <2> QED
    BY <2>2 DEF I
<1>15. a \in [1 .. m -> NonZero] /\ (\A b, c \in 1 .. m : a[b] = a[c] => b = c) /\ es \in [1 .. m -> Nat]
       /\ x \in Rows(m) /\ rhs \in Rows(m)
  <2>1. es \in [I -> Nat]
    BY <1>6, <1>8
  <2> HIDE DEF a, x, rhs
  <2> QED
    BY <1>9, <1>10, <1>13, <2>1 DEF I, Rows
<1>16. \A c \in 1 .. m : x[c] = Content(gs[c])
  BY DEF I
<1> HIDE DEF a, x, rhs, mat0, rhs0
<1>17. Satisfies(m, PowerRows(m, a, es), rhs, x)
  <2>1. \A r \in 1 .. m : Dot(m, PowerRows(m, a, es)[r], x) = Moment(1 .. m, a, x, es[r])
    BY <1>2, <1>15, PowerRowsType
  <2>2. \A r \in 1 .. m : rhs[r] = Moment(1 .. m, a, x, es[r])
    BY <1>14 DEF I
  <2> QED
    BY <2>1, <2>2 DEF Satisfies
<1>18. SolveMissing(missing, have, made, used) = Solve(PowerRows(m, a, es), rhs)
  BY <1>1, <1>11, <1>12
<1> QED
  BY <1>2, <1>15, <1>16, <1>17, <1>18 DEF es, low, gs, Equations

LEMMA Answers ==
    ASSUME IInv, pc = "done", NEW missing \in SUBSET Globals, NEW have \in SUBSET Exponents,
           NEW m \in Nat, m = Cardinality(missing), m <= Cardinality(have), missing # {},
           NEW made \in Kernels, NEW used \in Kernels,
           NEW result, result = SolveMissing(missing, have, made, used)
    PROVE  /\ result.ok => \A k \in 1 .. m : result.rhs[k] = Content(Sorted(missing)[k])
           /\ Consecutive(Lowest(have, m)) => result.ok
<1>0. \E a, es, x, rhs :
         Equations(missing, have, m, SolveMissing(missing, have, made, used), a, es, x, rhs)
  BY SolveMissingIs
<1>1. PICK a, es, x, rhs :
             /\ a \in [1 .. m -> NonZero] /\ (\A b, c \in 1 .. m : a[b] = a[c] => b = c)
             /\ es \in [1 .. m -> Nat] /\ rhs \in Rows(m) /\ x \in Rows(m)
             /\ es = Sorted(Lowest(have, m))
             /\ \A c \in 1 .. m : x[c] = Content(Sorted(missing)[c])
             /\ SolveMissing(missing, have, made, used) = Solve(PowerRows(m, a, es), rhs)
             /\ Satisfies(m, PowerRows(m, a, es), rhs, x)
  BY <1>0 DEF Equations
<1> DEFINE mat == PowerRows(m, a, es)
<1>2. mat \in Squares(m)
  BY <1>1, PowerRowsType
<1>3. ASSUME result.ok PROVE \A k \in 1 .. m : result.rhs[k] = Content(Sorted(missing)[k])
  <2>1. Solve(mat, rhs).ok /\ result.rhs = Solve(mat, rhs).rhs
    BY <1>1, <1>3
  <2>2. Satisfies(m, mat, rhs, x) /\ rhs \in Rows(m) /\ x \in Rows(m)
    BY <1>1
  <2> HIDE DEF mat
  <2>3. \A k \in 1 .. m : Solve(mat, rhs).rhs[k] = x[k]
    BY <1>2, <2>1, <2>2, SolveIsRight
  <2> QED
    BY <1>1, <2>1, <2>3
<1>4. ASSUME Consecutive(Lowest(have, m)) PROVE result.ok
  <2> DEFINE low == Lowest(have, m)
             e == es[1]
  <2>1. have \in SUBSET Nat /\ IsFiniteSet(have) /\ Cardinality(have) \in Nat
    <3>1. IsFiniteSet(Exponents) /\ Exponents \in SUBSET Nat
      BY ExponentsFacts
    <3>2. IsFiniteSet(have)
      BY <3>1, FS_Subset
    <3> QED
      BY <3>1, <3>2, FS_CardinalityType
  <2>2. low \in SUBSET Nat /\ IsFiniteSet(low) /\ Cardinality(low) = m
    <3>1. low = { y \in have : Rank(have, y) < m }
      BY DEF Lowest, Rank, Below
    <3>2. m \in 0 .. Cardinality(have)
      BY <2>1
    <3>3. IsFiniteSet({ y \in have : Rank(have, y) < m }) /\ Cardinality({ y \in have : Rank(have, y) < m }) = m
      BY <2>1, <3>2, LowestOfSet
    <3> QED
      BY <2>1, <3>1, <3>3
  <2>3. Gapless(low)
    BY <1>4 DEF Consecutive, Gapless
  <2> HIDE DEF low
  <2>4. \A r \in 1 .. m : Sorted(low)[r] = Sorted(low)[1] + (r - 1)
    BY <2>2, <2>3, SortedGapless
  <2>5. es = Sorted(low)
    BY <1>1 DEF low
  <2>6. m >= 1
    <3>1. IsFiniteSet(missing)
      BY GlobalIndex, FS_Subset
    <3>2. m # 0
      BY <3>1, FS_EmptySet
    <3> QED
      BY <3>2
  <2>7. e \in Nat
    <3>1. 1 \in 1 .. m
      BY <2>6
    <3> QED
      BY <1>1, <3>1
  <2>8. \A r \in 1 .. m : es[r] = e + (r - 1)
    BY <2>4, <2>5
  <2> HIDE DEF e
  <2>9. Solve(PowerRows(m, a, es), rhs).ok
    BY <1>1, <2>7, <2>8, RunsSolve
  <2> QED
    BY <1>1, <2>9
<1> QED
  BY <1>3, <1>4

-----------------------------------------------------------------------------
(***************************************************************************)
(* The invariant of the round trip.                                        *)
(***************************************************************************)
TripInv == /\ IInv
           /\ lost # {} => pc = "done"
           /\ ComesBack /\ RunsAreEnough

LEMMA DoneStays == IInv /\ pc = "done" /\ Next => UNCHANGED vars
<1> SUFFICES ASSUME IInv, pc = "done", Next PROVE UNCHANGED vars
  OBVIOUS
<1>1. jobs = {}
  BY DEF IInv, JobsInv
<1>2. ~Goroutine
  BY <1>1 DEF Goroutine
<1>3. ~Main
  BY DEF Main, OpenFile, ReadBatch, FileEnds, SpawnWhole, SpawnHash, SpawnCode, Wait
<1>4. ~ReadFails
  BY DEF ReadFails
<1> QED
  BY <1>2, <1>3, <1>4 DEF Next, Returned

LEMMA RecoverInv == TripInv /\ Recover => TripInv'
<1> SUFFICES ASSUME TripInv, Recover PROVE TripInv'
  OBVIOUS
<1>1. /\ IInv /\ pc = "done" /\ UNCHANGED vars
      /\ exps' \in SUBSET Exponents /\ lost' \in SUBSET Globals
      /\ lost' # {} /\ Cardinality(lost') <= Cardinality(exps')
  BY DEF TripInv, Recover
<1>2. IInv'
  BY <1>1, NextInv
<1>3. pc' = "done" /\ hashes' = hashes
  BY <1>1 DEF vars
<1>4. PICK made \in Kernels, used \in Kernels : answer' = SolveMissing(lost', exps', made, used)
  BY DEF Recover
<1>5. ASSUME NEW missing \in SUBSET Globals, missing = lost', NEW have \in SUBSET Exponents, have = exps',
             NEW result, result = answer'
      PROVE  ComesBack' /\ RunsAreEnough'
  <2> DEFINE m == Cardinality(missing)
  <2>1. m \in Nat /\ m <= Cardinality(have) /\ missing # {} /\ result = SolveMissing(missing, have, made, used)
    <3>1. IsFiniteSet(missing)
      BY GlobalIndex, FS_Subset
    <3> QED
      BY <1>1, <1>4, <1>5, <3>1, FS_CardinalityType
  <2>2. m = Cardinality(missing)
    OBVIOUS
  <2> HIDE DEF m
  <2>3. /\ result.ok => \A k \in 1 .. m : result.rhs[k] = Content(Sorted(missing)[k])
        /\ Consecutive(Lowest(have, m)) => result.ok
    BY <1>1, <2>1, <2>2, Answers
  <2>4. ComesBack'
    BY <1>3, <1>5, <2>2, <2>3 DEF ComesBack, Content
  <2>5. RunsAreEnough'
    BY <1>5, <2>2, <2>3 DEF RunsAreEnough
  <2> QED
    BY <2>4, <2>5
<1>6. ComesBack' /\ RunsAreEnough'
  BY <1>1, <1>5
<1> QED
  BY <1>2, <1>3, <1>6 DEF TripInv

LEMMA TripNextInv == TripInv /\ [TripNext]_tripVars => TripInv'
<1> SUFFICES ASSUME TripInv, [TripNext]_tripVars PROVE TripInv'
  OBVIOUS
<1>1. CASE Recover
  BY <1>1, RecoverInv
<1>2. CASE [Next]_vars /\ UNCHANGED <<lost, exps, answer>>
  <2>1. IInv' /\ IInv
    BY <1>2, NextInv DEF TripInv
  <2>2. CASE lost = {}
    BY <1>2, <2>1, <2>2 DEF TripInv, ComesBack, RunsAreEnough
  <2>3. CASE lost # {}
    <3>1. UNCHANGED vars
      BY <1>2, <2>1, <2>3, DoneStays DEF TripInv
    <3>2. hashes' = hashes /\ pc' = pc
      BY <3>1 DEF vars
    <3>3. ComesBack'
      BY <1>2, <3>2 DEF TripInv, ComesBack, Content
    <3>4. RunsAreEnough'
      BY <1>2 DEF TripInv, RunsAreEnough
    <3> QED
      BY <1>2, <2>1, <3>2, <3>3, <3>4 DEF TripInv
  <2> QED
    BY <2>2, <2>3
<1> QED
  BY <1>1, <1>2 DEF TripNext, tripVars

LEMMA TripInvariant == TripSpec => []TripInv
<1>1. TripInit => TripInv
  BY InitInv DEF TripInit, TripInv, ComesBack, RunsAreEnough
<1> QED
  BY <1>1, TripNextInv, PTL DEF TripSpec

\* For every set of files, every width of the words and every schedule: if the
\* elimination goes through, each slice that was lost comes back as it was
\* hashed, with whichever kernels the recovery slices were made and are used.
\* (repair.go:136-190, encode.go:171-192, muladd.go:8-21)
THEOREM LostComesBack == TripSpec => []ComesBack
BY TripInvariant, PTL DEF TripInv

\* And it does go through whenever the exponents of the recovery slices that it
\* uses follow one another. (gf.go:58-60, repair.go:418-455)
THEOREM RunsAlwaysSolve == TripSpec => []RunsAreEnough
BY TripInvariant, PTL DEF TripInv
=============================================================================
