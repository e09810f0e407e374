------------------------------ MODULE Par1Proofs ------------------------------
(***************************************************************************)
(* That PAR1 repairs never put anything but what was recorded in a file,   *)
(* and that success means what it says, for any number of files, volumes   *)
(* and faults and over any field: for these what the elimination gives is  *)
(* not used, since a wrong answer is caught by the comparison before each  *)
(* replacement.  And that a repair gives up for a reason: that needs the   *)
(* arithmetic.                                                             *)
(***************************************************************************)
EXTENDS Par1, FieldProofs

LEMMA MaxOfNats ==
    ASSUME NEW S \in SUBSET Nat, IsFiniteSet(S), S # {}
    PROVE  Max(S) \in S
<1> DEFINE C == { T \in SUBSET S : T = {} \/ \E m \in T : \A k \in T : m >= k }
<1>1. {} \in C
  OBVIOUS
<1>2. ASSUME NEW T \in SUBSET S, NEW t \in S, T \in C, t \notin T PROVE T \cup {t} \in C
  <2>1. CASE T = {}
    <3>1. \A k \in T \cup {t} : t >= k
      BY <2>1
    <3> QED
      BY <3>1
  <2>2. CASE T # {}
    <3>1. PICK m \in T : \A k \in T : m >= k
      BY <1>2, <2>2
    <3>2. CASE m >= t
      <4>1. \A k \in T \cup {t} : m >= k
        BY <3>1, <3>2
      <4> QED
        BY <4>1
    <3>3. CASE t > m
      <4>1. \A k \in T \cup {t} : t >= k
        BY <3>1, <3>3
      <4> QED
        BY <4>1
    <3> QED
      BY <3>2, <3>3
  <2> QED
    BY <2>1, <2>2
<1> HIDE DEF C
<1>3. S \in C
  BY <1>1, <1>2, SubsetInduction
<1>4. \E m \in S : \A k \in S : m >= k
  BY <1>3 DEF C
<1> QED
  BY <1>4 DEF Max

\* How many volumes are made, and which there may be.
LEMMA VolumesFacts ==
    /\ \A r \in Requests : Count(r) \in Nat
    /\ Volumes \in SUBSET (Nat \ {0}) /\ IsFiniteSet(Volumes)
<1>1. ASSUME NEW r \in Requests PROVE Count(r) \in Nat
  <2> DEFINE a == (N * r.n) \div 100
  <2>1. r.n \in Nat /\ N \in Nat
    BY Par1Assumption, LimitFacts DEF Par1Assumption, MaxFiles
  <2>2. a \in Nat
    <3>1. N * r.n \in Nat
      BY <2>1
    <3> QED
      BY <3>1
  <2> HIDE DEF a
  <2>3. IsFiniteSet({a, 1})
    <3>1. IsFiniteSet({} \cup {a})
      BY FS_EmptySet, FS_AddElement
    <3>2. IsFiniteSet(({} \cup {a}) \cup {1})
      BY <3>1, FS_AddElement
    <3>3. ({} \cup {a}) \cup {1} = {a, 1}
      OBVIOUS
    <3> QED
      BY <3>2, <3>3
  <2>4. Max({a, 1}) \in Nat
    BY <2>2, <2>3, MaxOfNats
  <2> QED
    BY <2>1, <2>4 DEF Count, a
<1> DEFINE S == { Count(r) : r \in Requests } \cup {Foreign.count}
<1>2. IsFiniteSet(S)
  <2>1. IsFiniteSet(Requests)
    BY Par1Assumption DEF Par1Assumption
  <2>2. IsFiniteSet({ Count(r) : r \in Requests })
    <3> DEFINE f == [r \in Requests |-> Count(r)]
               T == { Count(r) : r \in Requests }
    <3>1. f \in Surjection(Requests, T)
      BY DEF Surjection
    <3> HIDE DEF f
    <3> QED
      BY <2>1, <3>1, FS_Surjection
  <2> QED
    BY <2>2, FS_AddElement
<1>3. S \in SUBSET Nat /\ S # {}
  BY <1>1, Par1Assumption, LimitFacts DEF Par1Assumption, MaxFiles
<1>4. LastVolume = Max(S)
  BY DEF LastVolume
<1> HIDE DEF S
<1>5. LastVolume \in Nat
  BY <1>2, <1>3, <1>4, MaxOfNats
<1>6. IsFiniteSet(1 .. LastVolume) /\ 1 .. LastVolume \in SUBSET (Nat \ {0})
  BY <1>5, FS_Interval
<1> QED
  BY <1>1, <1>6 DEF Volumes

(***************************************************************************)
(* What records which files carry parity: the set in use, the archive and  *)
(* the volumes that can be read.                                           *)
(***************************************************************************)
SetsInv ==
    /\ members \in SUBSET Files
    /\ index \notin {Absent, Junk} => index.members \in SUBSET Files
    /\ DOMAIN volume = Volumes
    /\ \A v \in Volumes : ReadableAt(v) => volume[v].members \in SUBSET Files

LEMMA SetsInit == Init => SetsInv
<1> SUFFICES ASSUME Init PROVE SetsInv
  OBVIOUS
<1>1. members = {} /\ Foreign.members \in SUBSET Files
  BY Par1Assumption DEF Init, Par1Assumption
<1>2. CASE NoSet
  BY <1>1, <1>2 DEF NoSet, SetsInv, ReadableAt
<1>3. CASE ForeignSet
  BY <1>1, <1>3 DEF ForeignSet, ForeignFile, VolumeFile, SetsInv, ReadableAt
<1> QED BY <1>2, <1>3 DEF Init

\* The leader is the archive or one of the volumes.
LEMMA LeaderIs ==
    ASSUME index # Absent, index # Junk \/ Listed # {}
    PROVE  \/ index \notin {Absent, Junk} /\ Leader = index
           \/ \E v \in Volumes : ReadableAt(v) /\ Leader = volume[v]
<1>1. CASE index # Junk
  BY <1>1 DEF Leader
<1>2. CASE index = Junk
  <2>1. Listed # {} /\ Listed \in SUBSET Nat /\ Listed \in SUBSET Volumes
    BY <1>2, VolumesFacts DEF Listed
  <2>2. \E v \in Listed : \A u \in Listed : v <= u
    BY <2>1, LeastOfNats
  <2>3. Min(Listed) \in Listed
    BY <2>2 DEF Min
  <2>4. ReadableAt(Min(Listed)) /\ Min(Listed) \in Volumes
    BY <2>1, <2>3 DEF Listed
  <2> QED
    BY <1>2, <2>4 DEF Leader
<1> QED BY <1>1, <1>2

LEMMA SetsNext == ASSUME SetsInv, Next PROVE SetsInv'
<1>1. CASE UNCHANGED <<index, volume>> /\ members' \in {members, {}, Files}
  BY <1>1 DEF SetsInv, ReadableAt
<1>2. CASE StartCreate \/ Return \/ Describe \/ Hash \/ Encode \/ StartCheck \/ Check \/ Repair
             \/ SolveVolumes \/ ReadError
  <2>1. UNCHANGED <<index, volume>> /\ members' \in {members, {}, Files}
    BY <1>2 DEF StartCreate, Return, Gone, Describe, Hash, Encode, StartCheck, Check, Repair,
         SolveVolumes, ReadError, world, set
  <2> QED BY <1>1, <2>1
<1>3. CASE Rewrite \/ Edit
  <2>1. UNCHANGED <<index, volume>> /\ members' = members
    BY <1>3 DEF Rewrite, Edit, set
  <2> QED BY <1>1, <2>1
<1>4. CASE Parse
  <2>1. UNCHANGED <<index, volume>>
    BY <1>4 DEF Parse, world
  <2>2. CASE members' = members
    BY <1>1, <2>1, <2>2
  <2>3. CASE members' # members
    <3>1. index # Absent /\ (index # Junk \/ Listed # {}) /\ members' = Leader.members
      BY <1>4, <2>3 DEF Parse
    <3>2. Leader.members \in SUBSET Files
      BY <3>1, LeaderIs DEF SetsInv
    <3> QED BY <2>1, <3>1, <3>2 DEF SetsInv, ReadableAt
  <2> QED BY <2>2, <2>3
<1>5. CASE WriteIndex
  <2>1. index' = VolumeFile(size, files, members, << >>) /\ UNCHANGED <<volume, members>>
    BY <1>5 DEF WriteIndex, set
  <2>2. index'.members = members
    BY <2>1 DEF VolumeFile
  <2> QED BY <2>1, <2>2 DEF SetsInv, ReadableAt
<1>6. CASE WriteVolume
  <2>1. /\ volume' = [volume EXCEPT ![at] = VolumeFile(size, files, members, recovery[at])]
        /\ UNCHANGED <<index, members>>
    BY <1>6 DEF WriteVolume, set
  <2>2. \A v \in Volumes : volume'[v] = volume[v] \/ volume'[v].members = members
    BY <2>1 DEF SetsInv, VolumeFile
  <2> QED BY <2>1, <2>2 DEF SetsInv, ReadableAt
<1>7. CASE Disaster
  <2>1. PICK S \in SUBSET Files, L \in SUBSET Volumes, a \in {index, Absent, Junk} :
            /\ volume' = [v \in Volumes |-> IF v \in L THEN Absent ELSE volume[v]]
            /\ index' = a
    BY <1>7, Zenon DEF Disaster
  <2>2. members' = members
    BY <1>7 DEF Disaster, set
  <2> QED BY <2>1, <2>2 DEF SetsInv, ReadableAt
<1>8. CASE WriteError \/ Crash
  <2>1. index' \in {index, Junk} /\ (volume' = volume \/ volume' = [volume EXCEPT ![at] = Junk])
    BY <1>8 DEF WriteError, Crash, Torn
  <2>2. members' = members \/ members' = {}
    BY <1>8 DEF WriteError, Crash, Gone, set
  <2> QED BY <2>1, <2>2 DEF SetsInv, ReadableAt
<1> QED BY <1>2, <1>3, <1>4, <1>5, <1>6, <1>7, <1>8 DEF Next, Step, Environment

-----------------------------------------------------------------------------
AsRecorded(S) == \A f \in S : disk[f] = files[f]

(***************************************************************************)
(* The files that are still to be rewritten are among the bad ones, and    *)
(* none are left over from one command to the next.  In calm the files     *)
(* that carry parity are as recorded from their description to the end of  *)
(* a create, and all but those to be rewritten in a repair.                *)
(***************************************************************************)
Inv ==
    /\ DOMAIN disk = Files
    /\ faults \in Nat /\ SetsInv
    /\ todo \subseteq bad
    /\ todo # {} => pc \in {"solve", "rewrite", "ended"}
    /\ pc \in {"solve", "rewrite"} => bad \subseteq members
    /\ calm /\ pc \in {"hash", "encode", "index", "volume"} => AsRecorded(Files)
    /\ calm /\ pc \in {"solve", "rewrite"} => AsRecorded(members \ todo)
    /\ calm /\ pc = "ended" /\ exit = 0 => AsRecorded(members)

LEMMA InitInv == Init => Inv
<1> SUFFICES ASSUME Init PROVE Inv
  OBVIOUS
<1>1. DOMAIN disk = Files
  BY Par1Assumption DEF Par1Assumption, Init, NoSet, ForeignSet
<1> QED BY <1>1, SetsInit DEF Init, Inv

\* The steps by which a set is made.
LEMMA CreateInv ==
    ASSUME Inv, SetsInv', StartCreate \/ Describe \/ Hash \/ Encode \/ WriteIndex \/ WriteVolume
    PROVE  Inv'
<1>1. CASE StartCreate
  BY <1>1 DEF Inv, AsRecorded, StartCreate, Exit, Go, world, work
<1>2. CASE Describe
  BY <1>2 DEF Inv, AsRecorded, Describe, Exit, Go, world, work
<1>3. CASE Hash
  <2>1. pc = "hash" /\ pc' = "encode" /\ UNCHANGED <<disk, faults, todo, bad, calm>>
    BY <1>3 DEF Hash, Go, world, work
  <2>2. \A f \in Files : disk[f] = files[f] => files'[f] = disk[f]
    BY <1>3 DEF Hash
  <2> QED BY <2>1, <2>2 DEF Inv, AsRecorded
<1>4. CASE Encode
  BY <1>4 DEF Inv, AsRecorded, Encode, Exit, Go, world, work
<1>5. CASE WriteIndex
  BY <1>5 DEF Inv, SetsInv, AsRecorded, WriteIndex, Exit, Go, set
<1>6. CASE WriteVolume
  BY <1>6 DEF Inv, SetsInv, AsRecorded, WriteVolume, Exit, Go, set
<1> QED BY <1>1, <1>2, <1>3, <1>4, <1>5, <1>6

\* What Verify finds right is as recorded.
LEMMA VerifyFacts ==
    ASSUME NEW S \in SUBSET Files, Verify(S)
    PROVE  /\ bad' \in SUBSET S /\ \A f \in S \ bad' : disk[f] = files[f]
           /\ faults' \in {faults, faults + 1}
  BY DEF Verify, Bad, Fault

\* The steps of a check up to the elimination, none of which writes.
LEMMA CheckInv ==
    ASSUME Inv, SetsInv', Return \/ StartCheck \/ Parse \/ Check \/ Repair \/ SolveVolumes
    PROVE  Inv'
<1>1. CASE Return
  BY <1>1 DEF Inv, AsRecorded, Return, Gone, Go, world
<1>2. CASE StartCheck
  BY <1>2 DEF Inv, AsRecorded, StartCheck, Go, world, set, work
<1>3. CASE Parse
  BY <1>3 DEF Inv, AsRecorded, Parse, Exit, Go, world, work
<1>4. CASE Check
  <2>1. \A f \in Files \ bad' : disk[f] = files[f]
    BY <1>4, VerifyFacts DEF Check
  <2>2. faults' \in Nat
    BY <1>4, VerifyFacts DEF Check, Inv
  <2>3. /\ pc = "check" /\ UNCHANGED <<disk, files, members, todo>>
        /\ pc' = "repair" \/ (pc' = "ended" /\ (exit' = 0 => bad' = {}))
    BY <1>4 DEF Check, Exit, Go, set
  <2> QED BY <2>1, <2>2, <2>3 DEF Inv, SetsInv, AsRecorded
<1>5. CASE Repair
  <2>1. /\ bad' \in SUBSET members /\ faults' \in Nat
        /\ \A f \in members \ bad' : disk[f] = files[f]
    BY <1>5, VerifyFacts DEF Repair, Inv, SetsInv
  <2>2. /\ UNCHANGED <<disk, files, members>> /\ todo' = bad'
        /\ pc' = "solve" \/ (pc' = "ended" /\ (exit' = 0 => bad' = {}))
    BY <1>5 DEF Repair, Exit, Go, set
  <2> QED BY <2>1, <2>2 DEF Inv, AsRecorded
<1>6. CASE SolveVolumes
  BY <1>6 DEF Inv, AsRecorded, SolveVolumes, Exit, Go, world, set
<1> QED BY <1>1, <1>2, <1>3, <1>4, <1>5, <1>6

\* A file is rewritten with its recorded content, or nothing is.
LEMMA RewriteEffect ==
    ASSUME Inv, Rewrite
    PROVE  \/ pc' = "ended" /\ exit' = 5 /\ disk' = disk /\ todo' = todo
           \/ \E f \in todo :
                /\ disk' = [disk EXCEPT ![f] = files[f]]
                /\ todo' = todo \ {f}
                /\ \/ todo' = {} /\ pc' = "ended"
                   \/ pc' = "rewrite"
<1>1. PICK f \in todo :
        IF Rebuilt(f) # files[f]
        THEN Exit(5) /\ UNCHANGED <<disk, todo>>
        ELSE /\ disk' = [disk EXCEPT ![f] = Rebuilt(f)]
             /\ todo' = todo \ {f}
             /\ IF todo' = {} THEN Exit(0) ELSE Go("rewrite")
  BY DEF Rewrite
<1>2. CASE Rebuilt(f) # files[f]
  BY <1>1, <1>2 DEF Exit
<1>3. CASE Rebuilt(f) = files[f]
  BY <1>1, <1>3 DEF Exit, Go
<1> QED BY <1>2, <1>3

LEMMA RewriteInv == ASSUME Inv, SetsInv', Rewrite PROVE Inv'
<1>1. pc = "rewrite" /\ UNCHANGED <<faults, files, members, bad, calm>>
  BY DEF Rewrite, set
<1>2. CASE pc' = "ended" /\ exit' = 5 /\ disk' = disk /\ todo' = todo
  BY <1>1, <1>2 DEF Inv, AsRecorded
<1>3. CASE \E f \in todo :
             /\ disk' = [disk EXCEPT ![f] = files[f]]
             /\ todo' = todo \ {f}
             /\ \/ todo' = {} /\ pc' = "ended"
                \/ pc' = "rewrite"
  <2>1. PICK f \in todo : /\ disk' = [disk EXCEPT ![f] = files[f]]
                          /\ todo' = todo \ {f}
                          /\ \/ todo' = {} /\ pc' = "ended"
                             \/ pc' = "rewrite"
    BY <1>3
  <2>2. calm => \A g \in members \ todo' : disk'[g] = files[g]
    BY <1>1, <2>1 DEF Inv, SetsInv, AsRecorded
  <2>3. todo' = {} /\ calm => \A g \in members : disk'[g] = files[g]
    BY <2>2
  <2>4. DOMAIN disk' = Files /\ todo' \subseteq bad
    BY <2>1 DEF Inv
  <2> QED BY <1>1, <2>1, <2>2, <2>3, <2>4 DEF Inv, AsRecorded
<1> QED BY <1>2, <1>3, RewriteEffect

\* Faults count themselves, and disturb a command that is not over.
LEMMA FaultInv == ASSUME Inv, SetsInv', Edit \/ Environment PROVE Inv'
<1>1. CASE Edit
  <2>1. pc = "idle" \/ ~calm'
    BY <1>1, Zenon DEF Edit
  <2>2. PICK f \in Files, c \in Contents \cup {Absent} : disk' = [disk EXCEPT ![f] = c]
    BY <1>1 DEF Edit
  <2>3. DOMAIN disk' = Files
    BY <2>2 DEF Inv
  <2>4. faults' = faults + 1 /\ UNCHANGED <<bad, todo, files, members, pc, exit>>
    BY <1>1 DEF Edit, Fault, set, work
  <2> QED BY <2>1, <2>3, <2>4 DEF Inv
<1>2. CASE Disaster
  BY <1>2 DEF Inv, AsRecorded, Disaster, Fault, set, work
<1>3. CASE WriteError
  BY <1>3 DEF Inv, AsRecorded, WriteError, Fault, Torn, Exit, set, work
<1>4. CASE ReadError
  BY <1>4 DEF Inv, AsRecorded, ReadError, Fault, Exit, set, work
<1>5. CASE Crash
  BY <1>5 DEF Inv, AsRecorded, Crash, Fault, Torn, Gone, Go
<1> QED BY <1>1, <1>2, <1>3, <1>4, <1>5 DEF Environment

LEMMA NextInv == Inv /\ [Next]_vars => Inv'
<1> SUFFICES ASSUME Inv, [Next]_vars PROVE Inv'
  OBVIOUS
<1>1. CASE UNCHANGED vars
  BY <1>1 DEF Inv, SetsInv, ReadableAt, AsRecorded, vars, world, set, work
<1>2. CASE Next
  <2>1. SetsInv'
    BY <1>2, SetsNext DEF Inv
  <2> QED BY <1>2, <2>1, CreateInv, CheckInv, RewriteInv, FaultInv DEF Next, Step
<1> QED BY <1>1, <1>2

THEOREM InvHolds == Spec => []Inv
  BY InitInv, NextInv, PTL DEF Spec

-----------------------------------------------------------------------------
\* Only Rewrite writes a protected file without a fault, and only as recorded.
LEMMA StepOnlyRecords ==
    ASSUME Inv, Next, faults' = faults, NEW f \in Files, disk'[f] # disk[f]
    PROVE  f \in bad /\ disk'[f] = files[f]
<1>1. ~Edit /\ ~Environment
  BY DEF Inv, Edit, Environment, Disaster, WriteError, ReadError, Crash, Fault
<1>2. CASE StartCreate \/ StartCheck \/ Return \/ Describe \/ Encode \/ WriteIndex
             \/ Hash \/ WriteVolume \/ Parse \/ Check \/ Repair \/ SolveVolumes
  BY <1>2 DEF StartCreate, StartCheck, Return, Describe, Hash, Encode, WriteIndex, WriteVolume,
       Parse, Check, Repair, SolveVolumes, world
<1>3. CASE Rewrite
  BY <1>3, RewriteEffect DEF Inv
<1> QED BY <1>1, <1>2, <1>3 DEF Next, Step

\* Whatever the volumes hold and whichever are used, the program puts nothing
\* in a protected file but its recorded content, and only if it was bad.
\* (par1.go:635-637)
THEOREM RepairOnlyRecords == Spec => OnlyBecomesRecorded
<1>1. Inv /\ [Next]_vars =>
        [faults' = faults =>
            \A f \in Files : disk'[f] # disk[f] => f \in bad /\ disk'[f] = files[f]]_vars
  BY StepOnlyRecords
<1> QED BY <1>1, InvHolds, PTL DEF Spec, OnlyBecomesRecorded

\* A command that succeeds in calm leaves every file that carries parity as the
\* set records it.  Those that carry none a repair skips, and succeeds although
\* they are damaged. (check.go:293-324, par1.go:509-514)
THEOREM SuccessIsRecorded == Spec => []SuccessMeansRecorded
<1>1. Inv => SuccessMeansRecorded
  BY DEF Inv, AsRecorded, SuccessMeansRecorded
<1> QED BY <1>1, InvHolds, PTL

-----------------------------------------------------------------------------
(***************************************************************************)
(* Numbers as words.                                                       *)
(***************************************************************************)

\* Numbers that agree in their lowest bits and in the rest are the same.
AlikeUpTo(n, m, k) == (\A j \in 0 .. k - 1 : Bit(n, j) = Bit(m, j)) /\ n \div 2^k = m \div 2^k

LEMMA BitsTell == \A k \in Nat : \A n, m \in Nat : AlikeUpTo(n, m, k) => n = m
<1> DEFINE P == { k \in Nat : \A n, m \in Nat : AlikeUpTo(n, m, k) => n = m }
<1>1. 0 \in P
  <2> SUFFICES ASSUME NEW n \in Nat, NEW m \in Nat, AlikeUpTo(n, m, 0) PROVE n = m
    OBVIOUS
  <2>1. 2^0 = 1
    OBVIOUS
  <2> QED
    BY <2>1 DEF AlikeUpTo
<1>2. ASSUME NEW k \in Nat, k \in P PROVE k + 1 \in P
  <2> SUFFICES ASSUME NEW n \in Nat, NEW m \in Nat, AlikeUpTo(n, m, k + 1) PROVE n = m
    OBVIOUS
  <2> DEFINE p == 2^k
             a == n \div p
             b == m \div p
  <2>1. p \in Nat \ {0} /\ 2^(k + 1) = 2 * p
    BY NextPower
  <2> HIDE DEF p
  <2>2. n \div (2 * p) = a \div 2 /\ m \div (2 * p) = b \div 2
    BY <2>1, Halving
  <2>3. k \in 0 .. (k + 1) - 1 /\ \A j \in 0 .. k - 1 : j \in 0 .. (k + 1) - 1
    OBVIOUS
  <2>4. a % 2 = b % 2
    BY <2>3 DEF AlikeUpTo, Bit, p
  <2>5. a \in Nat /\ b \in Nat
    BY <2>1
  <2>6. a \div 2 = b \div 2
    BY <2>1, <2>2 DEF AlikeUpTo
  <2> HIDE DEF a, b
  <2>7. a = b
    BY <2>4, <2>5, <2>6
  <2>8. AlikeUpTo(n, m, k)
    BY <2>3, <2>7 DEF AlikeUpTo, a, b, p
  <2> QED
    BY <1>2, <2>8
<1> HIDE DEF P
<1>3. Nat \subseteq P
  BY <1>1, <1>2, NatSetInduction
<1> QED
  BY <1>3 DEF P

\* Every file has a coefficient of its own, none of them zero.
LEMMA AsWordFacts ==
    /\ \A n, m \in 0 .. GfLimit : AsWord(n) = AsWord(m) => n = m
    /\ \A n \in 1 .. GfLimit : AsWord(n) \in NonZero
<1>1. Width \in Nat /\ 2^Width \in Nat \ {0} /\ GfLimit = 2^Width - 1
  BY WidthAssumption, NextPower DEF GfLimit
<1> DEFINE p == 2^Width
<1>2. ASSUME NEW n \in 0 .. GfLimit, NEW m \in 0 .. GfLimit, AsWord(n) = AsWord(m) PROVE n = m
  <2>1. \A j \in 0 .. Width - 1 : Bit(n, j) \in {0, 1} /\ Bit(m, j) \in {0, 1}
    <3> SUFFICES ASSUME NEW j \in 0 .. Width - 1 PROVE Bit(n, j) \in {0, 1} /\ Bit(m, j) \in {0, 1}
      OBVIOUS
    <3> DEFINE q == 2^j
    <3>1. q \in Nat \ {0}
      BY NextPower
    <3> HIDE DEF q
    <3>2. n \in Nat /\ m \in Nat
      BY <1>1
    <3>3. n \div q \in Nat /\ m \div q \in Nat
      BY <3>1, <3>2
    <3>4. (n \div q) % 2 \in {0, 1} /\ (m \div q) % 2 \in {0, 1}
      BY <3>3
    <3> QED
      BY <3>4 DEF Bit, q
  <2>2. \A j \in 0 .. Width - 1 : Bit(n, j) = 1 <=> Bit(m, j) = 1
    BY <1>2 DEF AsWord
  <2>3. \A j \in 0 .. Width - 1 : Bit(n, j) = Bit(m, j)
    BY <2>1, <2>2
  <2>4. n \div p = 0 /\ m \div p = 0
    <3> HIDE DEF p
    <3>1. p \in Nat \ {0} /\ n \in 0 .. p - 1 /\ m \in 0 .. p - 1
      BY <1>1 DEF p
    <3>2. n = p * 0 + n /\ m = p * 0 + m /\ n \in Nat /\ m \in Nat
      BY <3>1
    <3> QED
      BY <3>1, <3>2, QuotientIs
  <2>5. AlikeUpTo(n, m, Width)
    BY <2>3, <2>4 DEF AlikeUpTo
  <2>6. n \in Nat /\ m \in Nat
    BY <1>1
  <2> QED
    BY <1>1, <2>5, <2>6, BitsTell
<1>3. AsWord(0) = {}
  <2>1. ASSUME NEW j \in 0 .. Width - 1 PROVE Bit(0, j) = 0
    <3> DEFINE q == 2^j
    <3>1. q \in Nat \ {0}
      BY NextPower
    <3> HIDE DEF q
    <3>2. 0 \in 0 .. q - 1 /\ 0 = q * 0 + 0
      BY <3>1
    <3>3. 0 \div q = 0
      BY <3>1, <3>2, QuotientIs
    <3>4. 0 % 2 = 0
      OBVIOUS
    <3> QED
      BY <3>3, <3>4 DEF Bit, q
  <2> QED
    BY <2>1 DEF AsWord
<1>4. ASSUME NEW n \in 1 .. GfLimit PROVE AsWord(n) \in NonZero
  <2>1. 0 \in 0 .. GfLimit /\ n \in 0 .. GfLimit /\ n # 0
    BY <1>1
  <2>2. AsWord(n) # {}
    BY <1>2, <1>3, <2>1
  <2> QED
    BY <2>2 DEF AsWord, NonZero, Words
<1> QED
  BY <1>2, <1>4

-----------------------------------------------------------------------------
(***************************************************************************)
(* Volumes, and what the elimination makes of them.                        *)
(***************************************************************************)

\* What a set records of its files, and what each contributes to a volume.
Recorded == [Files -> Contents]
Label(M, f) == AsWord(Place(M, f) + 1)
Shares(M, fs, v) == [f \in M |-> GfMul(Shard(fs[f]), Coefficient(M, f, v))]

LEMMA ShardFacts ==
    ASSUME NEW fs \in Recorded, NEW f \in Files
    PROVE  /\ Shard(fs[f]) \in Words
           /\ fs[f] = IF Sizes(fs)[f] = 0 THEN << >> ELSE <<Shard(fs[f])>>
<1>1. fs[f] \in Contents
  BY DEF Recorded
<1>2. CASE fs[f] = << >>
  BY <1>2, LimitFacts DEF Shard, Sizes
<1>3. CASE fs[f] # << >>
  <2>1. PICK w \in Words : fs[f] = <<w>>
    BY <1>1, <1>3, Par1Assumption DEF Par1Assumption
  <2>2. Len(fs[f]) = 1
    BY <2>1
  <2> QED
    BY <1>3, <2>1, <2>2, LimitFacts DEF Shard, Sizes
<1> QED
  BY <1>2, <1>3

LEMMA FilesFacts ==
    /\ N \in 1 .. GfLimit /\ GfLimit \in Nat
    /\ IsFiniteSet(Files) /\ Files \in SUBSET Nat /\ Cardinality(Files) = N
<1>1. N \in 1 .. GfLimit /\ GfLimit \in Nat
  BY Par1Assumption, LimitFacts DEF Par1Assumption, MaxFiles
<1>2. Files \in SUBSET Nat
  BY <1>1 DEF Files
<1>3. IsFiniteSet(Files) /\ Cardinality(Files) = N
  BY <1>1, FS_Interval DEF Files
<1> QED
  BY <1>1, <1>2, <1>3

\* Every file that carries parity has a coefficient of its own, none of them zero.
LEMMA CoefficientFacts ==
    ASSUME NEW M \in SUBSET Files
    PROVE  /\ IsFiniteSet(M) /\ M \in SUBSET Nat /\ Cardinality(M) \in 0 .. N
           /\ \A f \in M : Label(M, f) \in NonZero
           /\ \A f, g \in M : Label(M, f) = Label(M, g) => f = g
           /\ \A f \in M : \A v \in Nat \ {0} :
                Coefficient(M, f, v) = GfPow(Label(M, f), v - 1) /\ Coefficient(M, f, v) \in Words
<1>1. IsFiniteSet(M) /\ M \in SUBSET Nat
  BY FilesFacts, FS_Subset
<1>2. Cardinality(M) \in 0 .. N
  <2>1. Cardinality(M) \in Nat
    BY <1>1, FS_CardinalityType
  <2>2. Cardinality(M) <= Cardinality(Files)
    BY FilesFacts, FS_Subset
  <2> QED
    BY <2>1, <2>2, FilesFacts
<1>3. \A f \in M : Place(M, f) = Rank(M, f)
  BY DEF Place, Rank, Below
<1>4. \A f \in M : Place(M, f) + 1 \in 1 .. GfLimit /\ Place(M, f) + 1 \in 0 .. GfLimit
  <2>1. \A f \in M : Rank(M, f) \in 0 .. Cardinality(M) - 1
    BY <1>1, RankFacts
  <2> QED
    BY <1>2, <1>3, <2>1, FilesFacts
<1>5. ASSUME NEW f \in M, NEW g \in M, Label(M, f) = Label(M, g) PROVE f = g
  <2>1. Place(M, f) + 1 = Place(M, g) + 1
    BY <1>4, <1>5, AsWordFacts DEF Label
  <2>2. Place(M, f) \in Nat /\ Place(M, g) \in Nat
    BY <1>1, <1>3, RankFacts
  <2>3. Rank(M, f) = Rank(M, g) /\ Rank(M, f) \in Nat
    BY <1>3, <2>1, <2>2
  <2>4. ~(f < g) /\ ~(g < f)
    <3>1. \A x, z \in M : x < z => Rank(M, x) < Rank(M, z)
      BY <1>1, RankFacts
    <3> QED
      BY <2>3, <3>1
  <2>5. f \in Nat /\ g \in Nat
    BY <1>1
  <2> QED
    BY <2>4, <2>5
<1>6. \A f \in M : Label(M, f) \in NonZero
  BY <1>4, AsWordFacts DEF Label
<1>7. ASSUME NEW f \in M, NEW v \in Nat \ {0}
      PROVE  Coefficient(M, f, v) = GfPow(Label(M, f), v - 1) /\ Coefficient(M, f, v) \in Words
  <2>1. v - 1 \in Nat
    OBVIOUS
  <2>2. GfPow(Label(M, f), v - 1) \in NonZero
    BY <1>6, <2>1, PowFacts
  <2> QED
    BY <2>2 DEF Coefficient, Label, NonZero
<1> QED
  BY <1>1, <1>2, <1>5, <1>6, <1>7

\* The coefficients and the shards of files in some order.
LabelsOf(gs, m) == [c \in 1 .. m |-> Label(members, gs[c])]
ShardsOf(fs, gs, m) == [c \in 1 .. m |-> Shard(fs[gs[c]])]

\* What is left of a volume when the shares of the files that are as recorded
\* are subtracted, is what a row of the matrix makes of the others.
LEMMA LessOthers ==
    ASSUME NEW fs \in Recorded, members \in SUBSET Files, NEW missing \in SUBSET members, NEW d,
           \A f \in members \ missing : d[f] = fs[f], NEW v \in Nat \ {0},
           NEW m \in Nat, NEW gs \in Bijection(1 .. m, missing)
    PROVE  Xor(Parity(fs, members, members, v), Parity(d, members, members \ missing, v))
             = Moment(1 .. m, LabelsOf(gs, m), ShardsOf(fs, gs, m), v - 1)
<1> DEFINE s == Shares(members, fs, v)
           h == [f \in members \ missing |-> GfMul(Shard(d[f]), Coefficient(members, f, v))]
           I == 1 .. m
           a == [c \in I |-> Label(members, gs[c])]
           x == [c \in I |-> Shard(fs[gs[c]])]
           g == [c \in I |-> GfMul(GfPow(a[c], v - 1), x[c])]
<1>1. \A f \in members : s[f] \in Words /\ s[f] = GfMul(GfPow(Label(members, f), v - 1), Shard(fs[f]))
  <2> SUFFICES ASSUME NEW f \in members
               PROVE  s[f] \in Words /\ s[f] = GfMul(GfPow(Label(members, f), v - 1), Shard(fs[f]))
    OBVIOUS
  <2>1. Shard(fs[f]) \in Words
    BY ShardFacts
  <2>2. Coefficient(members, f, v) = GfPow(Label(members, f), v - 1) /\ Coefficient(members, f, v) \in Words
    BY CoefficientFacts
  <2>3. s[f] = GfMul(Shard(fs[f]), Coefficient(members, f, v))
    BY DEF Shares
  <2>4. GfMul(Shard(fs[f]), Coefficient(members, f, v)) \in Words
        /\ GfMul(Shard(fs[f]), Coefficient(members, f, v)) = GfMul(Coefficient(members, f, v), Shard(fs[f]))
    BY <2>1, <2>2, IsField
  <2> HIDE DEF s
  <2> QED
    BY <2>2, <2>3, <2>4
<1>2. Parity(fs, members, members, v) = Total(members, s)
  BY DEF Parity, Shares
<1>3. Parity(d, members, members \ missing, v) = Total(members \ missing, h)
  BY DEF Parity
<1>4. \A f \in members \ missing : h[f] = s[f]
  BY DEF Shares
<1>5. \A c \in I : gs[c] \in missing /\ gs[c] \in members
  BY DEF Bijection, Injection
<1>6. \A c \in I : g[c] = s[gs[c]]
  <2> HIDE DEF s
  <2> QED
    BY <1>1, <1>5
<1>7. Moment(I, a, x, v - 1) = Total(I, g)
  BY DEF Moment
<1>8. IsFiniteSet(I) /\ IsFiniteSet(members)
  BY CoefficientFacts, FS_Interval
<1> HIDE DEF s, h, g, a, x
<1>9. Total(members \ missing, h) = Total(members \ missing, s)
  BY <1>4, TotalSame
<1>10. Total(members, s) = Xor(Total(missing, s), Total(members \ missing, s))
  BY <1>1, <1>8, TotalOfParts
<1>11. Total(I, g) = Total(missing, s)
  <2> HIDE DEF I
  <2>1. gs \in Bijection(I, missing)
    BY DEF I
  <2> QED
    BY <1>6, <1>8, <2>1, TotalRenamed
<1>12. \A p, q : Xor(Xor(p, q), q) = p
  BY XorFacts
<1>13. Moment(I, a, x, v - 1) = Xor(Parity(fs, members, members, v), Parity(d, members, members \ missing, v))
  BY <1>2, <1>3, <1>7, <1>9, <1>10, <1>11, <1>12
<1> QED
  BY <1>13 DEF a, x, LabelsOf, ShardsOf

\* A set whose volumes are right, enough of them, and files of which all but
\* the bad ones are as recorded.
Solves ==
    /\ files \in Recorded /\ members \in SUBSET Files
    /\ size = Sizes(files) /\ VolumeSize(size, members) # 0
    /\ bad \in SUBSET members /\ bad # {} /\ \A f \in members \ bad : disk[f] = files[f]
    /\ DOMAIN recovery \in SUBSET Volumes /\ \A v \in DOMAIN recovery : v <= MaxFiles
    /\ Cardinality(bad) <= Cardinality(DOMAIN recovery)
    /\ \A v \in DOMAIN recovery : recovery[v] = Payload(files, size, members, v)

LEMMA LowestFacts ==
    ASSUME Solves
    PROVE  /\ IsFiniteSet(bad) /\ Cardinality(bad) \in Nat \ {0} /\ bad \in SUBSET Nat
           /\ Lowest \in SUBSET DOMAIN recovery /\ Lowest \in SUBSET (Nat \ {0}) /\ IsFiniteSet(Lowest)
           /\ Cardinality(Lowest) = Cardinality(bad)
<1> DEFINE D == DOMAIN recovery
           m == Cardinality(bad)
<1>1. D \in SUBSET (Nat \ {0}) /\ IsFiniteSet(D) /\ Cardinality(D) \in Nat
  <2>1. D \in SUBSET Volumes
    BY DEF Solves
  <2>2. IsFiniteSet(D)
    BY <2>1, VolumesFacts, FS_Subset
  <2> QED
    BY <2>1, <2>2, VolumesFacts, FS_CardinalityType
<1>2. IsFiniteSet(bad) /\ m \in Nat \ {0} /\ bad \in SUBSET Nat
  <2>1. bad \in SUBSET Files /\ bad # {}
    BY DEF Solves
  <2>2. IsFiniteSet(bad) /\ bad \in SUBSET Nat
    BY <2>1, CoefficientFacts
  <2>3. m \in Nat /\ m # 0
    BY <2>1, <2>2, FS_CardinalityType, FS_EmptySet
  <2> QED
    BY <2>2, <2>3
<1>3. Lowest = { v \in D : Rank(D, v) < m }
  <2>1. \A v \in D : v <= MaxFiles
    BY DEF Solves
  <2> QED
    BY <2>1 DEF Lowest, Rank, Below
<1>4. m \in 0 .. Cardinality(D)
  BY <1>1, <1>2 DEF Solves
<1> HIDE DEF D, m
<1>5. IsFiniteSet({ v \in D : Rank(D, v) < m }) /\ Cardinality({ v \in D : Rank(D, v) < m }) = m
  BY <1>1, <1>4, LowestOfSet
<1>6. Lowest \in SUBSET D /\ Lowest \in SUBSET (Nat \ {0}) /\ IsFiniteSet(Lowest) /\ Cardinality(Lowest) = m
  BY <1>1, <1>3, <1>5
<1> QED
  BY <1>2, <1>6 DEF D, m

\* The equations of solveMissing: the shards of the bad files satisfy them.
Equations(m, a, es, x, rhs) ==
    /\ a \in [1 .. m -> NonZero] /\ (\A b, c \in 1 .. m : a[b] = a[c] => b = c)
    /\ es \in [1 .. m -> Nat] /\ rhs \in Rows(m) /\ x \in Rows(m)
    /\ \A r \in 1 .. m : es[r] = Sorted(Lowest)[r] - 1
    /\ \A c \in 1 .. m : x[c] = Shard(files[Sorted(bad)[c]])
    /\ SolveMissing = Solve(PowerRows(m, a, es), rhs)
    /\ Satisfies(m, PowerRows(m, a, es), rhs, x)

LEMMA SolveMissingIs ==
    ASSUME Solves, NEW m \in Nat, m = Cardinality(bad)
    PROVE  \E a, es, x, rhs : Equations(m, a, es, x, rhs)
<1> DEFINE I == 1 .. m
           vs == Sorted(Lowest)
           gs == Sorted(bad)
           a == [c \in I |-> Label(members, gs[c])]
           es == [r \in I |-> vs[r] - 1]
           x == [c \in I |-> Shard(files[gs[c]])]
           others(v) == Parity(disk, members, members \ bad, v)
           mat0 == [r \in DOMAIN vs |-> [c \in DOMAIN gs |-> Coefficient(members, gs[c], vs[r])]]
           rhs0 == [r \in DOMAIN vs |-> Xor(recovery[vs[r]][1], others(vs[r]))]
           rhs == [r \in I |-> Moment(I, a, x, es[r])]
<1>1. SolveMissing = Solve(mat0, rhs0)
  BY Zenon DEF SolveMissing
<1>2. /\ gs \in [I -> bad] /\ DOMAIN gs = I
      /\ \A b, c \in I : gs[b] = gs[c] => b = c
      /\ \A g \in bad : \E c \in I : gs[c] = g
  BY LowestFacts, SortedFacts
<1>3. vs \in [I -> Lowest] /\ DOMAIN vs = I
  BY LowestFacts, SortedFacts
<1> HIDE DEF gs, vs, I
<1>4. gs \in Bijection(I, bad)
  BY <1>2 DEF Bijection, Injection, Surjection, IsInjective
<1>5. \A r \in I : vs[r] \in DOMAIN recovery /\ vs[r] \in Nat \ {0} /\ vs[r] - 1 \in Nat
  BY <1>3, LowestFacts
<1>6. \A c \in I : gs[c] \in bad /\ gs[c] \in members /\ gs[c] \in Files
  BY <1>2 DEF Solves
<1>20. members \in SUBSET Files
  BY DEF Solves
<1>7. a \in [I -> NonZero] /\ \A b, c \in I : a[b] = a[c] => b = c
  <2>1. \A c \in I : Label(members, gs[c]) \in NonZero
    BY <1>6, <1>20, CoefficientFacts
  <2>2. a \in [I -> NonZero]
    BY <2>1
  <2>3. \A b, c \in I : a[b] = a[c] => gs[b] = gs[c]
    <3>1. \A f, g \in members : Label(members, f) = Label(members, g) => f = g
      BY <1>20, CoefficientFacts
    <3>2. \A c \in I : a[c] = Label(members, gs[c])
      OBVIOUS
    <3> HIDE DEF a
    <3> QED
      BY <1>6, <3>1, <3>2
  <2> HIDE DEF a
  <2> QED
    BY <1>2, <2>2, <2>3
<1>8. x \in [I -> Words]
  <2>1. \A c \in I : Shard(files[gs[c]]) \in Words
    BY <1>6, ShardFacts DEF Solves
  <2> QED
    BY <2>1
<1>9. es \in [I -> Nat]
  BY <1>5
<1>10. mat0 = PowerRows(m, a, es)
  <2>1. PowerRows(m, a, es) = [r \in I |-> [c \in I |-> GfPow(Label(members, gs[c]), vs[r] - 1)]]
    <3>1. \A c \in I : a[c] = Label(members, gs[c])
      OBVIOUS
    <3>2. \A r \in I : es[r] = vs[r] - 1
      OBVIOUS
    <3>3. PowerRows(m, a, es) = [r \in I |-> [c \in I |-> GfPow(a[c], es[r])]]
      BY DEF PowerRows, I
    <3> HIDE DEF a, es
    <3>4. \A r \in I : [c \in I |-> GfPow(a[c], es[r])] = [c \in I |-> GfPow(Label(members, gs[c]), vs[r] - 1)]
      BY <3>1, <3>2
    <3> QED
      BY <3>3, <3>4
  <2>2. \A r \in I : \A c \in I : Coefficient(members, gs[c], vs[r]) = GfPow(Label(members, gs[c]), vs[r] - 1)
    BY <1>5, <1>6, <1>20, CoefficientFacts
  <2>3. \A r \in I : [c \in I |-> Coefficient(members, gs[c], vs[r])] = [c \in I |-> GfPow(Label(members, gs[c]), vs[r] - 1)]
    BY <2>2
  <2>4. mat0 = [r \in I |-> [c \in I |-> Coefficient(members, gs[c], vs[r])]]
    BY <1>2, <1>3
  <2> HIDE DEF a, es, mat0
  <2> QED
    BY <2>1, <2>3, <2>4
<1>11. ASSUME NEW r \in I
       PROVE  Xor(recovery[vs[r]][1], others(vs[r])) = Moment(I, a, x, es[r])
  <2> DEFINE v == vs[r]
  <2>1. v \in Nat \ {0} /\ v \in DOMAIN recovery
    BY <1>5
  <2>2. recovery[v] = <<Parity(files, members, members, v)>>
    BY <2>1 DEF Solves, Payload
  <2>3. es[r] = v - 1
    OBVIOUS
  <2> HIDE DEF v
  <2>4. Xor(Parity(files, members, members, v), Parity(disk, members, members \ bad, v))
        = Moment(1 .. m, [c \in 1 .. m |-> Label(members, gs[c])], [c \in 1 .. m |-> Shard(files[gs[c]])], v - 1)
    <3> DEFINE fs == files
               missing == bad
               d == disk
    <3>1. /\ fs \in Recorded /\ members \in SUBSET Files /\ missing \in SUBSET members
          /\ \A f \in members \ missing : d[f] = fs[f]
          /\ gs \in Bijection(1 .. m, missing)
      BY <1>4 DEF Solves, I
    <3> HIDE DEF fs, missing, d
    <3>2. Xor(Parity(fs, members, members, v), Parity(d, members, members \ missing, v))
          = Moment(1 .. m, LabelsOf(gs, m), ShardsOf(fs, gs, m), v - 1)
      BY <2>1, <3>1, LessOthers
    <3> QED
      BY <3>2 DEF fs, missing, d, LabelsOf, ShardsOf
  <2>5. Xor(Parity(files, members, members, v), others(v)) = Moment(I, a, x, v - 1)
    BY <2>4 DEF I
  <2> HIDE DEF a, x, others, es
  <2>6. recovery[v][1] = Parity(files, members, members, v)
    BY <2>2
  <2>7. Xor(recovery[v][1], others(v)) = Moment(I, a, x, es[r])
    BY <2>3, <2>5, <2>6
  <2> QED
    BY <2>7 DEF v
<1>12. rhs0 = rhs
  <2> HIDE DEF others, a, x, es
  <2> QED
    BY <1>3, <1>11
<1>13. rhs \in [I -> Words]
  BY TotalIsWord DEF Moment
<1>14. a \in [1 .. m -> NonZero] /\ (\A b, c \in 1 .. m : a[b] = a[c] => b = c) /\ es \in [1 .. m -> Nat]
       /\ x \in Rows(m) /\ rhs \in Rows(m)
  <2> HIDE DEF a, x, rhs, es
  <2> QED
    BY <1>7, <1>8, <1>9, <1>13 DEF I, Rows
<1>15. \A c \in 1 .. m : x[c] = Shard(files[gs[c]])
  BY DEF I
<1>16. \A r \in 1 .. m : es[r] = vs[r] - 1
  BY DEF I
<1>17. \A r \in 1 .. m : rhs[r] = Moment(1 .. m, a, x, es[r])
  BY DEF I
<1> HIDE DEF a, x, rhs, mat0, rhs0, es
<1>18. Satisfies(m, PowerRows(m, a, es), rhs, x)
  <2>1. \A r \in 1 .. m : Dot(m, PowerRows(m, a, es)[r], x) = Moment(1 .. m, a, x, es[r])
    BY <1>14, PowerRowsType
  <2> QED
    BY <1>17, <2>1 DEF Satisfies
<1>19. SolveMissing = Solve(PowerRows(m, a, es), rhs)
  BY <1>1, <1>10, <1>12
<1> QED
  BY <1>14, <1>15, <1>16, <1>18, <1>19 DEF vs, gs, Equations

\* The elimination gives the shards of the bad files, and volumes without a gap
\* are enough for it.
LEMMA Answers ==
    ASSUME Solves
    PROVE  /\ SolveMissing.ok => \A k \in 1 .. Cardinality(bad) :
                    SolveMissing.rhs[k] = Shard(files[Sorted(bad)[k]])
           /\ Consecutive(Lowest) => SolveMissing.ok
<1> DEFINE m == Cardinality(bad)
<1>0. m \in Nat \ {0} /\ m = Cardinality(bad)
  BY LowestFacts
<1> HIDE DEF m
<1>1. \E a, es, x, rhs : Equations(m, a, es, x, rhs)
  BY <1>0, SolveMissingIs
<1>2. PICK a, es, x, rhs :
        /\ a \in [1 .. m -> NonZero] /\ (\A b, c \in 1 .. m : a[b] = a[c] => b = c)
        /\ es \in [1 .. m -> Nat] /\ rhs \in Rows(m) /\ x \in Rows(m)
        /\ \A r \in 1 .. m : es[r] = Sorted(Lowest)[r] - 1
        /\ \A c \in 1 .. m : x[c] = Shard(files[Sorted(bad)[c]])
        /\ SolveMissing = Solve(PowerRows(m, a, es), rhs)
        /\ Satisfies(m, PowerRows(m, a, es), rhs, x)
  BY <1>1 DEF Equations
<1> DEFINE mat == PowerRows(m, a, es)
<1>3. mat \in Squares(m)
  BY <1>0, <1>2, PowerRowsType
<1>4. ASSUME SolveMissing.ok
      PROVE  \A k \in 1 .. m : SolveMissing.rhs[k] = Shard(files[Sorted(bad)[k]])
  <2>1. Solve(mat, rhs).ok /\ SolveMissing.rhs = Solve(mat, rhs).rhs
    BY <1>2, <1>4
  <2>2. Satisfies(m, mat, rhs, x) /\ rhs \in Rows(m) /\ x \in Rows(m)
    BY <1>2
  <2> HIDE DEF mat
  <2>3. \A k \in 1 .. m : Solve(mat, rhs).rhs[k] = x[k]
    BY <1>0, <1>3, <2>1, <2>2, SolveIsRight
  <2> QED
    BY <1>2, <2>1, <2>3
<1>5. ASSUME Consecutive(Lowest) PROVE SolveMissing.ok
  <2> DEFINE low == Lowest
             e == es[1]
  <2>1. low \in SUBSET Nat /\ IsFiniteSet(low) /\ Cardinality(low) = m
    BY <1>0, LowestFacts
  <2>2. Gapless(low)
    BY <1>5 DEF Consecutive, Gapless
  <2>3. \A r \in 1 .. m : es[r] = Sorted(low)[r] - 1
    BY <1>2
  <2> HIDE DEF low
  <2>4. \A r \in 1 .. m : Sorted(low)[r] = Sorted(low)[1] + (r - 1)
    BY <2>1, <2>2, SortedGapless
  <2>5. 1 \in 1 .. m /\ e \in Nat
    BY <1>0, <1>2
  <2>6. Sorted(low)[1] \in Nat
    <3>1. Sorted(low) \in [1 .. m -> low]
      BY <2>1, SortedFacts
    <3> QED
      BY <2>1, <2>5, <3>1
  <2>7. \A r \in 1 .. m : es[r] = e + (r - 1)
    BY <1>0, <2>3, <2>4, <2>5, <2>6
  <2> HIDE DEF e
  <2>8. Solve(PowerRows(m, a, es), rhs).ok
    BY <1>0, <1>2, <2>5, <2>7, RunsSolve
  <2> QED
    BY <1>2, <2>8
<1> QED
  BY <1>0, <1>4, <1>5

\* What is built of an answer that is right is what was recorded.
PlaceOf(f, S) == CHOOSE k \in 1 .. Cardinality(S) : Sorted(S)[k] = f

LEMMA RightIsRecorded ==
    ASSUME Solves, NEW rhs,
           \A k \in 1 .. Cardinality(bad) : rhs[k] = Shard(files[Sorted(bad)[k]]),
           NEW f \in bad
    PROVE  Trimmed(rhs[PlaceOf(f, bad)], f) = files[f]
<1> DEFINE k == PlaceOf(f, bad)
<1>1. \E i \in 1 .. Cardinality(bad) : Sorted(bad)[i] = f
  BY LowestFacts, SortedFacts
<1>2. k \in 1 .. Cardinality(bad) /\ Sorted(bad)[k] = f
  BY <1>1 DEF PlaceOf
<1> HIDE DEF k
<1>3. rhs[k] = Shard(files[f])
  BY <1>2
<1>4. f \in Files /\ files \in Recorded /\ size = Sizes(files)
  BY DEF Solves
<1>5. files[f] = IF size[f] = 0 THEN << >> ELSE <<Shard(files[f])>>
  BY <1>4, ShardFacts
<1>6. Trimmed(rhs[k], f) = files[f]
  BY <1>3, <1>5 DEF Trimmed
<1> QED
  BY <1>6 DEF k

-----------------------------------------------------------------------------
(***************************************************************************)
(* The invariant behind a repair that gives up.                            *)
(***************************************************************************)

\* A set that is known is of all the files, or the other client's; unless files
\* changed between two looks of a create, its sizes are those of the contents.
RightSet(s, fs, M) ==
    /\ fs \in Recorded /\ M \in SUBSET Files
    /\ M = Files \/ (M = Foreign.members /\ fs = Foreign.files)
    /\ ~slipped => s = Sizes(fs)

\* A volume that can be read has one of the numbers there may be, and holds the
\* parity of what it records.
VolumeRight(w, v) ==
    /\ v <= MaxFiles /\ RightSet(w.size, w.files, w.members)
    /\ ~slipped => w.payload = Payload(w.files, w.size, w.members, v)

WorldInv ==
    /\ disk \in [Files -> Contents \cup {Absent}]
    /\ index \notin {Absent, Junk} => RightSet(index.size, index.files, index.members)
    /\ DOMAIN volume = Volumes
    /\ \A v \in Volumes : ReadableAt(v) => VolumeRight(volume[v], v)

\* A set that is being made.
Making == pc \in {"hash", "encode", "index", "volume"}
MakeInv ==
    /\ Making \/ pc = "describe" => count \in Nat /\ N + count <= MaxFiles + 1
    /\ Making => RightSet(size, files, members) /\ members = Files
    /\ pc \in {"hash", "encode"} /\ ~slipped => disk = files
    /\ pc \in {"index", "volume"} /\ ~slipped =>
            \A v \in 1 .. count : recovery[v] = Payload(files, size, members, v)
    /\ pc = "volume" => at \in 1 .. count

\* The volumes that Parse takes, until the command ends.
Holding == { v \in AtHand : volume[v].payload # << >> }
InUse == \/ pc \in {"check", "repair", "solve", "rewrite"}
         \/ pc = "ended" /\ exit \in {2, 5}
UseInv ==
    /\ InUse => RightSet(size, files, members) /\ recovery = [v \in Holding |-> volume[v].payload]
    /\ pc \in {"solve", "rewrite"} =>
            /\ bad \in SUBSET members /\ bad # {}
            /\ Cardinality(bad) <= Cardinality(DOMAIN recovery \cap 1 .. MaxFiles)
    /\ pc = "rewrite" /\ calm /\ ~slipped /\ VolumeSize(size, members) # 0 =>
            \A f \in bad : Rebuilt(f) = files[f]

RefusalInv == Inv /\ WorldInv /\ MakeInv /\ UseInv /\ RefusedForAReason

LEMMA RefusalInit == Init => RefusalInv
<1> SUFFICES ASSUME Init PROVE RefusalInv
  OBVIOUS
<1>1. pc = "idle"
  BY DEF Init
<1>2. disk \in [Files -> Contents \cup {Absent}]
  BY Par1Assumption DEF Par1Assumption, Init, NoSet, ForeignSet
<1>3. ASSUME NoSet PROVE WorldInv
  <2>1. index = Absent /\ volume = [v \in Volumes |-> Absent]
    BY <1>3 DEF NoSet
  <2> QED
    BY <1>2, <2>1 DEF WorldInv, ReadableAt
<1>4. ASSUME ForeignSet PROVE WorldInv
  <2> DEFINE F == Foreign.files
             M == Foreign.members
  <2>1. /\ F \in Recorded /\ M \in SUBSET Files /\ Foreign.count \in 0 .. MaxFiles
        /\ MaxFiles \in Nat
    BY Par1Assumption, LimitFacts DEF Par1Assumption, Recorded, MaxFiles
  <2>2. RightSet(Sizes(F), F, M)
    BY <2>1 DEF RightSet
  <2>3. \A w : /\ ForeignFile(w).size = Sizes(F) /\ ForeignFile(w).files = F
               /\ ForeignFile(w).members = M /\ ForeignFile(w).payload = w
    BY DEF ForeignFile, VolumeFile
  <2>4. index \notin {Absent, Junk} => RightSet(index.size, index.files, index.members)
    BY <1>4, <2>2, <2>3 DEF ForeignSet
  <2>5. ASSUME NEW v \in Volumes, ReadableAt(v) PROVE VolumeRight(volume[v], v)
    <3>1. v <= Foreign.count /\ volume[v] = ForeignFile(Payload(F, Sizes(F), M, v))
      <4>1. v \in Nat /\ Foreign.count \in Nat
        BY <2>1, VolumesFacts
      <4>2. ~(v > Foreign.count)
        BY <1>4, <2>5 DEF ForeignSet, ReadableAt
      <4> QED
        BY <1>4, <4>1, <4>2 DEF ForeignSet
    <3>2. v <= MaxFiles
      BY <2>1, <3>1, VolumesFacts
    <3> QED
      BY <2>2, <2>3, <3>1, <3>2 DEF VolumeRight
  <2>6. DOMAIN volume = Volumes
    BY <1>4 DEF ForeignSet
  <2> QED
    BY <1>2, <2>4, <2>5, <2>6 DEF WorldInv
<1>5. WorldInv
  BY <1>3, <1>4 DEF Init
<1>6. MakeInv /\ UseInv /\ RefusedForAReason
  BY <1>1 DEF MakeInv, Making, UseInv, InUse, RefusedForAReason
<1> QED
  BY <1>5, <1>6, InitInv DEF RefusalInv

\* Known sets of the same hash are the same.
LEMMA SameHash ==
    ASSUME ~slipped, NEW s, NEW fs, NEW M, NEW t, NEW gs, NEW L,
           RightSet(s, fs, M), RightSet(t, gs, L), SetHash(fs, M) = SetHash(gs, L)
    PROVE  s = t /\ fs = gs /\ M = L
<1>1. /\ fs \in Recorded /\ gs \in Recorded /\ M \in SUBSET Files /\ L \in SUBSET Files
      /\ s = Sizes(fs) /\ t = Sizes(gs)
  BY DEF RightSet
<1>2. Cardinality(M) = Cardinality(L)
  <2>1. Cardinality(M) \in Nat /\ Cardinality(L) \in Nat
    BY <1>1, CoefficientFacts
  <2>2. DOMAIN SetHash(fs, M) = 1 .. Cardinality(M) /\ DOMAIN SetHash(gs, L) = 1 .. Cardinality(L)
    BY DEF SetHash
  <2>3. 1 .. Cardinality(M) = 1 .. Cardinality(L)
    BY <2>2
  <2> QED
    BY <2>1, <2>3
<1>3. CASE M = Files \/ L = Files
  <2>1. M = Files /\ L = Files
    BY <1>1, <1>2, <1>3, FilesFacts, FS_Subset
  <2>2. ASSUME NEW f \in Files PROVE fs[f] = gs[f]
    <3>1. PICK k \in 1 .. Cardinality(Files) : Sorted(Files)[k] = f
      BY FilesFacts, SortedFacts
    <3>2. SetHash(fs, Files)[k] = fs[Sorted(Files)[k]] /\ SetHash(gs, Files)[k] = gs[Sorted(Files)[k]]
      BY DEF SetHash
    <3> QED
      BY <2>1, <3>1, <3>2
  <2>3. fs = gs
    BY <1>1, <2>2 DEF Recorded
  <2> QED
    BY <1>1, <2>1, <2>3
<1>4. CASE M # Files /\ L # Files
  BY <1>1, <1>4 DEF RightSet
<1> QED
  BY <1>3, <1>4

(***************************************************************************)
(* The files, the archive and the volumes.                                 *)
(***************************************************************************)

\* Volumes that are not written stay right or can no longer be read.
LEMMA VolumesKept ==
    ASSUME WorldInv, ~slipped' => ~slipped,
           DOMAIN volume' = Volumes,
           \A v \in Volumes : volume'[v] = volume[v] \/ volume'[v] \in {Absent, Junk}
    PROVE  \A v \in Volumes : ReadableAt(v)' => VolumeRight(volume[v], v)'
  BY DEF WorldInv, ReadableAt, VolumeRight, RightSet

\* So does the archive.
LEMMA IndexKept ==
    ASSUME WorldInv, ~slipped' => ~slipped, index' \in {index, Absent, Junk}
    PROVE  index' \notin {Absent, Junk} => RightSet(index.size, index.files, index.members)'
  BY DEF WorldInv, RightSet

LEMMA WorldStays ==
    ASSUME WorldInv, UNCHANGED <<disk, index, volume>>, ~slipped' => ~slipped
    PROVE  WorldInv'
<1>1. \A v \in Volumes : ReadableAt(v)' => VolumeRight(volume[v], v)'
  BY VolumesKept DEF WorldInv
<1>2. index' \notin {Absent, Junk} => RightSet(index.size, index.files, index.members)'
  BY IndexKept
<1> QED
  BY <1>1, <1>2 DEF WorldInv

LEMMA WorldWritten ==
    ASSUME RefusalInv, UNCHANGED slipped, WriteIndex \/ WriteVolume
    PROVE  WorldInv'
<1>0. WorldInv /\ MakeInv
  BY DEF RefusalInv
<1>1. CASE WriteIndex
  <2>1. /\ RightSet(size, files, members) /\ UNCHANGED <<disk, volume>>
        /\ index' = VolumeFile(size, files, members, << >>)
    BY <1>0, <1>1 DEF WriteIndex, MakeInv, Making
  <2>2. index'.size = size /\ index'.files = files /\ index'.members = members
    BY <2>1 DEF VolumeFile
  <2>3. RightSet(index.size, index.files, index.members)'
    BY <2>1, <2>2 DEF RightSet
  <2>4. \A v \in Volumes : ReadableAt(v)' => VolumeRight(volume[v], v)'
    BY <1>0, <2>1, VolumesKept DEF WorldInv
  <2> QED
    BY <1>0, <2>1, <2>3, <2>4 DEF WorldInv
<1>2. CASE WriteVolume
  <2>1. /\ RightSet(size, files, members) /\ at \in 1 .. count /\ count \in Nat
        /\ N + count <= MaxFiles + 1
        /\ ~slipped => recovery[at] = Payload(files, size, members, at)
        /\ volume' = [volume EXCEPT ![at] = VolumeFile(size, files, members, recovery[at])]
        /\ UNCHANGED <<disk, index>>
    BY <1>0, <1>2 DEF WriteVolume, MakeInv, Making
  <2>2. at <= MaxFiles
    <3>1. N \in Nat \ {0} /\ MaxFiles \in Nat
      BY Par1Assumption, LimitFacts DEF Par1Assumption, MaxFiles
    <3> QED
      BY <2>1, <3>1
  <2>3. DOMAIN volume' = Volumes
    BY <1>0, <2>1 DEF WorldInv
  <2>4. ASSUME NEW v \in Volumes, ReadableAt(v)' PROVE VolumeRight(volume[v], v)'
    <3>1. CASE v = at
      <4>1. volume'[v] = VolumeFile(size, files, members, recovery[at])
        BY <1>0, <2>1, <3>1 DEF WorldInv
      <4>2. /\ volume'[v].size = size /\ volume'[v].files = files /\ volume'[v].members = members
            /\ volume'[v].payload = recovery[at]
        BY <4>1 DEF VolumeFile
      <4>3. RightSet(volume[v].size, volume[v].files, volume[v].members)'
        BY <2>1, <4>2 DEF RightSet
      <4>4. ~slipped' => volume'[v].payload = Payload(volume'[v].files, volume'[v].size, volume'[v].members, v)
        BY <2>1, <3>1, <4>2
      <4> QED
        BY <2>2, <3>1, <4>3, <4>4 DEF VolumeRight
    <3>2. CASE v # at
      <4>1. volume'[v] = volume[v]
        BY <1>0, <2>1, <3>2 DEF WorldInv
      <4> QED
        BY <1>0, <2>4, <4>1 DEF WorldInv, ReadableAt, VolumeRight, RightSet
    <3> QED
      BY <3>1, <3>2
  <2>5. disk' \in [Files -> Contents \cup {Absent}]
    BY <1>0, <2>1 DEF WorldInv
  <2>6. index' \notin {Absent, Junk} => RightSet(index.size, index.files, index.members)'
    BY <1>0, <2>1, IndexKept
  <2> QED
    BY <2>3, <2>4, <2>5, <2>6 DEF WorldInv
<1> QED
  BY <1>1, <1>2

LEMMA WorldRewritten ==
    ASSUME RefusalInv, UNCHANGED slipped, Rewrite
    PROVE  WorldInv'
<1>1. UNCHANGED <<index, volume>> /\ pc = "rewrite" /\ WorldInv /\ UseInv /\ Inv
  BY DEF Rewrite, RefusalInv
<1>2. files \in Recorded /\ todo \in SUBSET Files
  BY <1>1 DEF UseInv, InUse, Inv, SetsInv, RightSet
<1>3. disk' \in [Files -> Contents \cup {Absent}]
  <2>1. disk \in [Files -> Contents \cup {Absent}] /\ \A f \in Files : files[f] \in Contents
    BY <1>1, <1>2 DEF WorldInv, Recorded
  <2>2. disk' = disk \/ \E f \in todo : disk' = [disk EXCEPT ![f] = files[f]]
    BY <1>1, RewriteEffect
  <2> QED
    BY <1>2, <2>1, <2>2
<1>4. DOMAIN volume' = Volumes /\ \A v \in Volumes : volume'[v] = volume[v]
  BY <1>1 DEF WorldInv
<1>5. \A v \in Volumes : ReadableAt(v)' => VolumeRight(volume[v], v)'
  BY <1>1, <1>4, VolumesKept
<1>6. index' \notin {Absent, Junk} => RightSet(index.size, index.files, index.members)'
  BY <1>1, IndexKept
<1> QED
  BY <1>3, <1>4, <1>5, <1>6 DEF WorldInv

LEMMA WorldDisturbed ==
    ASSUME RefusalInv, Edit \/ (Environment /\ UNCHANGED slipped)
    PROVE  WorldInv'
<1>0. WorldInv
  BY DEF RefusalInv
<1>1. CASE Edit
  <2>1. UNCHANGED <<index, volume>> /\ (~slipped' => ~slipped)
    BY <1>1 DEF Edit
  <2>2. disk' \in [Files -> Contents \cup {Absent}]
    BY <1>0, <1>1 DEF Edit, WorldInv
  <2>3. DOMAIN volume' = Volumes /\ \A v \in Volumes : volume'[v] = volume[v]
    BY <1>0, <2>1 DEF WorldInv
  <2>4. \A v \in Volumes : ReadableAt(v)' => VolumeRight(volume[v], v)'
    BY <1>0, <2>1, <2>3, VolumesKept
  <2>5. index' \notin {Absent, Junk} => RightSet(index.size, index.files, index.members)'
    BY <1>0, <2>1, IndexKept
  <2> QED
    BY <2>2, <2>3, <2>4, <2>5 DEF WorldInv
<1>2. CASE Disaster /\ UNCHANGED slipped
  <2>1. PICK S \in SUBSET Files, L \in SUBSET Volumes, a \in {index, Absent, Junk} :
            /\ disk' = [f \in Files |-> IF f \in S THEN Absent ELSE disk[f]]
            /\ volume' = [v \in Volumes |-> IF v \in L THEN Absent ELSE volume[v]]
            /\ index' = a
    BY <1>2, Zenon DEF Disaster
  <2>2. disk' \in [Files -> Contents \cup {Absent}]
    BY <1>0, <2>1 DEF WorldInv
  <2>3. DOMAIN volume' = Volumes /\ \A v \in Volumes : volume'[v] = volume[v] \/ volume'[v] \in {Absent, Junk}
    BY <2>1
  <2>4. \A v \in Volumes : ReadableAt(v)' => VolumeRight(volume[v], v)'
    BY <1>0, <1>2, <2>3, VolumesKept
  <2>5. index' \notin {Absent, Junk} => RightSet(index.size, index.files, index.members)'
    BY <1>0, <1>2, <2>1, IndexKept
  <2> QED
    BY <2>2, <2>3, <2>4, <2>5 DEF WorldInv
<1>3. CASE (WriteError \/ Crash) /\ UNCHANGED slipped
  <2>1. Torn
    BY <1>3 DEF WriteError, Crash
  <2>2. /\ disk' = disk /\ index' \in {index, Junk}
        /\ volume' = volume \/ volume' = [volume EXCEPT ![at] = Junk]
    BY <2>1 DEF Torn
  <2>3. DOMAIN volume' = Volumes /\ \A v \in Volumes : volume'[v] = volume[v] \/ volume'[v] \in {Absent, Junk}
    BY <1>0, <2>2 DEF WorldInv
  <2>4. \A v \in Volumes : ReadableAt(v)' => VolumeRight(volume[v], v)'
    BY <1>0, <1>3, <2>3, VolumesKept
  <2>5. index' \notin {Absent, Junk} => RightSet(index.size, index.files, index.members)'
    BY <1>0, <1>3, <2>2, IndexKept
  <2> QED
    BY <1>0, <2>2, <2>3, <2>4, <2>5 DEF WorldInv
<1>4. CASE ReadError /\ UNCHANGED slipped
  BY <1>0, <1>4, WorldStays DEF ReadError
<1> QED
  BY <1>1, <1>2, <1>3, <1>4 DEF Environment

LEMMA WorldNext == ASSUME RefusalInv, Next PROVE WorldInv'
<1>1. CASE Edit \/ (Environment /\ UNCHANGED slipped)
  BY <1>1, WorldDisturbed
<1>2. CASE (WriteIndex \/ WriteVolume) /\ UNCHANGED slipped
  BY <1>2, WorldWritten
<1>3. CASE Rewrite /\ UNCHANGED slipped
  BY <1>3, WorldRewritten
<1>4. CASE /\ \/ StartCreate \/ StartCheck \/ Return \/ Describe \/ Hash \/ Encode
              \/ Parse \/ Check \/ Repair \/ SolveVolumes
           /\ UNCHANGED slipped
  <2>1. UNCHANGED <<disk, index, volume>>
    BY <1>4 DEF StartCreate, StartCheck, Return, Describe, Hash, Encode, Parse, Check, Repair,
         SolveVolumes, world
  <2> QED
    BY <1>4, <2>1, WorldStays DEF RefusalInv
<1> QED
  BY <1>1, <1>2, <1>3, <1>4 DEF Next, Step

(***************************************************************************)
(* A set that is being made.                                               *)
(***************************************************************************)

LEMMA MakeBegins ==
    ASSUME RefusalInv, StartCreate \/ Describe \/ Hash \/ Encode, UNCHANGED slipped
    PROVE  MakeInv'
<1>0. /\ MakeInv /\ disk \in [Files -> Contents \cup {Absent}]
      /\ N \in Nat \ {0} /\ MaxFiles \in Nat
  BY Par1Assumption, LimitFacts DEF RefusalInv, WorldInv, Par1Assumption, MaxFiles
<1>1. CASE StartCreate
  <2>1. PICK r \in Requests : count' = Count(r)
    BY <1>1 DEF StartCreate
  <2>2. count' \in Nat
    BY <2>1, VolumesFacts
  <2> DEFINE c == Count(r)
  <2>3. CASE N + c <= MaxFiles + 1
    <3>1. pc' \in {"ended", "describe"}
      BY <1>1 DEF StartCreate, Exit, Go
    <3> QED
      BY <2>1, <2>2, <2>3, <3>1 DEF MakeInv, Making
  <2>4. CASE N + c > MaxFiles + 1
    <3>1. pc' = "ended"
      BY <1>1, <2>1, <2>4 DEF StartCreate, Exit, Go
    <3> QED
      BY <3>1 DEF MakeInv, Making
  <2>5. N + c \in Nat /\ MaxFiles + 1 \in Nat
    <3>1. c \in Nat
      BY VolumesFacts
    <3> HIDE DEF c
    <3> QED
      BY <1>0, <3>1
  <2> QED
    BY <2>3, <2>4, <2>5
<1>2. CASE Describe
  <2>1. /\ pc = "describe" /\ disk' = disk /\ count' = count
        /\ \/ pc' = "ended"
           \/ /\ pc' = "hash" /\ \A f \in Files : disk[f] # Absent
              /\ files' = disk /\ size' = Sizes(disk) /\ members' = Files
    BY <1>2 DEF Describe, Exit, Go, world
  <2>2. CASE pc' = "ended"
    BY <2>2 DEF MakeInv, Making
  <2>3. CASE pc' # "ended"
    <3>1. disk \in Recorded
      BY <1>0, <2>1, <2>3 DEF Recorded
    <3>2. RightSet(size, files, members)'
      BY <2>1, <2>3, <3>1 DEF RightSet
    <3> QED
      BY <1>0, <2>1, <2>3, <3>2 DEF MakeInv, Making
  <2> QED
    BY <2>2, <2>3
<1>3. CASE Hash
  <2>1. pc = "hash" /\ pc' = "encode" /\ UNCHANGED <<disk, count, size, members>>
    BY <1>3 DEF Hash, Go, world
  <2>2. PICK S \in SUBSET Files :
          files' = [f \in Files |-> IF f \in S \/ disk[f] = Absent THEN files[f] ELSE disk[f]]
    BY <1>3 DEF Hash
  <2>3. RightSet(size, files, members) /\ members = Files /\ (~slipped => disk = files)
    BY <1>0, <2>1 DEF MakeInv, Making
  <2>4. files \in [Files -> Contents]
    BY <2>3 DEF RightSet, Recorded
  <2>5. files' \in [Files -> Contents]
    BY <1>0, <2>2, <2>4
  <2>6. ~slipped => files' = files
    BY <2>2, <2>3, <2>4
  <2>7. RightSet(size, files, members)'
    BY <2>1, <2>3, <2>5, <2>6 DEF RightSet, Recorded
  <2> QED
    BY <1>0, <2>1, <2>3, <2>6, <2>7 DEF MakeInv, Making
<1>4. CASE Encode
  <2>1. /\ pc = "encode" /\ UNCHANGED <<disk, size, files, members, count>>
        /\ \/ pc' = "ended"
           \/ pc' = "index" /\ recovery' = [v \in 1 .. count |-> Payload(disk, size, members, v)]
    BY <1>4 DEF Encode, Exit, Go, world
  <2>2. CASE pc' = "ended"
    BY <2>2 DEF MakeInv, Making
  <2>3. CASE pc' = "index" /\ recovery' = [v \in 1 .. count |-> Payload(disk, size, members, v)]
    <3>1. RightSet(size, files, members) /\ members = Files /\ (~slipped => disk = files)
      BY <1>0, <2>1 DEF MakeInv, Making
    <3>2. RightSet(size, files, members)'
      BY <2>1, <3>1 DEF RightSet
    <3>3. ~slipped => \A v \in 1 .. count : recovery'[v] = Payload(files, size, members, v)
      BY <2>3, <3>1
    <3>4. count \in Nat /\ N + count <= MaxFiles + 1
      BY <1>0, <2>1 DEF MakeInv, Making
    <3>5. ~slipped' => \A v \in 1 .. count' : recovery'[v] = Payload(files', size', members', v)
      BY <2>1, <3>3
    <3> QED
      BY <2>1, <2>3, <3>1, <3>2, <3>4, <3>5 DEF MakeInv, Making
  <2> QED
    BY <2>1, <2>2, <2>3
<1> QED
  BY <1>1, <1>2, <1>3, <1>4

LEMMA MakeGoesOn ==
    ASSUME RefusalInv, WriteIndex \/ WriteVolume, UNCHANGED slipped
    PROVE  MakeInv'
<1>0. MakeInv
  BY DEF RefusalInv
<1>1. CASE WriteIndex
  <2>1. /\ pc = "index" /\ at' = 1 /\ UNCHANGED <<size, files, members, count, recovery>>
        /\ pc' = "ended" \/ (pc' = "volume" /\ count # 0)
    BY <1>1 DEF WriteIndex, Exit, Go, set
  <2> QED
    BY <1>0, <2>1 DEF MakeInv, Making, RightSet
<1>2. CASE WriteVolume
  <2>1. /\ pc = "volume" /\ at' = at + 1 /\ UNCHANGED <<size, files, members, count, recovery>>
        /\ pc' = "ended" \/ (pc' = "volume" /\ at # count)
    BY <1>2 DEF WriteVolume, Exit, Go, set
  <2> QED
    BY <1>0, <2>1 DEF MakeInv, Making, RightSet
<1> QED
  BY <1>1, <1>2

LEMMA MakeNext == ASSUME RefusalInv, Next PROVE MakeInv'
<1>1. CASE Edit
  <2>1. /\ UNCHANGED <<count, size, files, members, recovery, at, pc>>
        /\ slipped' = (slipped \/ pc \in {"hash", "encode"})
    BY <1>1 DEF Edit, set, work
  <2>2. (~slipped' => ~slipped) /\ (pc \in {"hash", "encode"} => slipped')
    BY <2>1, Zenon
  <2> QED
    BY <2>1, <2>2 DEF RefusalInv, MakeInv, Making, RightSet
<1>2. CASE (StartCreate \/ Describe \/ Hash \/ Encode) /\ UNCHANGED slipped
  BY <1>2, MakeBegins
<1>3. CASE (WriteIndex \/ WriteVolume) /\ UNCHANGED slipped
  BY <1>3, MakeGoesOn
<1>4. CASE StartCheck \/ Return \/ Parse \/ Check \/ Repair \/ SolveVolumes \/ Rewrite \/ Environment
  <2>1. pc' \notin {"describe", "hash", "encode", "index", "volume"}
    <3>1. CASE StartCheck \/ Return \/ Parse \/ Check \/ Repair \/ SolveVolumes
      BY <3>1 DEF StartCheck, Return, Gone, Parse, Check, Repair, SolveVolumes, Exit, Go
    <3>2. CASE Rewrite
      BY <3>2, RewriteEffect DEF RefusalInv
    <3>3. CASE Environment
      BY <3>3 DEF Environment, Disaster, WriteError, ReadError, Crash, Gone, Exit, Go
    <3> QED
      BY <1>4, <3>1, <3>2, <3>3
  <2> QED
    BY <2>1 DEF MakeInv, Making
<1> QED
  BY <1>1, <1>2, <1>3, <1>4 DEF Next, Step

(***************************************************************************)
(* A set that is in use.                                                   *)
(***************************************************************************)

\* With volumes that are right, those Parse took are those at hand.
LEMMA HoldingFacts ==
    ASSUME WorldInv, InUse, UseInv, ~slipped, VolumeSize(size, members) # 0
    PROVE  /\ DOMAIN recovery = AtHand /\ AtHand \in SUBSET Volumes
           /\ \A v \in AtHand : v <= MaxFiles /\ recovery[v] = Payload(files, size, members, v)
           /\ DOMAIN recovery \cap 1 .. MaxFiles = DOMAIN recovery
<1>1. recovery = [v \in Holding |-> volume[v].payload] /\ RightSet(size, files, members)
  BY DEF UseInv
<1>2. AtHand \in SUBSET Volumes /\ \A v \in AtHand : v \in Nat \ {0}
  BY VolumesFacts DEF AtHand
<1>3. ASSUME NEW v \in AtHand
      PROVE  v <= MaxFiles /\ volume[v].payload = Payload(files, size, members, v)
  <2> DEFINE w == volume[v]
  <2>1. VolumeRight(w, v) /\ SetHash(w.files, w.members) = SetHash(files, members)
    BY <1>2 DEF WorldInv, AtHand, SameSet
  <2>2. RightSet(w.size, w.files, w.members) /\ v <= MaxFiles
        /\ w.payload = Payload(w.files, w.size, w.members, v)
    BY <2>1 DEF VolumeRight
  <2> HIDE DEF w
  <2>3. w.size = size /\ w.files = files /\ w.members = members
    BY <1>1, <2>1, <2>2, SameHash
  <2>4. w.payload = Payload(files, size, members, v)
    BY <2>2, <2>3
  <2> QED
    BY <2>2, <2>4 DEF w
<1>4. \A v : Payload(files, size, members, v) # << >>
  BY DEF Payload
<1>5. Holding = AtHand
  BY <1>3, <1>4 DEF Holding
<1>6. DOMAIN recovery = AtHand /\ \A v \in AtHand : recovery[v] = Payload(files, size, members, v)
  BY <1>1, <1>3, <1>5
<1>7. MaxFiles \in Nat
  BY LimitFacts DEF MaxFiles
<1>8. \A v \in AtHand : v \in 1 .. MaxFiles
  BY <1>2, <1>3, <1>7
<1> QED
  BY <1>2, <1>3, <1>6, <1>8

\* The volumes that are held, as a function of the volumes and of the set.
HeldOf(vol, fs, M) ==
    { v \in Volumes : /\ v <= Numbered /\ vol[v] \notin {Absent, Junk}
                      /\ SetHash(vol[v].files, vol[v].members) = SetHash(fs, M)
                      /\ vol[v].payload # << >> }

LEMMA HoldingIs ==
    /\ Holding = HeldOf(volume, files, members)
    /\ Holding' = HeldOf(volume', files', members')
  BY DEF Holding, AtHand, ReadableAt, SameSet, HeldOf

\* A set is used while nothing is written to the volumes.
LEMMA UseStays ==
    ASSUME UseInv, UNCHANGED <<size, files, members, recovery, volume>>, ~slipped' => ~slipped,
           InUse' => InUse,
           pc' \in {"solve", "rewrite"} => pc \in {"solve", "rewrite"} /\ bad' = bad,
           ~(pc' = "rewrite" /\ calm')
    PROVE  UseInv'
<1>1. ASSUME InUse'
      PROVE  RightSet(size, files, members)' /\ recovery' = [v \in Holding' |-> volume'[v].payload]
  <2>1. RightSet(size, files, members) /\ recovery = [v \in Holding |-> volume[v].payload]
    BY <1>1 DEF UseInv
  <2>2. Holding' = Holding
    BY HoldingIs
  <2>3. RightSet(size, files, members)'
    BY <2>1 DEF RightSet
  <2> QED
    BY <2>1, <2>2, <2>3
<1>2. ASSUME pc' \in {"solve", "rewrite"}
      PROVE  /\ bad' \in SUBSET members' /\ bad' # {}
             /\ Cardinality(bad') <= Cardinality(DOMAIN recovery' \cap 1 .. MaxFiles)
  BY <1>2 DEF UseInv
<1> QED
  BY <1>1, <1>2 DEF UseInv

\* It is made of what the volumes hold that are of the set of the leader.
LEMMA UseBegins ==
    ASSUME RefusalInv, Parse, UNCHANGED slipped
    PROVE  UseInv'
<1>0. WorldInv /\ UNCHANGED volume
  BY DEF RefusalInv, Parse, world
<1>1. CASE index = Absent \/ (index = Junk /\ Listed = {})
  <2>1. pc' = "ended" /\ exit' = 4
    BY <1>1 DEF Parse, Exit
  <2> QED
    BY <2>1 DEF UseInv, InUse
<1>2. CASE ~(index = Absent \/ (index = Junk /\ Listed = {}))
  <2>1. /\ pc' = "check" /\ size' = Leader.size /\ files' = Leader.files /\ members' = Leader.members
        /\ recovery' = [v \in Usable |-> volume[v].payload]
    BY <1>2 DEF Parse, Go
  <2>2. RightSet(Leader.size, Leader.files, Leader.members)
    BY <1>0, <1>2, LeaderIs DEF WorldInv, VolumeRight
  <2>3. RightSet(size, files, members)'
    BY <2>1, <2>2 DEF RightSet
  <2>4. Usable = Holding'
    <3>1. Usable = HeldOf(volume, Leader.files, Leader.members)
      BY DEF Usable, Listed, ReadableAt, SameSet, HeldOf
    <3> QED
      BY <1>0, <2>1, <3>1, HoldingIs
  <2>5. recovery' = [v \in Holding' |-> volume'[v].payload]
    BY <1>0, <2>1, <2>4
  <2> QED
    BY <2>1, <2>3, <2>5 DEF UseInv
<1> QED
  BY <1>1, <1>2

LEMMA UsePlanned ==
    ASSUME RefusalInv, Repair, UNCHANGED slipped
    PROVE  UseInv'
<1>0. /\ UseInv /\ pc = "repair" /\ UNCHANGED <<size, files, members, recovery, volume>>
      /\ members \in SUBSET Files /\ Verify(members)
  BY DEF RefusalInv, Inv, SetsInv, Repair, set
<1>1. CASE pc' = "ended"
  BY <1>0, <1>1, UseStays DEF InUse
<1>2. CASE pc' # "ended"
  <2>1. /\ pc' = "solve" /\ bad' # {}
        /\ ~(Cardinality(DOMAIN recovery \cap 1 .. MaxFiles) < Cardinality(bad'))
    BY <1>2 DEF Repair, Exit, Go
  <2>2. bad' \in SUBSET members
    BY <1>0, VerifyFacts
  <2>3. Cardinality(bad') \in Nat
    <3>1. bad' \in SUBSET Files
      BY <1>0, <2>2
    <3>2. IsFiniteSet(bad')
      BY <3>1, FilesFacts, FS_Subset
    <3> QED
      BY <3>2, FS_CardinalityType
  <2>4. Cardinality(DOMAIN recovery \cap 1 .. MaxFiles) \in Nat
    <3>1. IsFiniteSet(1 .. MaxFiles)
      BY LimitFacts, FS_Interval DEF MaxFiles
    <3>2. IsFiniteSet(DOMAIN recovery \cap 1 .. MaxFiles)
      BY <3>1, FS_Subset
    <3> QED
      BY <3>2, FS_CardinalityType
  <2>5. Cardinality(bad') <= Cardinality(DOMAIN recovery' \cap 1 .. MaxFiles)
    BY <1>0, <2>1, <2>3, <2>4
  <2>6. Holding' = Holding
    BY <1>0, HoldingIs
  <2>7. RightSet(size, files, members)' /\ recovery' = [v \in Holding' |-> volume'[v].payload]
    BY <1>0, <2>6 DEF UseInv, InUse, RightSet
  <2> QED
    BY <1>0, <2>1, <2>2, <2>5, <2>7 DEF UseInv
<1> QED
  BY <1>1, <1>2

\* At the elimination, if nothing went wrong.
LEMMA SolvesWhenCalm ==
    ASSUME RefusalInv, pc = "solve", calm, ~slipped, VolumeSize(size, members) # 0
    PROVE  Solves
<1>1. UseInv /\ InUse /\ WorldInv /\ Inv
  BY DEF RefusalInv, InUse
<1>2. \A f \in members \ bad : disk[f] = files[f]
  BY <1>1 DEF Inv, AsRecorded
<1> QED
  BY <1>1, <1>2, HoldingFacts DEF Solves, UseInv, RightSet

LEMMA UseSolved ==
    ASSUME RefusalInv, SolveVolumes, UNCHANGED slipped
    PROVE  UseInv'
<1>0. /\ UseInv /\ pc = "solve" /\ UNCHANGED <<size, files, members, recovery, volume, bad, calm>>
  BY DEF RefusalInv, SolveVolumes, world, set
<1>1. CASE ~(pc' = "rewrite" /\ calm' /\ ~slipped' /\ VolumeSize(size', members') # 0)
  <2>1. pc' \in {"ended", "rewrite"}
    BY DEF SolveVolumes, Exit, Go
  <2>2. /\ RightSet(size, files, members) /\ recovery = [v \in Holding |-> volume[v].payload]
        /\ bad \in SUBSET members /\ bad # {}
        /\ Cardinality(bad) <= Cardinality(DOMAIN recovery \cap 1 .. MaxFiles)
    BY <1>0 DEF UseInv, InUse
  <2>3. Holding' = Holding
    BY <1>0, HoldingIs
  <2>4. RightSet(size, files, members)' /\ recovery' = [v \in Holding' |-> volume'[v].payload]
    BY <1>0, <2>2, <2>3 DEF RightSet
  <2>5. /\ bad' \in SUBSET members' /\ bad' # {}
        /\ Cardinality(bad') <= Cardinality(DOMAIN recovery' \cap 1 .. MaxFiles)
    BY <1>0, <2>2
  <2> QED
    BY <1>1, <2>4, <2>5 DEF UseInv
<1>2. CASE pc' = "rewrite" /\ calm' /\ ~slipped' /\ VolumeSize(size', members') # 0
  <2>1. Solves
    BY <1>0, <1>2, SolvesWhenCalm
  <2>2. answer' = SolveMissing /\ SolveMissing.ok
    BY <1>2 DEF SolveVolumes, Exit, Go
  <2>3. \A k \in 1 .. Cardinality(bad) : SolveMissing.rhs[k] = Shard(files[Sorted(bad)[k]])
    BY <2>1, <2>2, Answers
  <2>4. ASSUME NEW f \in bad PROVE Trimmed(answer'.rhs[PlaceOf(f, bad)], f) = files[f]
    <3>1. Trimmed(SolveMissing.rhs[PlaceOf(f, bad)], f) = files[f]
      BY <2>1, <2>3, RightIsRecorded
    <3> QED
      BY <2>2, <3>1
  <2>5. \A f : Rebuilt(f)' = IF size'[f] = 0 THEN << >> ELSE <<answer'.rhs[PlaceOf(f, bad')]>>
    BY DEF Rebuilt, Trimmed, PlaceOf
  <2>6. \A f \in bad' : Rebuilt(f)' = files'[f]
    BY <1>0, <2>4, <2>5 DEF Trimmed
  <2>7. /\ RightSet(size, files, members) /\ recovery = [v \in Holding |-> volume[v].payload]
        /\ bad \in SUBSET members /\ bad # {}
        /\ Cardinality(bad) <= Cardinality(DOMAIN recovery \cap 1 .. MaxFiles)
    BY <1>0 DEF UseInv, InUse
  <2>8. Holding' = Holding
    BY <1>0, HoldingIs
  <2>9. RightSet(size, files, members)' /\ recovery' = [v \in Holding' |-> volume'[v].payload]
    BY <1>0, <2>7, <2>8 DEF RightSet
  <2>10. /\ bad' \in SUBSET members' /\ bad' # {}
         /\ Cardinality(bad') <= Cardinality(DOMAIN recovery' \cap 1 .. MaxFiles)
    BY <1>0, <2>7
  <2> QED
    BY <2>6, <2>9, <2>10 DEF UseInv
<1> QED
  BY <1>1, <1>2

LEMMA UseRewritten ==
    ASSUME RefusalInv, Rewrite, UNCHANGED slipped
    PROVE  UseInv'
<1>0. /\ UseInv /\ pc = "rewrite" /\ UNCHANGED <<size, files, members, recovery, volume, bad, answer, calm>>
  BY DEF RefusalInv, Rewrite, set
<1>1. /\ RightSet(size, files, members) /\ recovery = [v \in Holding |-> volume[v].payload]
      /\ bad \in SUBSET members /\ bad # {}
      /\ Cardinality(bad) <= Cardinality(DOMAIN recovery \cap 1 .. MaxFiles)
  BY <1>0 DEF UseInv, InUse
<1>2. Holding' = Holding
  BY <1>0, HoldingIs
<1>3. RightSet(size, files, members)' /\ recovery' = [v \in Holding' |-> volume'[v].payload]
  BY <1>0, <1>1, <1>2 DEF RightSet
<1>4. /\ bad' \in SUBSET members' /\ bad' # {}
      /\ Cardinality(bad') <= Cardinality(DOMAIN recovery' \cap 1 .. MaxFiles)
  BY <1>0, <1>1
<1>5. ASSUME calm', ~slipped', VolumeSize(size', members') # 0, NEW f \in bad'
      PROVE  Rebuilt(f)' = files'[f]
  <2>1. Rebuilt(f) = files[f]
    BY <1>0, <1>5 DEF UseInv
  <2>2. Rebuilt(f) = IF size[f] = 0 THEN << >> ELSE <<answer.rhs[PlaceOf(f, bad)]>>
    BY DEF Rebuilt, Trimmed, PlaceOf
  <2>3. Rebuilt(f)' = IF size'[f] = 0 THEN << >> ELSE <<answer'.rhs[PlaceOf(f, bad')]>>
    BY DEF Rebuilt, Trimmed, PlaceOf
  <2> QED
    BY <1>0, <2>1, <2>2, <2>3
<1> QED
  BY <1>3, <1>4, <1>5 DEF UseInv

LEMMA UseNext == ASSUME RefusalInv, Next PROVE UseInv'
<1>0. UseInv
  BY DEF RefusalInv
<1>1. CASE Parse /\ UNCHANGED slipped
  BY <1>1, UseBegins
<1>2. CASE Repair /\ UNCHANGED slipped
  BY <1>2, UsePlanned
<1>3. CASE SolveVolumes /\ UNCHANGED slipped
  BY <1>3, UseSolved
<1>4. CASE Rewrite /\ UNCHANGED slipped
  BY <1>4, UseRewritten
<1>5. CASE Check /\ UNCHANGED slipped
  <2>1. /\ UNCHANGED <<size, files, members, recovery, volume>>
        /\ pc = "check" /\ pc' \in {"ended", "repair"}
    BY <1>5 DEF Check, Exit, Go, set
  <2> QED
    BY <1>0, <1>5, <2>1, UseStays DEF InUse
<1>6. CASE Edit
  <2>1. /\ UNCHANGED <<size, files, members, recovery, volume, bad, pc, exit>> /\ calm' = (pc = "idle")
        /\ (~slipped' => ~slipped)
    BY <1>6 DEF Edit, set, work
  <2>2. ~(pc' = "rewrite" /\ calm')
    BY <2>1
  <2>3. InUse' => InUse
    BY <2>1 DEF InUse
  <2> QED
    BY <1>0, <2>1, <2>2, <2>3, UseStays
<1>7. CASE (WriteError \/ ReadError) /\ UNCHANGED slipped
  <2>1. UNCHANGED <<size, files, members, recovery>> /\ pc' = "ended"
    BY <1>7 DEF WriteError, ReadError, Exit, set
  <2>2. InUse' => pc \in {"solve", "rewrite"}
    BY <1>7 DEF WriteError, ReadError, Exit, InUse
  <2>3. pc \in {"solve", "rewrite"} => UNCHANGED volume
    BY <1>7 DEF WriteError, ReadError, Torn
  <2>4. CASE InUse'
    <3>1. InUse
      BY <2>2, <2>4 DEF InUse
    <3> QED
      BY <1>0, <1>7, <2>1, <2>2, <2>3, <2>4, <3>1, UseStays
  <2>5. CASE ~InUse'
    BY <2>5 DEF UseInv, InUse
  <2> QED
    BY <2>4, <2>5
<1>8. CASE \/ StartCreate \/ StartCheck \/ Return \/ Describe \/ Hash \/ Encode \/ WriteIndex \/ WriteVolume
           \/ Disaster \/ Crash
  <2>1. ~InUse'
    BY <1>8 DEF StartCreate, StartCheck, Return, Describe, Hash, Encode, WriteIndex, WriteVolume,
         Disaster, Crash, Gone, Exit, Go, InUse
  <2> QED
    BY <2>1 DEF UseInv, InUse
<1> QED
  BY <1>1, <1>2, <1>3, <1>4, <1>5, <1>6, <1>7, <1>8 DEF Next, Step, Environment

(***************************************************************************)
(* The ends of a command that gives up.                                    *)
(***************************************************************************)

\* The volumes a repair uses, as a function of what it knows.
LowestOf(rec, S) == { v \in DOMAIN rec :
                        v <= MaxFiles /\ Cardinality({ u \in DOMAIN rec : u < v }) < Cardinality(S) }

GivesUp == pc = "ended" /\ exit \in {2, 5} /\ calm /\ ~slipped /\ VolumeSize(size, members) # 0

\* A command gives up in calm at four places only.
LEMMA GivesUpWhere ==
    ASSUME RefusalInv, Next, GivesUp'
    PROVE  (Check \/ Repair \/ SolveVolumes \/ Rewrite) /\ UNCHANGED slipped
<1>0. pc' = "ended" /\ exit' \in {2, 5} /\ calm'
  BY DEF GivesUp
<1>1. ~Edit
  BY <1>0 DEF Edit
<1>2. StartCreate \/ Describe \/ Encode => pc' # "ended" \/ exit' = 3
  BY DEF StartCreate, Describe, Encode, Exit, Go
<1>3. StartCheck \/ Return \/ Hash => pc' # "ended"
  BY DEF StartCheck, Return, Hash, Gone, Go
<1>4. WriteIndex \/ WriteVolume => pc' # "ended" \/ exit' = 0
  BY DEF WriteIndex, WriteVolume, Exit, Go
<1>5. Parse => pc' # "ended" \/ exit' = 4
  BY DEF Parse, Exit, Go
<1>6. ~Environment
  BY <1>0 DEF Environment, Disaster, WriteError, ReadError, Crash, Gone, Exit, Go
<1> QED
  BY <1>0, <1>1, <1>2, <1>3, <1>4, <1>5, <1>6 DEF Next, Step

LEMMA RefusedNext == ASSUME RefusalInv, Next PROVE RefusedForAReason'
<1> SUFFICES ASSUME GivesUp'
             PROVE  Cardinality(AtHand') < Cardinality(bad') \/ ~Consecutive(Lowest')
  BY DEF RefusedForAReason, GivesUp
<1>1. (Check \/ Repair \/ SolveVolumes \/ Rewrite) /\ UNCHANGED slipped
  BY GivesUpWhere
<1>2. UNCHANGED <<size, files, members, recovery, volume, calm, slipped>> /\ pc \in {"check", "repair", "solve", "rewrite"}
  BY <1>1 DEF Check, Repair, SolveVolumes, Rewrite, world, set
<1>3. WorldInv /\ UseInv /\ InUse /\ calm /\ ~slipped /\ VolumeSize(size, members) # 0
  BY <1>2 DEF RefusalInv, InUse, GivesUp
<1>4. DOMAIN recovery = AtHand /\ DOMAIN recovery \cap 1 .. MaxFiles = DOMAIN recovery
  BY <1>3, HoldingFacts
<1>5. AtHand' = AtHand
  BY <1>2 DEF AtHand, ReadableAt, SameSet
<1>6. CASE Check
  <2>1. Cardinality(DOMAIN recovery) < Cardinality(bad')
    BY <1>6 DEF Check, GivesUp, Exit, Go
  <2> QED
    BY <1>4, <1>5, <2>1
<1>7. CASE Repair
  <2>1. Cardinality(DOMAIN recovery \cap 1 .. MaxFiles) < Cardinality(bad')
    BY <1>7 DEF Repair, GivesUp, Exit, Go
  <2> QED
    BY <1>4, <1>5, <2>1
<1>8. CASE SolveVolumes
  <2>0. pc = "solve" /\ UNCHANGED <<recovery, bad>>
    BY <1>8 DEF SolveVolumes, set
  <2>1. Solves
    BY <1>3, <2>0, SolvesWhenCalm
  <2>2. \A f \in members \ bad : disk[f] # Absent
    <3>1. \A f \in members \ bad : disk[f] = files[f] /\ files[f] \in Contents
      BY <2>1 DEF Solves, Recorded
    <3> QED
      BY <3>1, Par1Assumption DEF Par1Assumption
  <2>3. answer' = SolveMissing /\ ~answer'.ok
    BY <1>8, <2>2 DEF SolveVolumes, GivesUp, Exit, Go
  <2>4. ~Consecutive(Lowest)
    BY <2>1, <2>3, Answers
  <2>5. Lowest' = LowestOf(recovery', bad') /\ Lowest = LowestOf(recovery, bad)
    BY DEF Lowest, LowestOf
  <2>6. Lowest' = Lowest
    BY <2>0, <2>5
  <2> QED
    BY <2>4, <2>6
<1>9. CASE Rewrite
  <2>1. PICK f \in todo : Rebuilt(f) # files[f]
    BY <1>9 DEF Rewrite, GivesUp, Exit, Go
  <2>2. f \in bad
    BY DEF RefusalInv, Inv
  <2>3. pc = "rewrite"
    BY <1>9 DEF Rewrite
  <2> QED
    BY <1>3, <2>1, <2>2, <2>3 DEF UseInv
<1> QED
  BY <1>1, <1>6, <1>7, <1>8, <1>9

LEMMA RefusalNext == RefusalInv /\ [Next]_vars => RefusalInv'
<1> SUFFICES ASSUME RefusalInv, [Next]_vars PROVE RefusalInv'
  OBVIOUS
<1>1. CASE Next
  BY <1>1, NextInv, WorldNext, MakeNext, UseNext, RefusedNext DEF RefusalInv
<1>2. CASE UNCHANGED vars
  <2>1. /\ UNCHANGED <<disk, index, volume, pc, count, size, files, members, recovery, at, bad, answer, exit, calm, slipped>>
        /\ Inv'
    BY <1>2, NextInv DEF RefusalInv, vars, world, set, work
  <2>2. WorldInv' /\ MakeInv'
    BY <2>1, WorldStays DEF RefusalInv, MakeInv, Making, RightSet
  <2>3. Lowest' = Lowest /\ AtHand' = AtHand /\ Holding' = Holding /\ \A f : Rebuilt(f)' = Rebuilt(f)
    <3>1. Lowest' = LowestOf(recovery', bad') /\ Lowest = LowestOf(recovery, bad)
      BY DEF Lowest, LowestOf
    <3>2. \A f : /\ Rebuilt(f)' = IF size'[f] = 0 THEN << >> ELSE <<answer'.rhs[PlaceOf(f, bad')]>>
                 /\ Rebuilt(f) = IF size[f] = 0 THEN << >> ELSE <<answer.rhs[PlaceOf(f, bad)]>>
      BY DEF Rebuilt, Trimmed, PlaceOf
    <3>3. AtHand' = AtHand /\ Holding' = Holding
      BY <2>1, HoldingIs DEF AtHand, ReadableAt, SameSet
    <3> QED
      BY <2>1, <3>1, <3>2, <3>3
  <2>4. UseInv'
    BY <2>1, <2>3 DEF RefusalInv, UseInv, InUse, RightSet
  <2>5. RefusedForAReason'
    BY <2>1, <2>3 DEF RefusalInv, RefusedForAReason
  <2> QED
    BY <2>1, <2>2, <2>4, <2>5 DEF RefusalInv
<1> QED
  BY <1>1, <1>2

\* While no file changes between two looks of a create, a PAR1 repair that
\* nothing disturbs gives up for one of three reasons only: too few volumes, a
\* gap in their numbers, or files that are all empty; for any number of files,
\* volumes and faults, any history of sets, and over any field.
\* (par1.go:493-494, :519-520)
THEOREM RefusalHasReason == Spec => []RefusedForAReason
<1>1. RefusalInv => RefusedForAReason
  BY DEF RefusalInv
<1> QED
  BY <1>1, RefusalInit, RefusalNext, PTL DEF Spec
==============================================================================
