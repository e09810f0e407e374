-------------------------------- MODULE Par1 --------------------------------
(***************************************************************************)
(* PAR1 sets (src/par1/par1.go with createPar1 and checkPar1 of            *)
(* src/cmd/parchive): every file is one shard, padded to the longest, and  *)
(* volume v holds the sum of the shards times (i + 1)^(v - 1), i counting  *)
(* from 0 among the files that carry parity.  This program lets them all   *)
(* do so; a set that another client made may leave some out: they are in   *)
(* its list, but not in its volumes (FileEntry.InSet).                     *)
(*                                                                         *)
(* Files are looked at three times when a set is made (size, hash, parity) *)
(* and when it is used (check, repair, elimination); between any two looks *)
(* they may change.  Commands are given one after the other, in any order; *)
(* each may end early.                                                     *)
(*                                                                         *)
(* The content of a file is empty or one word, so that a shard is a word.  *)
(* A temporary file is never read: it is left out.                         *)
(***************************************************************************)
EXTENDS GaloisField, FiniteSetsExt

CONSTANTS
    N,          \* number of protected files
    Requests,   \* [given |-> -c was given, n |-> volumes, else per cent]
    Numbered,   \* highest volume whose name checkPar1 looks for: 99
    Contents,   \* what a file may hold
    Originals,  \* what the files hold at first
    Foreign,    \* a set of another client: [members, files, count]
    Faults,     \* bound on changes, losses, errors and crashes
    Absent,     \* no file
    Junk        \* a volume whose control hash fails

Files == 1 .. N

\* createPar1: so many volumes, at least one unless -c says none.
Count(r) == IF r.given THEN r.n ELSE Max({(N * r.n) \div 100, 1})

MaxFiles == GfLimit
LastVolume == Max({ Count(r) : r \in Requests } \cup {Foreign.count})
Volumes == 1 .. LastVolume

\* What can be asked for is bounded by the integers of the machine.
ASSUME Par1Assumption ==
    /\ N \in 1 .. MaxFiles
    /\ Requests # {} /\ IsFiniteSet(Requests)
    /\ \A r \in Requests : r.given \in BOOLEAN /\ r.n \in Nat
    /\ Numbered \in Nat /\ Faults \in Nat
    /\ Contents \subseteq { << >> } \cup { <<w>> : w \in Words }
    /\ Absent \notin Contents /\ Originals \subseteq [Files -> Contents]
    /\ Foreign \in [members : SUBSET Files, files : [Files -> Contents], count : 0 .. MaxFiles]

VARIABLES
    disk,       \* the protected files
    index,      \* the archive file
    volume,     \* the files .p01, .p02, ...
    faults,     \* what went wrong so far
    pc,         \* what the command does next; "ended", then "idle" after it
    count,      \* volumes to be made
    size,       \* Set.Files: the size of each entry,
    files,      \*   the content its hash is of,
    members,    \*   and the entries that are InSet
    recovery,   \* Set.Recovery: volume -> payload
    at,         \* volume to be written
    bad,        \* files that are not as recorded
    todo,       \* those still to be rewritten
    answer,     \* what solve gave
    exit,       \* exit code of a command that has ended
    calm,       \* nothing went wrong since the command began
    slipped     \* some file changed between two looks of a create

set == <<count, size, files, members, recovery>>
work == <<at, bad, todo, answer>>
world == <<disk, index, volume, faults>>
vars == <<world, set, work, pc, exit, calm, slipped>>

Running == 9
NoAnswer == [ok |-> TRUE, rhs |-> << >>]

Exit(code) == pc' = "ended" /\ exit' = code
Go(next) == pc' = next /\ exit' = Running

\* The process is gone, and what it knew with it.
Gone ==
    /\ Go("idle") /\ calm' = TRUE
    /\ count' = 0 /\ size' = << >> /\ files' = << >> /\ members' = {} /\ recovery' = << >>
    /\ at' = 0 /\ bad' = {} /\ todo' = {} /\ answer' = NoAnswer

Fault == faults < Faults /\ faults' = faults + 1

Return == pc = "ended" /\ Gone /\ UNCHANGED world

-----------------------------------------------------------------------------
(***************************************************************************)
(* Shards: padded and cut to the length of the longest file, a word unless *)
(* all are empty; then the volumes are empty, and never used.              *)
(***************************************************************************)
Sizes(fs) == [f \in Files |-> Len(fs[f])]
VolumeSize(s, M) == Max({ s[f] : f \in M } \cup {0})
Shard(c) == IF c = << >> THEN {} ELSE c[1]

\* dataShards: the place of a file among those that carry parity.
Place(M, f) == Cardinality({ g \in M : g < f })

\* Mutant of Coefficient: the place is not raised by one.
CoefficientFromZero(M, f, v) == GfPow(AsWord(Place(M, f)), v - 1)

Coefficient(M, f, v) == GfPow(AsWord(Place(M, f) + 1), v - 1)

\* The sum of the shards of some files in volume v.
Parity(d, M, S, v) == Total(S, [f \in S |-> GfMul(Shard(d[f]), Coefficient(M, f, v))])

Payload(d, s, M, v) == IF VolumeSize(s, M) = 0 THEN << >> ELSE <<Parity(d, M, M, v)>>

VolumeFile(s, fs, M, payload) == [size |-> s, files |-> fs, members |-> M, payload |-> payload]

\* setHash: the hashes of the files that carry parity, one after the other.
SetHash(fs, M) == [k \in 1 .. Cardinality(M) |-> fs[Sorted(M)[k]]]

\* What is there before the first command.
NoSet == disk \in Originals /\ index = Absent /\ volume = [v \in Volumes |-> Absent]
ForeignFile(payload) == VolumeFile(Sizes(Foreign.files), Foreign.files, Foreign.members, payload)
ForeignSet ==
    /\ disk = Foreign.files
    /\ index = ForeignFile(<< >>)
    /\ volume = [v \in Volumes |->
                    IF v > Foreign.count THEN Absent
                    ELSE ForeignFile(Payload(disk, Sizes(disk), Foreign.members, v))]

Init ==
    /\ NoSet \/ ForeignSet
    /\ faults = 0
    /\ pc = "idle" /\ count = 0 /\ size = << >> /\ files = << >> /\ members = {} /\ recovery = << >>
    /\ at = 0 /\ bad = {} /\ todo = {} /\ answer = NoAnswer
    /\ exit = Running /\ calm = TRUE /\ slipped = FALSE

-----------------------------------------------------------------------------
(***************************************************************************)
(* createPar1: the files are described, size first, then read again for    *)
(* the parity, then the index is written and the volumes after it.         *)
(***************************************************************************)
StartCreate ==
    /\ pc = "idle"
    /\ \E r \in Requests : count' = Count(r)
    /\ IF N > MaxFiles \/ N + count' > MaxFiles + 1 THEN Exit(3) ELSE Go("describe")
    /\ UNCHANGED <<world, size, files, members, recovery, work, calm>>

\* Describe opens a file and takes its size,
Describe ==
    /\ pc = "describe"
    /\ IF \E f \in Files : disk[f] = Absent
       THEN Exit(3) /\ UNCHANGED <<size, files, members>>
       ELSE size' = Sizes(disk) /\ files' = disk /\ members' = Files /\ Go("hash")
    /\ UNCHANGED <<world, count, recovery, work, calm>>

\* and reads it: what was opened, if another has taken its place since.
Hash ==
    /\ pc = "hash"
    /\ \E S \in SUBSET Files :
        files' = [f \in Files |-> IF f \in S \/ disk[f] = Absent THEN files[f] ELSE disk[f]]
    /\ Go("encode")
    /\ UNCHANGED <<world, count, size, members, recovery, work, calm>>

Encode ==
    /\ pc = "encode"
    /\ IF count > 0 /\ \E f \in Files : disk[f] = Absent
       THEN Exit(3) /\ UNCHANGED recovery
       ELSE /\ recovery' = [v \in 1 .. count |-> Payload(disk, size, members, v)]
            /\ Go("index")
    /\ UNCHANGED <<world, count, size, files, members, work, calm>>

WriteIndex ==
    /\ pc = "index"
    /\ index' = VolumeFile(size, files, members, << >>)
    /\ at' = 1
    /\ IF count = 0 THEN Exit(0) ELSE Go("volume")
    /\ UNCHANGED <<disk, volume, faults, set, bad, todo, answer, calm>>

WriteVolume ==
    /\ pc = "volume"
    /\ volume' = [volume EXCEPT ![at] = VolumeFile(size, files, members, recovery[at])]
    /\ at' = at + 1
    /\ IF at = count THEN Exit(0) ELSE Go("volume")
    /\ UNCHANGED <<disk, index, faults, set, bad, todo, answer, calm>>

-----------------------------------------------------------------------------
(***************************************************************************)
(* checkPar1 and Parse.  The archive has to be there, but not readable:    *)
(* the first volume that is readable says which set it is.                 *)
(***************************************************************************)
StartCheck ==
    /\ pc = "idle"
    /\ Go("parse")
    /\ UNCHANGED <<world, set, work, calm>>

ReadableAt(v) == volume[v] \notin {Absent, Junk}
Listed == { v \in Volumes : v <= Numbered /\ ReadableAt(v) }
Leader == IF index # Junk THEN index ELSE volume[Min(Listed)]

SameSet(v, fs, M) == SetHash(volume[v].files, volume[v].members) = SetHash(fs, M)

\* Volumes of the same set that hold something.
Usable == { v \in Listed : SameSet(v, Leader.files, Leader.members) /\ volume[v].payload # << >> }

Parse ==
    /\ pc = "parse"
    /\ IF index = Absent \/ (index = Junk /\ Listed = {})
       THEN Exit(4) /\ UNCHANGED <<size, files, members, recovery>>
       ELSE /\ size' = Leader.size /\ files' = Leader.files /\ members' = Leader.members
            /\ recovery' = [v \in Usable |-> volume[v].payload]
            /\ Go("check")
    /\ UNCHANGED <<world, count, work, calm>>

\* Mutant of Bad: only sizes are compared.
BadBySize == { f \in Files : disk[f] = Absent \/ Len(disk[f]) # size[f] }

\* Files that are absent or differ in size or hash.
Bad == { f \in Files : disk[f] = Absent \/ Len(disk[f]) # size[f] \/ disk[f] # files[f] }

\* Verify takes a file that cannot be read for absent.
Verify(S) ==
    \E U \in SUBSET S :
        /\ bad' = (Bad \cap S) \cup U
        /\ IF U = {} THEN UNCHANGED faults ELSE Fault

\* Files without parity are counted with the others.
Check ==
    /\ pc = "check"
    /\ Verify(Files)
    /\ \/ bad' = {} /\ Exit(0)
       \/ bad' # {} /\ Cardinality(DOMAIN recovery) < Cardinality(bad') /\ Exit(2)
       \/ bad' # {} /\ Cardinality(DOMAIN recovery) >= Cardinality(bad') /\ Exit(1)
       \/ bad' # {} /\ Cardinality(DOMAIN recovery) >= Cardinality(bad') /\ Go("repair")
    /\ UNCHANGED <<disk, index, volume, set, at, todo, answer, calm>>

\* Repair verifies once more, skips files without parity, and looks for
\* volumes itself.
Lowest == { v \in DOMAIN recovery :
              v <= MaxFiles /\ Cardinality({ u \in DOMAIN recovery : u < v }) < Cardinality(bad) }

Repair ==
    /\ pc = "repair"
    /\ Verify(members) /\ todo' = bad'
    /\ IF bad' = {} THEN Exit(0)
       ELSE IF Cardinality(DOMAIN recovery \cap 1 .. MaxFiles) < Cardinality(bad') THEN Exit(5)
       ELSE Go("solve")
    /\ UNCHANGED <<disk, index, volume, set, at, answer, calm>>

\* The volumes less what the other files contribute, solved.
SolveMissing ==
    LET vs == Sorted(Lowest)
        fs == Sorted(bad)
    IN  Solve([r \in DOMAIN vs |-> [c \in DOMAIN fs |-> Coefficient(members, fs[c], vs[r])]],
              [r \in DOMAIN vs |-> Xor(recovery[vs[r]][1],
                                       Parity(disk, members, members \ bad, vs[r]))])

SolveVolumes ==
    /\ pc = "solve"
    /\ IF \E f \in members \ bad : disk[f] = Absent
       THEN Exit(5) /\ UNCHANGED answer
       ELSE /\ answer' = SolveMissing
            /\ IF answer'.ok THEN Go("rewrite") ELSE Exit(5)
    /\ UNCHANGED <<world, set, at, bad, todo, calm>>

\* A rebuilt shard, trimmed to the recorded size.
Trimmed(w, f) == IF size[f] = 0 THEN << >> ELSE <<w>>
Rebuilt(f) == Trimmed(answer.rhs[CHOOSE k \in 1 .. Cardinality(bad) : Sorted(bad)[k] = f], f)

\* Mutant of Rewrite: the hash is not compared.
RewriteUnchecked ==
    /\ pc = "rewrite"
    /\ \E f \in todo :
        /\ \A g \in todo : f <= g
        /\ disk' = [disk EXCEPT ![f] = Rebuilt(f)]
        /\ todo' = todo \ {f}
        /\ IF todo' = {} THEN Exit(0) ELSE Go("rewrite")
    /\ UNCHANGED <<index, volume, faults, set, at, bad, answer, calm>>

\* rewrite, file by file; a shard that is not what was recorded ends it.
Rewrite ==
    /\ pc = "rewrite"
    /\ \E f \in todo :
        /\ \A g \in todo : f <= g
        /\ IF Rebuilt(f) # files[f]
           THEN Exit(5) /\ UNCHANGED <<disk, todo>>
           ELSE /\ disk' = [disk EXCEPT ![f] = Rebuilt(f)]
                /\ todo' = todo \ {f}
                /\ IF todo' = {} THEN Exit(0) ELSE Go("rewrite")
    /\ UNCHANGED <<index, volume, faults, set, at, bad, answer, calm>>

-----------------------------------------------------------------------------
(***************************************************************************)
(* What goes wrong.                                                        *)
(***************************************************************************)
\* A file is written, cut or removed by others, at any time.
Edit ==
    /\ Fault /\ pc # "ended"
    /\ \E f \in Files, c \in Contents \cup {Absent} : c # disk[f] /\ disk' = [disk EXCEPT ![f] = c]
    /\ calm' = (pc = "idle")
    /\ slipped' = (slipped \/ pc \in {"hash", "encode"})
    /\ UNCHANGED <<index, volume, set, work, pc, exit>>

\* Between commands any of the files and volumes are lost.  (A volume that is
\* damaged is as good as none; an archive is not.)
Disaster ==
    /\ Fault /\ pc = "idle"
    /\ \E S \in SUBSET Files, L \in SUBSET Volumes, a \in {index, Absent, Junk} :
        /\ disk' = [f \in Files |-> IF f \in S THEN Absent ELSE disk[f]]
        /\ volume' = [v \in Volumes |-> IF v \in L THEN Absent ELSE volume[v]]
        /\ index' = a
    /\ UNCHANGED <<set, work, pc, exit, calm>>

\* The file that is being written is left cut short.
Torn ==
    /\ index' = IF pc = "index" THEN Junk ELSE index
    /\ volume' = IF pc = "volume" THEN [volume EXCEPT ![at] = Junk] ELSE volume
    /\ UNCHANGED disk

WriteError ==
    /\ Fault
    /\ pc \in {"index", "volume", "rewrite"}
    /\ Torn
    /\ Exit(IF pc = "rewrite" THEN 5 ELSE 6)
    /\ calm' = FALSE
    /\ UNCHANGED <<set, work>>

ReadError ==
    /\ Fault
    /\ pc \in {"describe", "hash", "encode", "parse", "solve"}
    /\ Exit(CASE pc = "solve" -> 5 [] pc = "parse" -> 4 [] OTHER -> 3)
    /\ calm' = FALSE
    /\ UNCHANGED <<disk, index, volume, set, work>>

Crash ==
    /\ Fault /\ pc \notin {"idle", "ended"}
    /\ Torn
    /\ Gone

-----------------------------------------------------------------------------
Step == Return \/ Describe \/ Hash \/ Encode \/ WriteIndex \/ WriteVolume
            \/ Parse \/ Check \/ Repair \/ SolveVolumes \/ Rewrite
Environment == Disaster \/ WriteError \/ ReadError \/ Crash

Next == \/ Edit
        \/ (StartCreate \/ StartCheck \/ Step \/ Environment) /\ UNCHANGED slipped

Spec == Init /\ [][Next]_vars

-----------------------------------------------------------------------------
\* The program changes a protected file only if it was not as recorded, and
\* to nothing but what was recorded: whatever the volumes hold, whichever of
\* them are used, whatever changes in the course of it, and also if it fails
\* at the next file. (par1.go:635-637)
OnlyBecomesRecorded ==
    [][faults' = faults =>
        \A f \in Files : disk'[f] # disk[f] => f \in bad /\ disk'[f] = files[f]]_vars

\* Success means that every file that carries parity is as the set says, unless
\* it was changed while the command ran.  Of the files that carry none, a check
\* says the same, but a repair that finds one damaged skips it and succeeds.
\* (check.go:293-324, par1.go:509-514)
SuccessMeansRecorded ==
    pc = "ended" /\ exit = 0 /\ calm => \A f \in members : disk[f] = files[f]

\* The volumes at hand that are of the set.
AtHand == { v \in Volumes : v <= Numbered /\ ReadableAt(v) /\ SameSet(v, files, members) }
Consecutive(S) == \A x, y \in S : x .. y \subseteq S

\* As long as no file changed between two looks of a create, volumes are enough:
\* a repair in which nothing goes wrong gives up only if fewer of them are at
\* hand than files are bad (the check counts those without parity, too), if a
\* gap in their numbers makes the matrix singular, or if all the files were
\* empty. (par1.go:493-494, :519-520)
RefusedForAReason ==
    pc = "ended" /\ exit \in {2, 5} /\ calm /\ ~slipped =>
        \/ Cardinality(AtHand) < Cardinality(bad)
        \/ ~Consecutive(Lowest)
        \/ VolumeSize(size, members) = 0

\* What the comment at par1.go:519-520 says of the volumes that are chosen.
NeverSingular == answer.ok
==============================================================================
