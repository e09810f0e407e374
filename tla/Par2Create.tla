----------------------------- MODULE Par2Create -----------------------------
(***************************************************************************)
(* Writing a PAR2 set: createPar2 (src/cmd/parchive/create.go), from the   *)
(* block size (module BlockSize) and the number of recovery blocks to the  *)
(* way allocate (src/cmd/parchive/layout.go) spreads these over files.  A  *)
(* recovery file is a run of exponents; names are left out, they are made  *)
(* of the base name, the first exponent and the number of blocks.  What is *)
(* asked for comes from the command line (module CommandLine).             *)
(***************************************************************************)
EXTENDS BlockSize, SequencesExt

CONSTANTS
    Limit,      \* exponents are below this (65536)
    CountBits   \* width of the counts and of the first exponent (32)

Amount == [kind : {"blocks", "percent", "bytes"}, n : Nat]      \* -c, -r, -rk and so on
Request == [blockSize : Nat,    \* -s, 0 if not given
            scheme : {"variable", "uniform", "limited"},
            first  : Nat,       \* -f, the first exponent
            amount : Amount,    \* of redundancy
            files  : Nat]       \* -n, 0 if not given

\* The powers of two, by doubling.
Power[k \in Nat] == IF k = 0 THEN 1 ELSE 2 * Power[k - 1]

ASSUME CreateAssumption ==
    /\ Limit \in Nat /\ CountBits \in Nat \ {0, 1}
    /\ Limit < Power[CountBits] /\ 2 * MaxBlocks < Power[CountBits]

VARIABLES
    request,
    pc,         \* "args", "size", "plan", "encode", "volumes", or how it ended:
                \* "done", "rejected", "failed", "panicked", "shown" (the help)
    plan,       \* the allocations still to be written
    volumes,    \* those written
    index       \* whether the archive itself is written

inputs == <<sizes, blockCount, request>>
vars == <<inputs, searchVars, pc, plan, volumes, index>>

-----------------------------------------------------------------------------
(***************************************************************************)
(* How many blocks of which size.                                          *)
(***************************************************************************)
BlockSizeUsed == IF request.blockSize # 0 THEN request.blockSize ELSE result

\* The counts are kept in 32 bits.
Cut(n) == n % Power[CountBits]
SourceBlocks == Cut(BlocksAt(BlockSizeUsed))
LargestBlocks == Cut(Ceiling(Largest, BlockSizeUsed))

\* recoveryFileCount: the number of bits of the block count.
RecoveryFileCount(blocks) ==
    CHOOSE n \in 0 .. blocks : Power[n] > blocks /\ \A k \in 0 .. n - 1 : Power[k] <= blocks

RecoveryBlocksFor(redundancy) ==
    LET n == (SourceBlocks * redundancy + 50) \div 100
    IN  IF n = 0 /\ redundancy > 0 THEN 1 ELSE n

\* Bytes for the critical packets in each recovery file are set aside.
RecoveryBlocksForSize(target) ==
    LET perFile == SourceBlocks * 21
        Fit(overhead) == IF overhead <= target
                         THEN Cut((target - overhead) \div (BlockSizeUsed + 70)) ELSE 1
    IN  Fit(perFile * (IF request.files # 0 THEN request.files
                       ELSE RecoveryFileCount(Fit(15 * perFile))))

RecoveryBlocks ==
    LET n == request.amount.n
    IN  CASE request.amount.kind = "blocks"  -> n
          [] request.amount.kind = "percent" -> RecoveryBlocksFor(n)
          [] request.amount.kind = "bytes"   -> RecoveryBlocksForSize(n)

-----------------------------------------------------------------------------
(***************************************************************************)
(* allocate.                                                               *)
(***************************************************************************)
Least(a, b) == IF a <= b THEN a ELSE b

FileCount(blocks) ==
    Least(IF request.files = 0 THEN RecoveryFileCount(blocks) ELSE request.files, blocks)

\* Counts become runs of exponents, one after the other.
Runs(first, counts) ==
    LET before == Sums[counts]
    IN  [k \in 1 .. Len(counts) |->
           [exponent |-> Cut(first + before[k - 1]), count |-> counts[k]]]

\* Files that double in size, from low on, until the blocks are used up.
LeftOver(blocks, files, low) ==
    LET left[k \in 0 .. files] ==
            IF k = 0 THEN blocks
            ELSE LET rest == left[k - 1] IN rest - Least(low * Power[k - 1], rest)
    IN  left
Doubling[share \in Nat \X Nat \X Nat] ==
    LET files == share[2]
        left == LeftOver(share[1], files, share[3])
    IN  [k \in 1 .. files |-> left[k - 1] - left[k]]

\* Mutant of Uniform: the remainder is dropped.
UniformRoundedDown(blocks, files) == [k \in 1 .. files |-> blocks \div files]

Uniform(blocks, files) ==
    [k \in 1 .. files |-> blocks \div files + (IF k <= blocks % files THEN 1 ELSE 0)]

\* schemeVariable: the smallest power of two to start from that makes the
\* files hold all blocks.
StartSize(blocks, files) ==
    CHOOSE low \in { Power[k] : k \in 0 .. blocks } :
        /\ low * (Power[files] - 1) >= blocks
        /\ low = 1 \/ (low \div 2) * (Power[files] - 1) < blocks

\* Mutant of Capped: as few capped files as possible.
CappedLate(blocks, files, largest) ==
    CHOOSE t \in 0 .. files :
        /\ t = files \/ Cut(blocks - t * largest) < Cut(4 * largest)
        /\ \A u \in 0 .. t - 1 : Cut(blocks - u * largest) >= Cut(4 * largest)

\* schemeLimited: how many files of the largest size are filled from the top.
\* Twice the largest, and what is left, are 32 bits wide.
Capped(blocks, files, largest) ==
    CHOOSE t \in 0 .. files :
        /\ t = files \/ Cut(blocks - t * largest) < Cut(2 * largest)
        /\ \A u \in 0 .. t - 1 : Cut(blocks - u * largest) >= Cut(2 * largest)

Top(first, blocks, capped, largest) ==
    [k \in 1 .. capped |->
       [exponent |-> Cut(first + blocks - (capped - k + 1) * largest), count |-> largest]]

\* Mutant of Limited: the files from the bottom are not reduced to what is left.
LimitedOverlapping(first, blocks, files, largest) ==
    LET capped == Capped(blocks, files, largest)
    IN  Runs(first, [k \in 1 .. files - capped |-> Power[k - 1]])
          \o Top(first, blocks, capped, largest)

Limited(first, blocks, files, largest) ==
    LET capped == Capped(blocks, files, largest)
        rest == Cut(blocks - capped * largest)
    IN  Runs(first, Doubling[<<rest, files - capped, 1>>]) \o Top(first, blocks, capped, largest)

\* The files without blocks are left out.
Run == [exponent : Nat, count : Nat]
Kept[all \in Seq(Run)] ==
    LET kept[k \in 0 .. Len(all)] ==
            IF k = 0 THEN << >>
            ELSE IF all[k].count = 0 THEN kept[k - 1] ELSE Append(kept[k - 1], all[k])
    IN  kept[Len(all)]

Allocate(first, blocks, files) ==
    LET all == CASE request.scheme = "uniform"  -> Runs(first, Uniform(blocks, files))
                 [] request.scheme = "limited"  ->
                        Limited(first, blocks, files, IF LargestBlocks = 0 THEN 1 ELSE LargestBlocks)
                 [] request.scheme = "variable" ->
                        Runs(first, Doubling[<<blocks, files, StartSize(blocks, files)>>])
    IN  IF blocks = 0 THEN << >> ELSE Kept[all]

Allocations == Allocate(request.first, RecoveryBlocks, FileCount(RecoveryBlocks))

-----------------------------------------------------------------------------
\* Before the command line is read nothing is asked for.
CreateInit ==
    /\ sizes = << >> /\ blockCount = 0
    /\ request = [blockSize |-> 0, scheme |-> "variable", first |-> 0,
                  amount |-> [kind |-> "blocks", n |-> 0], files |-> 0]
    /\ SearchInit
    /\ pc = "args"
    /\ plan = << >> /\ volumes = << >> /\ index = FALSE

\* blockSizeFor, and its two ways out.
Size ==
    /\ pc = "size" /\ SearchStep
    /\ UNCHANGED <<request, pc, plan, volumes, index>>

SizeFound ==
    /\ pc = "size" /\ search = "found"
    /\ pc' = "plan"
    /\ UNCHANGED <<inputs, searchVars, plan, volumes, index>>

SizeError ==
    /\ pc = "size" /\ search = "error"
    /\ pc' = "rejected"
    /\ UNCHANGED <<inputs, searchVars, plan, volumes, index>>

\* A block size of zero is divided by.
Panic ==
    /\ pc = "plan" /\ BlockSizeUsed = 0
    /\ pc' = "panicked"
    /\ UNCHANGED <<inputs, searchVars, plan, volumes, index>>

\* Mutant of InRange: the sum is kept in 32 bits, like its parts.
InRangeIn32Bits ==
    /\ SourceBlocks <= MaxBlocks
    /\ RecoveryBlocks <= Limit
    /\ Cut(request.first + RecoveryBlocks) < Limit

InRange ==
    /\ SourceBlocks <= MaxBlocks
    /\ RecoveryBlocks <= Limit
    /\ request.first + RecoveryBlocks < Limit

Plan ==
    /\ pc = "plan" /\ BlockSizeUsed # 0 /\ InRange
    /\ plan' = Allocations
    /\ pc' = "encode"
    /\ UNCHANGED <<inputs, searchVars, volumes, index>>

Reject ==
    /\ pc = "plan" /\ BlockSizeUsed # 0 /\ ~InRange
    /\ pc' = "rejected"
    /\ UNCHANGED <<inputs, searchVars, plan, volumes, index>>

\* Mutant of Encode: the number of slices is not looked at again.
EncodeAnyNumber ==
    /\ pc = "encode"
    /\ pc' = "volumes"
    /\ UNCHANGED <<inputs, searchVars, plan, volumes, index>>

\* par2.Create counts the slices again, in full, and there must be a constant
\* for each; then it computes the recovery slices first .. first + blocks - 1.
Encode ==
    /\ pc = "encode"
    /\ pc' = IF BlocksAt(BlockSizeUsed) <= MaxBlocks THEN "volumes" ELSE "failed"
    /\ UNCHANGED <<inputs, searchVars, plan, volumes, index>>

Exponents(a) == a.exponent .. a.exponent + a.count - 1
Computed == request.first .. request.first + RecoveryBlocks - 1

\* WriteVolume refuses an exponent for which there is no recovery slice.
WriteVolume ==
    /\ pc = "volumes" /\ plan # << >>
    /\ Exponents(Head(plan)) \subseteq Computed
    /\ volumes' = Append(volumes, Head(plan))
    /\ plan' = Tail(plan)
    /\ UNCHANGED <<inputs, searchVars, pc, index>>

\* Mutant of WriteIndex: the archive is written before the recovery files.
WriteIndexFirst ==
    /\ pc = "volumes"
    /\ index' = TRUE
    /\ pc' = IF plan = << >> THEN "done" ELSE "volumes"
    /\ UNCHANGED <<inputs, searchVars, plan, volumes>>

WriteIndex ==
    /\ pc = "volumes" /\ plan = << >>
    /\ index' = TRUE
    /\ pc' = "done"
    /\ UNCHANGED <<inputs, searchVars, plan, volumes>>

\* An error while a file is looked up, read or written ends the program; what
\* was written stays.
Fails ==
    /\ pc \in {"size", "plan", "encode", "volumes"}
    /\ pc' = "failed"
    /\ UNCHANGED <<inputs, searchVars, plan, volumes, index>>

Exits == {"done", "rejected", "failed", "panicked", "shown"}

CreateStep ==
    \/ Size \/ SizeFound \/ SizeError \/ Panic
    \/ Plan \/ Reject \/ Encode \/ WriteVolume \/ WriteIndex

-----------------------------------------------------------------------------
Written == ToSet(volumes)
WrittenExponents == UNION { Exponents(a) : a \in Written }

\* If creation succeeds every recovery block that was computed is in a file:
\* the redundancy asked for is what is on disk.  With -l that is so as long as
\* the blocks are at most twice those of the largest file and no number of files
\* was given before it. (layout.go:132-149, 161-188)
AllBlocksWritten ==
    /\ pc = "done"
    /\ request.scheme = "limited" => request.files = 0 /\ RecoveryBlocks <= 2 * LargestBlocks
    => WrittenExponents = Computed

\* No recovery block is written twice, so that no two files are equal in part
\* and no name is used twice, whatever the scheme.
NoBlockTwice ==
    \A i, j \in DOMAIN volumes :
        i # j => Exponents(volumes[i]) \cap Exponents(volumes[j]) = {}

\* -l: no recovery file has more blocks than the largest source file.
\* (layout.go:19)
CappedAtLargest ==
    request.scheme = "limited" =>
        \A a \in Written : a.count <= (IF LargestBlocks = 0 THEN 1 ELSE LargestBlocks)

\* The archive, which the other commands start from, is there only if all the
\* recovery files are.
IndexIsLast == index => plan = << >> /\ volumes = Allocations

\* No set has more slices than there are constants for, whatever the sizes add
\* up to in 32 bits.  (create.go:41-49, gf.go:65-68)
NoOversizedSet == volumes # << >> \/ index => BlocksAt(BlockSizeUsed) <= MaxBlocks

\* No recovery block has an exponent past the last.  (create.go:59-66)
ExponentsInRange == WrittenExponents \subseteq 0 .. Limit - 1

\* Creating a set comes to an end, the search for the block size included.
Terminates == <>(pc \in Exits)

\* layout_test.go:63: every exponent must appear exactly once across the files.
EveryExponentOnce == pc = "done" => WrittenExponents = Computed
=============================================================================
