------------------------------ MODULE BlockSize ------------------------------
(***************************************************************************)
(* blockSizeFor (src/cmd/parchive/layout.go): the block size that makes no *)
(* more than blockCount blocks of the given files.  The search is done in  *)
(* units of four bytes ("quarters") by bisection.                          *)
(***************************************************************************)
EXTENDS Naturals, Sequences, FiniteSetsExt

CONSTANT MaxBlocks  \* 32768

ASSUME BlockSizeAssumption == MaxBlocks \in Nat

VARIABLES
    sizes,      \* the sizes of the source files
    blockCount, \* -b
    search,     \* "start", "search", "found", "error"
    lower, upper,
    size,       \* the size tried last, in quarters
    count,      \* the blocks it makes
    result      \* the block size, in bytes

searchVars == <<search, lower, upper, size, count, result>>

Ceiling(a, b) == (a + b - 1) \div b

\* Numbers are added up in order: Sums[s][k] is the sum of the first k.
Sums[s \in Seq(Nat)] ==
    LET upTo[k \in 0 .. Len(s)] == IF k = 0 THEN 0 ELSE upTo[k - 1] + s[k]
    IN  upTo
SumOf(s) == Sums[s][Len(s)]

NumFiles == Len(sizes)
Quarters == SumOf([k \in DOMAIN sizes |-> Ceiling(sizes[k], 4)])
Largest == Max({ sizes[i] : i \in DOMAIN sizes })

\* countFor
CountFor(quarters) == SumOf([k \in DOMAIN sizes |-> Ceiling(Ceiling(sizes[k], 4), quarters)])

\* Blocks that the files make at a block size in bytes. (create.go:41)
BlocksAt(bytes) == SumOf([k \in DOMAIN sizes |-> Ceiling(sizes[k], bytes)])

SearchInit ==
    /\ search = "start"
    /\ lower = 0 /\ upper = 0 /\ size = 0 /\ count = 0 /\ result = 0

Give(bytes) == search' = "found" /\ result' = bytes

TooFew ==
    /\ search = "start" /\ blockCount < NumFiles
    /\ search' = "error"
    /\ UNCHANGED <<sizes, blockCount, lower, upper, size, count, result>>

OnePerFile ==
    /\ search = "start" /\ blockCount = NumFiles
    /\ Give(Ceiling(Largest, 4) * 4)
    /\ UNCHANGED <<sizes, blockCount, lower, upper, size, count>>

Smallest ==
    /\ search = "start" /\ blockCount > NumFiles /\ blockCount > Quarters
    /\ Give(4)
    /\ UNCHANGED <<sizes, blockCount, lower, upper, size, count>>

\* Mutant of Bounds: the upper bound is rounded down.
BoundsRoundedDown ==
    /\ search = "start" /\ blockCount > NumFiles /\ blockCount <= Quarters
    /\ lower' = Quarters \div blockCount
    /\ upper' = Quarters \div (blockCount - NumFiles)
    /\ search' = "search"
    /\ UNCHANGED <<sizes, blockCount, size, count, result>>

\* Mutant of Bounds: that every file may leave its last block half empty is
\* not allowed for.
BoundsTight ==
    /\ search = "start" /\ blockCount > NumFiles /\ blockCount <= Quarters
    /\ lower' = Quarters \div blockCount
    /\ upper' = Ceiling(Quarters, blockCount) + 1
    /\ search' = "search"
    /\ UNCHANGED <<sizes, blockCount, size, count, result>>

Bounds ==
    /\ search = "start" /\ blockCount > NumFiles /\ blockCount <= Quarters
    /\ lower' = Quarters \div blockCount
    /\ upper' = Ceiling(Quarters, blockCount - NumFiles)
    /\ search' = "search"
    /\ UNCHANGED <<sizes, blockCount, size, count, result>>

\* Mutant of TooSmall: the size that was too small stays in the interval.
TooSmallKept ==
    /\ search = "search" /\ lower < upper
    /\ LET mid == (lower + upper) \div 2
       IN  /\ CountFor(mid) > blockCount
           /\ lower' = mid
           /\ size' = mid
           /\ count' = CountFor(mid)
    /\ UNCHANGED <<sizes, blockCount, search, upper, result>>

\* One bisection step.  A size of zero has no count: lower is positive, since
\* there are at least as many quarters as blocks.
TooSmall ==
    /\ search = "search" /\ lower < upper
    /\ LET mid == (lower + upper) \div 2
       IN  /\ CountFor(mid) > blockCount
           /\ lower' = mid + 1
           /\ size' = IF mid + 1 >= upper THEN mid + 1 ELSE mid
           /\ count' = CountFor(size')
    /\ UNCHANGED <<sizes, blockCount, search, upper, result>>

BigEnough ==
    /\ search = "search" /\ lower < upper
    /\ LET mid == (lower + upper) \div 2
       IN  /\ CountFor(mid) <= blockCount
           /\ upper' = mid
           /\ size' = mid
           /\ count' = CountFor(mid)
    /\ UNCHANGED <<sizes, blockCount, search, lower, result>>

SearchEnds ==
    /\ search = "search" /\ lower >= upper
    /\ IF count = 0 \/ count > MaxBlocks
       THEN search' = "error" /\ UNCHANGED result
       ELSE Give(size * 4)
    /\ UNCHANGED <<sizes, blockCount, lower, upper, size, count>>

SearchStep == TooFew \/ OnePerFile \/ Smallest \/ Bounds \/ TooSmall \/ BigEnough \/ SearchEnds

-----------------------------------------------------------------------------
\* No more blocks come out than were asked for, and no smaller size would do,
\* so the bisection did not pass the answer by.  With just a block per file and
\* an empty file among them the block that one leaves is not put to use.  The
\* size is a positive multiple of four unless there is nothing in any file, and
\* then the program panics. (layout.go:22-25, layout_test.go:113-127)
BestSize ==
    search = "found" =>
        /\ result % 4 = 0
        /\ \/ result = 0 /\ \A k \in DOMAIN sizes : sizes[k] = 0
           \/ result > 0 /\ BlocksAt(result) <= blockCount
        /\ (result > 4 /\ (blockCount > NumFiles \/ \A k \in DOMAIN sizes : sizes[k] > 0))
             => BlocksAt(result - 4) > blockCount

\* Given as many blocks as files, or more, there always is a size; -b allows
\* no more than the format has room for.
NoErrorIfEnough ==
    search = "error" => blockCount < NumFiles \/ blockCount > MaxBlocks
==============================================================================
