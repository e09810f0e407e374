# A verification model of parchive-go

parchive-go creates, verifies and repairs PAR2 and PAR1 recovery sets. These
modules model what it does to files and buffers, from the code under `src/`;
TLC checks them on small instances and TLAPS proves the most important results
for every instance.

## 1. Inventory

| Component | Code | State | Operations | Hard behaviour |
|---|---|---|---|---|
| Finding the slices | `par2/scan.go` | the offset each slice was found at, offsets accepted | `aligned`, `scan`, `scanBuffer`, `locate` | chunk borders, padding at the end of a file, equal slices |
| Repair | `par2/repair.go` | files, temporary files, found and recovered slices | `Verify`, `RepairWith`, `solveMissing`, `rewriteAll` | errors and crashes between any two system calls, reruns, reads from files that are about to be replaced |
| Creating a set | `par2/encode.go` | window buffer, checksums, recovery slices | `Create`, `identify`, `encodeFile`, `fanOut` | goroutines over one buffer and one set of outputs; files that change meanwhile |
| Packets | `par2/par2.go` | the parsed set | `ReadPackets`, `Parse`, `WriteIndex`, `WriteVolume` | damaged packets, packets in any order and of several sets |
| Arithmetic | `par2/gf.go`, `muladd.go`, `solve` in `repair.go` | tables, matrix | `gfMul`, `mulAddTables`, `solve` | singular matrices |
| Rolling CRC | `par2/rolling.go` | tables, the register | `advanceBy`, `newRolling`, `roll` | a register carried over thousands of windows, jumps |
| SIMD kernels | `par2/muladd_*.go`, `.s` | none | `simdMulAdd` per architecture | none of state |
| PAR1 | `par1/par1.go` | whole-file sets | `Create`, `Parse`, `Verify`, `Repair` | files read twice, replaced one by one; gaps in the volumes; volumes of older sets |
| `create` | `cmd/parchive/create.go`, `layout.go` | layout of the recovery files | `createPar2`, `allocate`, `blockSizeFor`, `createPar1` | remainders, caps, empty files, errors half way |
| `verify`, `repair` | `cmd/parchive/check.go` | counts, exit code, companions | `checkPar2`, `checkPar1`, `companions`, `purge` | what is removed when the repair is over |
| Arguments, main | `cmd/parchive/args.go`, `main.go` | `config` | `parseArgs`, `option`, `finish`, `run` | combinations refused in one order only, numbers that are cut |
| File names | `internal/safe/safe.go` | none | `Join` | none of state |

The command line parses its arguments into a `config` and calls one of `create`
and `check`. `createPar2` chooses a block size, lays out the recovery files and
calls `par2.Create`, which reads the source files and computes the recovery
slices; the volumes and then the archive are written from the result.
`checkPar2` collects the companion files of the archive, `Parse`s them into a
`Set`, calls `Verify` (`locate` and `status`) and, for `repair`, `Repair`,
which locates again, solves, builds temporary files and renames them, and then
verifies once more. Components share nothing but the `Set` and the file system;
goroutines exist in `par2.Create` alone.

What makes each correct:

- *Finding*: what is recorded as found is there; nothing intact is overlooked.
- *Repair*: no file is ever replaced by less than what could be had; nothing is
  lost in an interrupted run; success means that all is back; it always ends.
- *Creating*: recovery slices encode exactly the data whose checksums are
  recorded, under every schedule.
- *Layout*: every recovery block is in exactly one file, within the caps.
- *Block size*: the smallest that makes no more blocks than asked for.
- *Packets*: the set parsed does not depend on damage or order as long as the
  packets are there. *Arithmetic*: elimination inverts what encoding did.
- *PAR1*: a file is replaced by one with its recorded hash only, and volumes are
  enough unless there is a reason.
- *Arguments*: a command line that is accepted asks for what it says.
- *Commands*: exit codes tell the truth; nothing is purged before all is well.

## 2. Modules

### `Par2Set` and `Par2Repair`: repair

Files are sequences of bytes. `Par2Set` has the recorded set (`Data`), a disk
(files, or `Absent`) and the result of `locate` as a function of the disk.
`Aligned` is the first pass: slice `i` at offset `i * Size`, what is read past the
end being zeros, up to the first mismatch there. `Sites` are the places the sweep
records: the window comes to rest at `Visited`, one byte further each time, past
a whole slice where it `Recognised` one, and afresh at each chunk; it takes a
window for the first of equal slices (`MatchesAs`), leaves out complete files and
does not look at offsets that the first pass accepted. A file that exists and
cannot be opened counts as absent, in the first pass (`unseen`), in the sweep
(`unswept`), or in both. `FileOK`, `Damaged` and `Misplaced` are what `status` reports.

`Par2Repair` is `RepairWith`. `Begin` is `locate` and `status`; `Solve` and
`SolveFails` are `solveMissing`; `CreateTmp`, `WriteSlice`, `CloseTmp`,
`WriteFails` and `Rename` are `rewriteAll`, one system call a step. `pc` is
`build` for the first loop of `rewriteAll` and `rename` for the second; `built`
is its slice `done`; `tmp` are the `.par2tmp` files. `sliceReader.read` returns an
error only if it got no byte (`Readable`). A read that breaks off later is no
error: what is missing is taken for zeros (`Misreads`), and `SolveMisread` and
`WriteMisread` go on with that, to the renames. `torn` are the slices that may
be wrong for it, one for a write and all that are missing for the solving.
`LocateError`, `SolveError`, `BuildError` and `RenameError` are the errors that do
return, with the clean-up that
each of them does or leaves out (`CleanUp`: errors of `os.Remove` are ignored, so
any of the files may stay); a file that cannot be opened is not among the first. `Crash` ends the process
anywhere. A run may be started again from whatever the last one left.

`RepairPromise` is the abstract repair: four actions over the disk, and no word
on how. Protected files are replaced one at a time and whole, no slice that is
right in its place is made wrong but those that a fault may have spoilt
(`spoilt`, which `Spoil` adds to), success means that all is back provided the
recovery data was of these files and nothing was spoilt, and whatever is begun ends. `Par2Repair`
implements it (`Promise`, an `INSTANCE` with `state` mapped from `pc`, `sound` from
`Reliable`, and `spoilt` from `torn` and, with recovery slices of other versions,
from `unseen`).

The elimination is an assumption here (`GaloisField` is about it): with inputs that were read right, and
with recovery slices of these very files (`Reliable`), what it returns is right;
otherwise it is anything; it fails on a singular matrix (constant `Singular`,
any combination may be singular).

### `Words`, `RollingCrc` and `SlidingScan`: finding slices in bytes

A word of `Words` is the set of the places at which it has a one; addition is `Xor`,
the symmetric difference. `RollingCrc` is `rolling.go` over a register of `Width` bits and bytes of
`ByteBits`: the table, the step, the linear maps and their powers by repeated
squaring, and from these the table of the bytes that leave and the mask.
`SlidingScan` searches one file, byte by byte: the aligned pass slice by slice,
then `ReadChunk` and the window positions of `scanBuffer` (`StepOverKnown`,
`Recognise`, `Roll`). `raw` is the register: computed afresh at the begin of a
chunk and after a jump, rolled on otherwise. Its checksum passes the filter and
selects the candidates, with which the window is compared; equality of bytes
stands for equality of MD5.

### `Par2Encode`: creating a set

`par2.Create` from the identified files on. The main goroutine reads a batch
into `window`, starts one goroutine for the whole-file hash, up to `workers` for
the slice checksums and as many for the recovery slices, and waits for all.
Adding to a recovery slice is a load and a store, so that two goroutines at one
slice would lose an addition. A recovery slice is the set of terms added to it,
each with the global index that selects its coefficient. Captured variables
(`done`, `base`, the buffer) are read when they are used. Each file may be
shorter or longer than when it was identified.

### `GaloisField` and `Par2RoundTrip`: the arithmetic, and there and back again

`GaloisField` is `gf.go` and `solve` over a field of `2^Width` elements: tables
of powers and logarithms, the constants of the slices, multiplication tables by
parts of a word (bytes, or nibbles for SIMD) and Gauss-Jordan elimination. A
slice is one word of `Words`. `Par2RoundTrip` extends `Par2Encode`: when a set is created, any
slices are lost and any recovery slices survive, of sets with the same files and
other first exponents, too, and `Recover` is `solveMissing`. What was encoded by
goroutines in whatever order is so decoded again.

### `Par1`: whole-file sets

`createPar1`, `checkPar1` and what they call in `par1.go`, around the files
`index` and `volume`. Commands follow one another, so that volumes of an older
set stay next to newer ones. A create looks at the files three times: for their
sizes (`Describe`), for their hashes (`Hash`) and for the parity (`Encode`); then it
writes the archive and the volumes. A check parses
(`Parse`: the first readable file says which set is meant), verifies (`Check`) and
repairs (`Repair`, `SolveVolumes`, `Rewrite`, the first two of which read the
files once more). `members` are the entries with the bit `InSet`. This program sets it
in all of them; the set `Foreign`, of another client, may leave some out: those are checked
like the others, and `Repair` skips them. `Edit` changes a file at any time, a file that
`Verify` cannot read counts as absent, `Disaster` takes files away between two
commands, `WriteError`, `ReadError` and `Crash` end a command early.

### `CommandLine`, `Par2Create` and `BlockSize`: the layout of a set

`CommandLine` is `parseArgs`, `option` and `finish` for `create`, an argument a
step: each option is an action, with what it refuses in `Legal`; `Accept` hands
what was read to `Par2Create`: `-s` makes `-b` void, the last of `-u`, `-l` and `-n`
has set the scheme. Numbers are cut to `CountBits` where the code
keeps 32 bits, that of `-f` among them.

`Par2Create` is `createPar2` from the block size to the archive. The block size
comes from `BlockSize`, which is `blockSizeFor`, each turn of the bisection a
step; a block size of zero ends in a panic. `RecoveryBlocks` is the amount of
redundancy in blocks, `Allocate` spreads it: a recovery file is a run of
exponents. The doubling of the layout is in 32 bits, too.

### `Par2Packets`: what is stored and what is read back

A file is a sequence of cells, the first of a packet being its header. `Stored`
is made with `WriteIndex` and `WriteVolume`; `Spoil` and `Truncate` damage it. `Sets`
are the sets that `Create` may have made: their files have different IDs, and each as
many checksums as it has slices (`SetsAssumption`).
`ReadPackets` is the scan for magic sequences, and one action per packet type
is the switch in `Parse`, over file after file. A cell in a body may itself be a
header: the first recovery slice of a set of one block is that block, and
may be a `.par2` file. `StoredAssumption` says of the stored files that a body which
`Parse` looks into begins with what the type of its packet promises, and that a
packet which begins in the body of another one ends there too, or is not whole: a
slice that ends in the middle of a packet is followed by the header of the next
packet of the recovery file, and no MD5 fits that.

### `Par2Check`: the commands

`checkPar2` extends `Par2Repair`: `Verify` decides between the exit codes and the
repair, `RunRepair` is any step of the repair, `Reverify` looks at the rebuilt
files again, `PurgeNext` removes a file or fails to. `present` are the files
that `companions` finds, those of other sets with a longer base name included
(`base + "*.par2"`), and the backups `purge` removes. A command can be given
again after any end; after a purge it finds no archive.

How the modules meet: `Par2Check` composes the command with `Par2Repair`, which is
built on `Par2Set` and implements `RepairPromise`; `CommandLine` is composed with
`Par2Create`, and that with `BlockSize`; `Par2RoundTrip` composes `Par2Encode` with
`GaloisField`, `SlidingScan` is built on `RollingCrc`, and `Par1` on `GaloisField`.
`Par2Encode` gives the recovery slices that are right for `Par2Repair` (its `Stale`
ones are of other versions), `Par2RoundTrip` what that assumes of the elimination,
`Par2Packets` the set as parsed, `SlidingScan` what `Par2Set` takes a sweep to
find. These are connected by their interfaces only.

## 3. Runs

| Run | Module | Shows |
|---|---|---|
| `repair` | `MCPar2Repair` | Two files in slices of two bytes, zeros and ones; one ends in half a slice of a zero, the other in a slice that the first one has too. One file of at most three bytes, or with a zero too many, the other any recorded one with a byte inserted, removed or changed or its end cut off, at either path; chunks of eight bytes; two recovery slices of which one is stale; a matrix that is singular; one fault, be it an error, a crash, files that cannot be opened or a read that breaks off. `TypeOK`, `DoneMeansIntact`, `RefusedForAReason`, `OnlyHiddenOverlooked`, `WholeReplacement`, `NothingLost`, and `KeepsPromise`: the refinement of `RepairPromise`, its end included. |
| `encode` | `MCPar2Encode` | Three files of three, no and one slice, each shrunk or grown by up to all; batches of two; three recovery slices; one to three workers. `TypeOK`, `ChecksumsMatchRecovery`, `ResultIsSequential`, `OwnOutput`, `Terminates`. Then, over GF(16), any slices lost and any of six recovery slices left, in two runs of exponents, made and used with tables of one bit and of two: `ComesBack`, `RunsAreEnough`. |
| `scan` | `MCSlidingScan` | All files of up to nine bytes of three values, slices of two bytes, chunks of eight; a CRC of three bits and a filter on two of them, so that windows collide in both. `FoundIsThere`, `IsolatedHitFound`, `RollingIsExact`, `Terminates`. |
| `create` | `MCPar2Create` | Every way to give up to three of nineteen arguments before the names, refused and cut ones included; one to three files, empty ones included, and block counts up to 12; up to 17 recovery blocks given as a number, a percentage or a size, all schemes, up to four files asked for; counts of five bits. `ReadAsAsked`, `AsManyFilesAsAsked`, `NoOversizedSet`, `ExponentsInRange`, `AllBlocksWritten`, `NoBlockTwice`, `CappedAtLargest`, `IndexIsLast`, `BestSize`, `NoErrorIfEnough`, `Terminates`. |
| `packets` | `MCPar2Packets` | An archive and a volume in either order; a set with another set's main packet in one recovery slice and the first half of it in the other; an archive next to a volume of another set. Two damages, each to a cell or cutting a file anywhere. `TypeOK`, `DamageIsLocal`, `ParsedFromSurvivors`, `FailsForAReason`, `EachFileIsEnough`. |
| `check` | `MCPar2Check` | A file of one slice and one of a slice and a half, of which the half is a zero, on every disk of up to two and three bytes; two recovery slices of which one is stale; a singular matrix; one fault; a backup and the archive of another set. `SuccessMeansIntact`, `PurgedOnlyWhenIntact`, `CommandEnds`. |
| `par1` | `MCPar1` | Three files over GF(8), each empty or one of two words; sets of no, one, two and five volumes and one that has too many, made one over the other; volumes looked for up to the fourth; to begin with no set, or one of another client with two volumes and a file that carries no parity; two changes, losses, errors or crashes. `OnlyBecomesRecorded`, `SuccessMeansRecorded`, `RefusedForAReason`. |
| `v_padding`, `v_leftover`, `v_limited`, `v_purge`, `v_singular` | | Section 6. |

Why the bounds are enough. Two files are what it takes for one to hold the
slices of the other, which is where the order of renames matters; two slices a
file give a first and a last one, and with two recovery slices there are
too few, just enough and more than enough. With two bytes a slice a window has
one offset that is no slice's, and four bytes are room for a zero slice that hides
the next one; an odd size leaves padding. One fault per behaviour reaches every error exit and every point of a
crash, and `Begin` may follow any of them; the proofs of section 5 cover any
number. Nine bytes are one more than a chunk, so a slice lies across the border
at every offset and one begins in the next chunk. A file of three slices takes
two batches of two, the second one short; three workers over two slices or three
recovery slices make parts of unequal and of empty size. 17 blocks make five
doubling files with a remainder; six for the largest file is both more and
less than half of the blocks. `Limit` (65536 in the code) is 20, so that the
checks of the exponents reject some requests. Two damages can hit both copies of
a packet, or a packet and the file that repeats it, and with two files one
damage always leaves a file whole; the damaged lengths are too small, too large
and one that reaches into the next packet.
Four slices with exponents 0 to 5 make every kind of gap; two of the constants
in GF(16) have equal fifth powers, so that singular choices happen, and with gaps
only. Three files and five volumes do the same for PAR1; two faults are a change
between the passes of a create and a loss after it. A fifth volume is beyond
`Numbered` (99 in the code) and so never looked for. Counts of five bits let the
blocks of 128 bytes add up to nothing, and 35 be taken for 3. A CRC of three
bits has fewer values than there are windows of two bytes, so that some share
one, and in a chunk up to six steps of the register follow one another.

Bounds in the specifications are `MaxFaults` (faults of a behaviour),
`Faults` of `Par1`, `MaxDamage`, the widths of words (`Width`, `ByteBits`, `CountBits`)
and the constant sets of inputs (`Disks`, `Lengths`, `Contents`, `Jobs`, `Requests`,
`Firsts`, `Sets`, `Stored`); nothing else is capped.

Every passing run checks for deadlock: where a program has ended there is an
explicit step that changes nothing (`Finished`, `Returned`, `Exited`), and an
ended repair or command can be started again; a round trip is over (`Returned`)
once it has an answer.

## 4. Fairness

`Par2Repair`, `Par2Check`, `SlidingScan` and `CommandLine` (with `Par2Create`) are
straight-line code without waiting: weak fairness of their steps says that the process is scheduled.
Nobody is obliged to start a repair or to give a command, and no fault ever has to happen: `Begin`
and the failures have no fairness. `Par2Encode` has weak fairness of the main
goroutine and of the goroutines together (Go's scheduler is preemptive and runs
every goroutine that can run; in a batch each of them has finitely many steps,
so fairness of their disjunction is enough). `Par2Packets` states no liveness:
`Parse` goes through what it read once; neither does `Par1`, whose commands have no
loop but over finite lists. The liveness of `RepairPromise` follows from the fairness
of `Par2Repair` (`KeepsPromise`).

## 5. Proofs

The theorems hold for every value of the constants that the named assumptions
admit, where a run of section 3 has one small instance. TLC evaluates the
assumptions on that instance. `Induction` has what several proofs need:
induction over the naturals, with a set in the place of the predicate, and that
a function defined by recursion is what its equation says. With it what the
modules write as recursive functions (`Sums`, `Power`, `Doubling`, `LeftOver`,
`Offset`, the register of `Crc`, the turns of `AdvanceBy`, the columns of
`Solve`) can be reasoned about.

### Repair

`Par2RepairProofs` proves, for every set, every number of files, every disk,
any recovery slices and any number of faults, with and without `NoScan`:

- `TypeCorrect`: `Spec => []TypeOK`.
- `DoneIsIntact`: `Spec => []DoneMeansIntact`.
- `ReplacementIsWhole`: `Spec => WholeReplacement`.
- `RefusalHasReason`: `Spec => []RefusedForAReason`.
- `NothingIsLost`: `Spec => NothingLost`.
- `Implements`: `Spec => Promise!PromiseSafety`, that every step of the repair is a
  step of the abstract one or none.

The assumptions are `SetAssumption` (the shape of the set; a slice has a byte,
`Absent` is no file, and a chunk holds at least four slices, as `scan.go:142-145` sees to) and `RepairAssumption` (exponents are a
finite set of naturals, the disks are disks).

All of them hold with files that cannot be opened and reads that break off, and
say what these may cost: `torn` is excepted in `DoneMeansIntact`, `WholeReplacement` and
`NothingLost`, as the code makes such slices wrong without a word (section 6).

None of these is inductive. The invariant behind the first three (`IInv`) says
how a file gets its contents: the disk is as `locate` saw it until the first rename, so what is
found can be read back right (`FoundRight`); what was recovered is right if it
was `Reliable` (`RecoveredRight`); the temporary file being written is right as
far as it goes (`PartRight`) and those that are closed are whole (`BuiltWhole`),
both but for `torn`;
files neither to be built nor to be renamed are whole (`KeptWhole`);
nothing is built before the solving and nothing is left to build at the renaming
(`PhaseRight`). Two lemmas carry it: `LocateSound` (what `locate` found is
there, or lies past the end of the file, where reading it fails) and
`OKMeansIntact` (a file reported fine is as recorded); the rest is a lemma for
each action.

A refusal and a loss are about more than contents. `SafeInv` adds that the plan is
made for the disk as it is (`PlanFits`), carried out only with recovery slices enough
(`PlanPays`) and every missing slice recovered (`PlanFull`).
`NothingLost` follows: before the first rename the disk has all that was found, and
from then on a slice that was found is in the file it belongs to or in the
temporary file that will be that file, unless a read of it broke off.

For `Implements`, `PInv` adds to `IInv` that what is right in its place in a file
that waits to be replaced and could be opened was found when the run began
(`RightIsFound`): so it is also in the file that takes its place, if no read of it broke off. The end of a run is liveness and stays
with `KeepsPromise`.

About the commands around it the same module proves, for any companions
besides (`CheckAssumption`: the archive is the first of them):

- `SuccessIsTrue`: `CheckSpec => []SuccessMeansIntact`, without `Reliable` and with
  any reads that break off: the
  repair may have written anything, the command verifies it again. What it does
  not verify again is a file that it found fine and the repair, which
  looks for itself, could not open: of such a file (`Unverified`) the property speaks only if the
  recovery slices were right and no read broke off.
- `PurgeIsSafe`: `CheckSpec => PurgedOnlyWhenIntact`, in the same sense.

Only the rebuilt files are verified again, so neither is inductive. `CheckInv`
adds to `IInv` that the repair builds no files but those the first
verification found bad and those it could not open itself (`OnlyRebuilt`), and
leaves the others as recorded (`OthersIntact`); with `OKMeansIntact` for the first
and for the second verification the disk is intact at the end.

### Finding slices

`ScanProofs` proves for any width of the register, any polynomial, filter, chunk
and contents:

- `NothingIsInvented`: `Spec => []FoundIsThere`. What is recorded was compared,
  whatever the checksum said; this one is inductive as it stands.
- `RolledIsChecksum`: `Spec => []RollingIsExact`.
- `NothingIsolatedIsMissed`: `Spec => []IsolatedHitFound`.

The second one is about rolling on. The table of `hash/crc32` is linear, so a step
of the register is, and the register after a run of bytes is the sum of what each
byte and the initial ones have become; moving on by zeros is a power of one linear map,
which repeated squaring computes (`AdvanceBy`). Taking the byte that leaves out of
the register is then exact, and what is left of the complements is the mask. So
`raw` is the register of the window at every position (`ChunkInv`), across jumps and
chunks too, and a window that equals a slice passes the filter and is compared.
For the third `ScanInv` says of every hit that stands apart from all others that, once
the sweep has passed it, the slice is found; each jump goes over no such hit, since
what it steps over overlaps the window it was recognised in.

### Computing the recovery slices

`EncodeProofs` proves about `par2.Create`, for any files, shrunk or grown in any way,
any batch, any number of recovery slices and of workers, under every
interleaving of the goroutines:

- `TypeCorrect`: `Spec => []TypeOK`.
- `EachHasItsOwnOutput`: `Spec => []OwnOutput`.
- `RecoveryIsWhatHasChecksums`: `Spec => []ChecksumsMatchRecovery`.
- `ScheduleIsIrrelevant`: `Spec => []ResultIsSequential`.

`OwnOutput` is what excludes a lost addition; it holds because `fanOut` cuts the
outputs into parts that do not overlap (`JobsInv`). The rest says, for each
of the three results, how far it is in the middle of a batch: a recovery
slice holds the terms of the slices before the batch and, if a goroutine is at
it, those that this goroutine has added (`RecoveryInv`, with `Upto`); a checksum is
that of the window unless some goroutine has it still ahead (`HashesInv`, with
`Ahead`); the whole-file hash has taken in the batch or its goroutine has not run
(`WholeInv`). When all have returned nothing is ahead, and the batch counts as
done. `BatchInv` says that the window stays what was read while they run, and
that slices past the end of a shrunken file are padding.

### The arithmetic, and there and back again

`FieldProofs` proves about `gf.go`, `mulAddTables` and `solve`, for words of any width,
any primitive polynomial (`FieldAssumption`, `PolyIsPrimitive`) and any systems of equations:

- `IsField`: with `GfMul` and `Xor` the words are a field, and `GfDiv` divides.
- `TablesMultiply`: looking up the parts of a word and adding gives the product, with
  parts of any size that divides the word.
- `SolveIsRight`: if `solve` goes through it returns the solution; if it does
  not, the rows depend on each other.
- `RunsSolve`: it goes through for powers of different elements, with exponents that
  follow one another.

Multiplying by the generator is a linear map (`Doubled`), so that its powers are linear and
the product, which adds logarithms, distributes. Sums over a set (`Total`) count,
bit by bit, how many of the terms have it. Elimination keeps `Done`: the solutions stay
solutions, what the columns so far were is the identity (`Diagonal`), and without a pivot some
combination of columns is zero (`Dependent`). That no combination of the rows
of consecutive powers is zero (`OnlyZeros`) is an induction over the columns: multiplying
by one element and subtracting the next power takes its column out.

About the round trip `EncodeProofs` proves, for any files, shrunk or grown, any
slices lost and any exponents left:

- `LostComesBack`: `TripSpec => []ComesBack`.
- `RunsAlwaysSolve`: `TripSpec => []RunsAreEnough`.

With `ResultIsSequential` a recovery slice is the sum of the shares of all slices;
taking out those that are there leaves one equation in the lost ones for each
recovery slice, which the lost ones satisfy, so that what `Recover` returns is
what was lost. `RoundTripAssumption` says that there are not more slices than
constants, which `Create` checks against its limit of 32768 (`gf.go:65-68`), and that runs of
exponents are finitely many and do not overlap.

### Reading the command line, and the layout

`CreateProofs` proves about `parchive create`, for any command
line, any files and any width of the counts (`CommandLineAssumption`,
`CreateAssumption`):

- `LineIsReadAsAsked`: `Spec => []ReadAsAsked`. `ReadInv` says that the
  configuration is what the options before the next argument say (`FlagsRead`, `ValuesRead`,
  `FilesRead`), each value that of an option that was given or the default (`Said`).
  For values it takes that no option is given twice (`Single`), as the
  property does; the scheme is that of the last option which names one (`LastLimits`).
  Of a number for `-f` that is too wide nothing is said.
- `BlockSizeIsBest`, `SearchNeverGivesUp`: `Spec => []BestSize` and
  `[]NoErrorIfEnough`. `SearchInv` keeps the answer between the bounds of the
  bisection (`Between`): the upper one makes few enough blocks, the one below the lower
  one too many. The lemmas say that larger blocks never make more of them, and that
  the upper bound the search begins with is one.
- `NeverOversized`: `Spec => []NoOversizedSet`. A file is written only after `Encode` has
  counted in full, and what it counted, the sizes and the block size, is what it
  was (`SizeInv`).
- `NoBlockIsWrittenTwice`, `NoBlockIsLeftOut`, `ExponentsStayInRange`, `NoFileIsTooLarge`,
  `ArchiveComesLast`: `Spec => []` of `NoBlockTwice`, `AllBlocksWritten`,
  `ExponentsInRange`, `CappedAtLargest` and `IndexIsLast`. The lemmas about `Allocate`
  say that in every scheme its runs follow one another without a gap (`Ordered`,
  `Covers`), end where the blocks end, and are under the cap where there is one. `PlanInv`
  then says that what is written and what is still to be written are the layout
  together (`Planned`). That nothing wraps round there follows from the number of slices
  that `Encode` has accepted, since twice the limit fits a count (`CreateAssumption`). `AllBlocksWritten` is stated for the cases without the loss of
  `v_limited`, and with `-l` for no `-n` before it.
- `AsManyFilesComeOut`: `Spec => []AsManyFilesAsAsked`, from both.

### Packets

`PacketsProofs` proves, for any stored files that meet `StoredAssumption`, any number
of damages and any damaged lengths:

- `TypeCorrect`: `Spec => []TypeOK`.
- `DamageStaysLocal`: `Spec => []DamageIsLocal`.
- `SetIsOfSurvivors`: `Spec => []ParsedFromSurvivors`.
- `FailureHasReason`: `Spec => []FailsForAReason`.
- `WrittenIsRead`: `ReadPackets` of a `Stream` of packets is these packets.
- `AnyFileIsEnough`: `Spec => []EachFileIsEnough`.

The argument for the first four has two halves. The first is about the files. `FilesInv` says that every
file is a damaged version of what was stored, cell by cell and perhaps shorter
(`IsDamaged`): a header that is still one is the header that was written there,
whatever length it claims. So a packet that is intact now was whole when it
was stored (`IntactWasWhole`), and of two intact packets one contains the other or
they do not overlap (`DamagedFacts`, `Laminar`). Then the scan, which goes to the end of an
intact packet and otherwise one cell on, meets the outermost ones and no
others (`ReadIsSurviving`). Without the assumption on nested packets that is false: a
packet that begins in the body of an intact one and ends behind it is neither read
nor inside.

The second half is about `Parse`. `ParseInv` says that what was read of the files opened so far
(`ReadSoFar`) is a sequence `t` of packets that were taken, followed by the
queue, and that the set is what `t` makes of it (`TakenRight`): its ID, slice size
and order are those of the first main packet of `t` (`MainRight`), a file is known
exactly if a packet that counts speaks of it, with the size and name of a description and
the checksums of an IFSC packet if there are any and none if there are not
(`SeenRight`), and the recovery slices are those of the packets with their exponents
(`RecoveryRight`). The packets that count (`Relevant`) are those `Parse` did not skip:
all up to the first main packet, and those of its set behind it. Each action then
adds one packet to `t` (`TakeActions`, `SkipAction`); at the end `t` is all that
survived (`AllTaken`), and if the sets are not mixed up before the first main packet what
counts is the set's own (`RelevantIsOwn`).

`WrittenIsRead` has the scan go from one packet to the next, whatever their bodies look
like: what it stands at is intact, since the packet is there cell by cell
(`WrittenIsIntact`, `PartsPlace`), and so it goes to its end. For `AnyFileIsEnough`,
`DamageInv` says that no more files have changed than there were damages, so one of the
files is as it was written (`OneIsWhole`). It was written by `WriteIndex` or
`WriteVolume`, so reading it gives all that describes the set (`FilesDescribe`), and
nothing else is read but packets of the same set (`AllOfSet`). Whichever main packet
comes first is then the set's, each of its files has a description and checksums, and they
are that file's, as the IDs differ (`AsSaidIsWhole`).

### PAR1

`Par1Proofs` proves, for any number of files, volumes and faults and any field:

- `RepairOnlyRecords`: `Spec => OnlyBecomesRecorded`.
- `SuccessIsRecorded`: `Spec => []SuccessMeansRecorded`.
- `RefusalHasReason`: `Spec => []RefusedForAReason`.

For the first two the elimination may return anything. Their invariant (`Inv`) is about a
command that nothing disturbed: files that are not bad are as recorded from the
second verification on, those that are bad and no longer to be rewritten are, too, and a
command that makes a set records the files as they are. `SuccessMeansRecorded` is about
the files that carry parity; a damaged one that carries none is no obstacle to
the success of a repair (section 6).

The third one needs the volumes. `WorldInv` says that each volume that can be read
holds the parity of the files it records, unless a file changed between the two passes of a
create (`VolumeRight`), and that through all sets made over one another and over that of another client; `MakeInv` says
so of a set being made, and `UseInv` of a command that uses one that the volumes it holds are
those it parsed, and that what it will write is what was recorded. With as many volumes in a
row as files are bad, `RunsSolve` applies: numbers of files are different words
(`AsWord`), so the coefficients are powers of different elements. `Par1Assumption` has the
requests finite, as machine integers are.

### Only model-checked

Liveness: the `Terminates` of the runs, `CommandEnds`, and the end of a run in
`KeepsPromise`. TLAPS here does not reason about fairness. Every invariant and every
action property of the passing runs is a theorem.

## 6. Where the code and its texts disagree

- `v_padding`. A file cut at a slice boundary in front of a last slice of zeros has
  it "found" in the padding (`scan.go:113`). Nothing is missing, no recovery
  slice is used, and `sliceReader.read` then fails with EOF: repair gives up with
  any number of recovery slices, against `repair.go:91-92`.
- `v_leftover`. When a run ends between two renames the slices it needed may be
  in a leftover temporary file only, where no later run looks; with too few
  recovery slices the set cannot be repaired any more, against "untidy rather
  than dangerous" (`repair.go:199-200`). `NothingLost` says that the contents
  are still there.
- `v_limited`. With `-l` and a small largest file the capped files do not
  hold all the blocks: the first exponents are written nowhere, against
  `layout_test.go:63`.
- `v_purge`. `repair -p photos.par2` removes `photos2024.par2` and its volumes as
  well, whatever the state of what they protect.
- `v_singular`. With volumes 1, 2 and 4 and the first three files lost the matrix
  of PAR1 is singular, in GF(256) as in the run's GF(8), and the repair that was
  announced as possible fails, against "cannot be singular" (`par1.go:519-520`).

Met while modelling. These are behaviours of the models, and the properties named
say what holds beside them:

- A read that breaks off in the middle of a slice is no error (`repair.go:312-318`
  returns one only if no byte was read). The rest is taken for zeros, and the repair
  solves with it or writes it, renames the file over the original, whose copy may
  have been the only one, and returns nil (`WriteMisread`, `SolveMisread`). All other slices
  and files are safe (`WholeReplacement`, `NothingLost`), and the command notices
  (`SuccessMeansIntact`); a caller of `Repair` does not.
- A file that cannot be opened for a moment counts as absent
  (`scan.go:100-103`, `135-138`) and is replaced. It comes back whole from right recovery
  slices; from others it may not, and if the command's first look found it fine
  it is not verified again (`check.go:189-224`), so that exit code 0 is not the truth of
  it (`Unverified`).
- The sweep steps over what it recognised as a whole, since nothing can start
  within a slice (`scan.go:213-215`). But a window can equal a slice without being one: if
  a zero is deleted from a slice of zeros and the next one begins with zero, the window at the start
  ends one byte into that one, which then is not found although it is on disk, against
  `scan.go:131-133`, which says that the sweep recovers from deletions. And
  a slice equal to an earlier one is searched for at its own offset only.
  `OnlyHiddenOverlooked` says that these are the only reasons, `IsolatedHitFound`
  and its theorem the same of the sweep itself.
- PAR1 files that are listed but carry no parity (`InSet` off, in sets of other clients)
  are counted as damaged by the check (`check.go:278-292`) and skipped by the
  repair (`par1.go:501-517`), which then returns nil: `repair` exits with 0 while such a
  file is damaged. The check also wants a volume for each of them.
- The number of `-f` is cut to 32 bits without a word (`args.go:297`).
- With as many blocks as files and all files empty the block size is zero, which
  `createPar2` divides by (`Panic`; `BestSize` says that this is the only case, and
  `layout_test.go:120-122` expects a positive size).
- When all copies of a file's checksums are lost, `Parse` returns a set in which
  that file has no slices, and verification judges it by its size
  (`EachFileIsEnough` says how much damage that takes).
- A `-rk` size stays in force when a percentage follows it.
- A PAR1 volume that is left over from an older set decides what set is meant if the
  archive is spoiled.
- A set of packets whose main packet is not the first that is read takes in what other
  sets put before it (`par2.go:307`; `ParsedFromSurvivors` is stated for the other case).
- Two versions of a file of one size that agree in their first 16 KiB have one
  file ID, and sets made of them one set ID, so that `Parse` mixes their packets.
  `Par2Repair` takes that in as far as recovery slices go (`Stale`), and
  `SuccessMeansIntact` says that the command notices; a description with the
  checksums of the other version is not modelled.

## 7. Not modelled, and the plan

Not modelled:

- The assembly kernels: they compute the product of `muladd.go`, and the
  repository's tests compare the two; their tables are in `GaloisField`.
- `safe.Join`: one check of a name against the rules of the host, without state.
- Two repairs of one directory at once: they share the names of the temporary
  files and no lock, and nothing in the code says that they may.
- What a power failure leaves of data that was never synced.
- Of the command line: `-R`, lists of files (`@`), the operation taken from the
  program's name, a size for `-rk` that wraps round in 64 bits. `-m`, `-S`, `-N`
  and `-O` are read but change nothing in `createPar2`.
- Of PAR1: how the status bits are stored (what they mean is `members`), two files with one
  base name, the fields of the header and of an entry. Sets whose
  files are all empty are modelled: their volumes hold nothing and are not
  counted, so that a lost file is not repaired (`RefusedForAReason` names the
  reason).
- Of PAR2: `identify`, `sortFiles` and the set ID, which run before anything else
  and alone; output and help texts.

Left for later: slice numbers of `newLocator` and `TotalSlices` for sets that lost
checksums. Liveness stays with TLC (section 5).
