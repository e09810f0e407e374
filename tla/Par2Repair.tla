----------------------------- MODULE Par2Repair -----------------------------
(***************************************************************************)
(* Set.RepairWith (src/par2/repair.go): find the slices, solve for those   *)
(* that are nowhere, build every file that is not fine in a temporary file *)
(* next to it, then rename the temporary files one after the other.        *)
(*                                                                         *)
(* Every system call that reads or changes a file is a step, so that an    *)
(* I/O error can strike any of them and the process can die between any    *)
(* two.  An error that strikes a read in the middle of a slice goes by     *)
(* unnoticed.  A repair may be started again however the last one ended.   *)
(***************************************************************************)
EXTENDS Par2Set

CONSTANTS
    Exps,       \* exponents of the recovery slices that were read
    Stale,      \* those of them that were not computed from Data
    Singular,   \* pairs <<exponents, missing slices>> with a singular matrix
    Disks,      \* the states of the protected files a first run may meet
    MaxFaults   \* bound on the I/O errors and crashes of a behaviour

ASSUME RepairAssumption ==
    /\ Exps \in SUBSET Nat
    /\ IsFiniteSet(Exps)
    /\ Stale \subseteq Exps
    /\ Disks \subseteq Disk
    /\ MaxFaults \in Nat

VARIABLES
    disk,       \* the protected files
    tmp,        \* tmp[f] is the temporary file of f, "<path>.par2tmp"
    pc,         \* where the run is
    found,      \* slice -> location, the result of locate
    recovered,  \* missing slice -> bytes, the result of solveMissing
    todo,       \* files that are not OK and not yet built
    cur,        \* the file being built, 0 if none
    built,      \* files whose temporary file waits for its rename ("done")
    unseen,     \* files that this run could not open to check them,
    unswept,    \* and those it could not open to sweep them
    torn,       \* slices that a read of this run which broke off may have spoilt
    faults      \* I/O errors and crashes so far

vars == <<disk, tmp, pc, found, recovered, todo, cur, built, unseen, unswept, torn, faults>>
lookVars == <<found, unseen, unswept>>
runVars == <<lookVars, recovered, todo, cur, built, torn>>

Running == {"solve", "build", "rename"}
\* "refused" is an error of repair itself, "ioerror" one of the system.
Halted == {"idle", "done", "refused", "ioerror", "crashed"}

EmptyMap == [x \in {} |-> x]

Init ==
    /\ disk \in Disks
    /\ tmp = [f \in Files |-> Absent]
    /\ pc = "idle"
    /\ found = EmptyMap /\ recovered = EmptyMap
    /\ todo = {} /\ cur = 0 /\ built = {}
    /\ unseen = {} /\ unswept = {} /\ torn = {}
    /\ faults = 0

-----------------------------------------------------------------------------
(***************************************************************************)
(* What goes wrong around the program is bounded.  Files that exist and    *)
(* cannot be opened are one fault, whichever they are, and no error of     *)
(* locate: it takes them for absent.                                       *)
(***************************************************************************)
Fault == faults < MaxFaults /\ faults' = faults + 1

Opening(cannotSee, cannotSweep) ==
    IF cannotSee \cup cannotSweep = {} THEN faults' = faults ELSE Fault

(***************************************************************************)
(* RepairWith: locate and status.  Without anything to do the run is over; *)
(* without anything missing it goes straight to rewriteAll.                *)
(***************************************************************************)
Begin ==
    /\ pc \in Halted
    /\ unseen' \in SUBSET Existing(disk) /\ unswept' \in SUBSET Existing(disk)
    /\ Opening(unseen', unswept')
    /\ LET loc == Locate(disk, unseen', unswept')
           bad == { f \in Files : ~FileOK(disk, loc, f) }
       IN  /\ found' = loc
           /\ todo' = bad
           /\ pc' = IF bad = {} THEN "done"
                    ELSE IF Missing(loc) = {} THEN "build" ELSE "solve"
    /\ recovered' = EmptyMap /\ cur' = 0 /\ built' = {} /\ torn' = {}
    /\ UNCHANGED <<disk, tmp>>

(***************************************************************************)
(* sliceReader.read: to read nothing at all is an error, as at or past the *)
(* end of the file.  A read that breaks off after its first bytes is none: *)
(* the rest is taken for zeros, as if the file ended there.                *)
(***************************************************************************)
Readable(at) == disk[at[1]] # Absent /\ at[2] < Len(disk[at[1]])

Misreads(at) ==
    { [k \in 1 .. Size |-> IF k <= n THEN WindowAt(disk, at)[k] ELSE Zero] :
        n \in { m \in 1 .. Size - 1 : at[2] + m < Len(disk[at[1]]) } }

(***************************************************************************)
(* solveMissing uses the lowest exponents, as many as slices are missing.  *)
(* It subtracts what it reads of every found slice, so what it returns is  *)
(* right if all that it read was.                                          *)
(***************************************************************************)
LowestExps(n) ==
    CHOOSE E \in SUBSET Exps :
        Cardinality(E) = n /\ \A e \in E, x \in Exps \ E : e < x

Enough == Cardinality(Exps) >= Cardinality(Missing(found))

\* Mutant of Solvable: one recovery slice more than needed is asked for.
SolvableWithSpare ==
    /\ Cardinality(Exps) > Cardinality(Missing(found))
    /\ \A s \in DOMAIN found : Readable(found[s])
    /\ <<LowestExps(Cardinality(Missing(found))), Missing(found)>> \notin Singular

Solvable ==
    /\ Enough
    /\ \A s \in DOMAIN found : Readable(found[s])
    /\ <<LowestExps(Cardinality(Missing(found))), Missing(found)>> \notin Singular

\* What is recovered comes from recovery slices of these very files.
Reliable == LowestExps(Cardinality(Missing(found))) \cap Stale = {}

ReadRight ==
    /\ Reliable
    /\ \A s \in DOMAIN found : WindowAt(disk, found[s]) = DataOf(s)

Solve ==
    /\ pc = "solve"
    /\ Solvable
    /\ recovered' \in [Missing(found) -> Windows]
    /\ ReadRight => recovered' = [s \in Missing(found) |-> DataOf(s)]
    /\ pc' = "build"
    /\ UNCHANGED <<disk, tmp, lookVars, todo, cur, built, torn, faults>>

\* A read breaks off: the solving goes on, with what is not in the file.
SolveMisread ==
    /\ pc = "solve" /\ Fault
    /\ Solvable
    /\ \E s \in DOMAIN found : Misreads(found[s]) # {}
    /\ recovered' \in [Missing(found) -> Windows]
    /\ torn' = Missing(found)
    /\ pc' = "build"
    /\ UNCHANGED <<disk, tmp, lookVars, todo, cur, built>>

SolveFails ==
    /\ pc = "solve"
    /\ ~Solvable
    /\ pc' = "refused"
    /\ UNCHANGED <<disk, tmp, runVars, faults>>

-----------------------------------------------------------------------------
(***************************************************************************)
(* rewriteAll, building: create (or truncate) the temporary file, write    *)
(* slice after slice, close.                                               *)
(***************************************************************************)
CreateTmp ==
    /\ pc = "build" /\ cur = 0
    /\ \E f \in todo :
        /\ \A h \in todo : f <= h
        /\ cur' = f
        /\ tmp' = [tmp EXCEPT ![f] = << >>]
    /\ UNCHANGED <<disk, pc, lookVars, recovered, todo, built, torn, faults>>

\* The slices whose turn it is: the one that begins where the last one ended.
Due(s) == s \in Slices /\ s[1] = cur /\ Offset(s) = Len(tmp[cur])

\* The padding of the last slice of a file is not written.
Trimmed(s, w) ==
    LET left == Len(Data[s[1]]) - Offset(s)
    IN  SubSeq(w, 1, IF left < Size THEN left ELSE Size)

Write(s, w) == tmp' = [tmp EXCEPT ![cur] = @ \o Trimmed(s, w)]

WriteSlice ==
    /\ pc = "build" /\ cur # 0
    /\ \E s \in Slices :
        /\ Due(s)
        /\ \/ /\ s \in DOMAIN found /\ Readable(found[s])
              /\ Write(s, WindowAt(disk, found[s]))
           \/ s \in DOMAIN recovered \ DOMAIN found /\ Write(s, recovered[s])
    /\ UNCHANGED <<disk, pc, runVars, faults>>

\* A read breaks off: what was read is written, and zeros for the rest.
WriteMisread ==
    /\ pc = "build" /\ cur # 0 /\ Fault
    /\ \E s \in DOMAIN found :
        /\ Due(s) /\ Readable(found[s])
        /\ \E w \in Misreads(found[s]) : Write(s, w)
        /\ torn' = torn \cup {s}
    /\ UNCHANGED <<disk, pc, lookVars, recovered, todo, cur, built>>

CloseTmp ==
    /\ pc = "build" /\ cur # 0
    /\ ~\E s \in Slices : Due(s)
    /\ built' = built \cup {cur}
    /\ todo' = todo \ {cur}
    /\ cur' = 0
    /\ pc' = IF todo = {cur} THEN "rename" ELSE "build"
    /\ UNCHANGED <<disk, tmp, lookVars, recovered, torn, faults>>

(***************************************************************************)
(* cleanup and the removal of the file being written.  Errors of os.Remove *)
(* are ignored, so any of the temporary files may stay.                    *)
(***************************************************************************)
CleanUp ==
    \E removed \in SUBSET (built \cup ({cur} \ {0})) :
        tmp' = [f \in Files |-> IF f \in removed THEN Absent ELSE tmp[f]]

\* Mutant of WriteFails: a read that failed is tried again.
WriteRetries ==
    /\ pc = "build" /\ cur # 0
    /\ \E s \in DOMAIN found : Due(s) /\ ~Readable(found[s])
    /\ UNCHANGED vars

WriteFails ==
    /\ pc = "build" /\ cur # 0
    /\ \E s \in Slices :
        /\ Due(s)
        /\ IF s \in DOMAIN found THEN ~Readable(found[s]) ELSE s \notin DOMAIN recovered
    /\ CleanUp
    /\ pc' = "refused"
    /\ UNCHANGED <<disk, runVars, faults>>

(***************************************************************************)
(* rewriteAll, renaming, in the order the files were built.                *)
(***************************************************************************)
\* Mutant of Rename: each file is renamed as soon as it is built.
RenameAtOnce ==
    /\ pc \in {"build", "rename"} /\ cur = 0
    /\ \E f \in built :
        /\ disk' = [disk EXCEPT ![f] = tmp[f]]
        /\ tmp' = [tmp EXCEPT ![f] = Absent]
        /\ built' = built \ {f}
        /\ pc' = IF built = {f} /\ todo = {} THEN "done" ELSE pc
    /\ UNCHANGED <<lookVars, recovered, todo, cur, torn, faults>>

Rename ==
    /\ pc = "rename"
    /\ \E f \in built :
        /\ \A h \in built : f <= h
        /\ disk' = [disk EXCEPT ![f] = tmp[f]]
        /\ tmp' = [tmp EXCEPT ![f] = Absent]
        /\ built' = built \ {f}
        /\ pc' = IF built = {f} THEN "done" ELSE "rename"
    /\ UNCHANGED <<lookVars, recovered, todo, cur, torn, faults>>

-----------------------------------------------------------------------------
(***************************************************************************)
(* The errors that are noticed, and the end of the process.                *)
(***************************************************************************)
\* A file of the set was opened but cannot be read.
LocateError ==
    /\ pc \in Halted /\ Fault
    /\ pc' = "ioerror"
    /\ UNCHANGED <<disk, tmp, runVars>>

\* A file cannot be opened, or read at the first byte wanted.
SolveError ==
    /\ pc = "solve" /\ Fault
    /\ pc' = "ioerror"
    /\ UNCHANGED <<disk, tmp, runVars>>

\* Creating, opening, reading the first byte wanted, writing or closing failed:
\* clean up and return.
BuildError ==
    /\ pc = "build" /\ Fault
    /\ CleanUp
    /\ pc' = "ioerror"
    /\ UNCHANGED <<disk, runVars>>

\* Mutant of RenameError: a failed rename cleans up like every other error.
RenameErrorCleansUp ==
    /\ pc = "rename" /\ Fault
    /\ CleanUp
    /\ pc' = "ioerror"
    /\ UNCHANGED <<disk, runVars>>

\* A rename failed: return at once, the other temporary files stay.
RenameError ==
    /\ pc = "rename" /\ Fault
    /\ pc' = "ioerror"
    /\ UNCHANGED <<disk, tmp, runVars>>

Crash ==
    /\ pc \in Running /\ Fault
    /\ pc' = "crashed"
    /\ UNCHANGED <<disk, tmp, runVars>>

-----------------------------------------------------------------------------
Step == Solve \/ SolveFails \/ CreateTmp \/ WriteSlice \/ CloseTmp
            \/ WriteFails \/ Rename
Misread == SolveMisread \/ WriteMisread
Failure == LocateError \/ SolveError \/ BuildError \/ RenameError \/ Crash
Next == Begin \/ Step \/ Misread \/ Failure

\* A run that was started proceeds, since it is straight-line code; nothing
\* obliges anyone to start one.
Spec == Init /\ [][Next]_vars /\ WF_vars(Step)

-----------------------------------------------------------------------------
TypeOK ==
    /\ disk \in Disk
    /\ tmp \in Disk
    /\ pc \in Running \cup Halted
    /\ DOMAIN found \subseteq Slices
    /\ \A s \in DOMAIN found : found[s] \in Files \X Nat
    /\ DOMAIN recovered \subseteq Slices
    /\ \A s \in DOMAIN recovered : recovered[s] \in Windows
    /\ todo \subseteq Files /\ built \subseteq Files
    /\ cur \in Files \cup {0}
    /\ unseen \subseteq Files /\ unswept \subseteq Files
    /\ torn \subseteq Slices
    /\ faults \in 0 .. MaxFaults

\* A file that is replaced is replaced by a whole file: as long as recorded,
\* and right in every slice that was found somewhere, which no error in the
\* recovery data can spoil.  With recovery data of these very files all of it
\* is right.  The slices of which a read broke off are excepted: the code takes
\* those for ending there, and renames what it wrote (repair.go:312-318).
\* (repair.go:192-194: nothing is renamed until every read is done)
Reassembled(f, c) ==
    /\ Len(c) = Len(Data[f])
    /\ \A s \in Slices \ torn :
        s[1] = f /\ (s \in DOMAIN found \/ Reliable) => Window(c, Offset(s)) = DataOf(s)

WholeReplacement ==
    [][\A f \in Files : disk'[f] # disk[f] => disk'[f] # Absent /\ Reassembled(f, disk'[f])]_vars

\* When RepairWith returns nil every file of the set is back, byte for byte,
\* whatever it found or could not open, and however many earlier runs were cut
\* short; unless it used recovery slices of other versions of the files, or a
\* read broke off in the middle of a slice.
DoneMeansIntact == (pc = "done" /\ Reliable /\ torn = {}) => disk = Intact

(***************************************************************************)
(* No step, of a run or of what goes wrong around it, destroys contents:   *)
(* if all slices but as many as there are recovery slices can be had, from *)
(* the protected files or from temporary ones, those an interrupted run    *)
(* left included, then they still can be after it, but for those of which  *)
(* a read broke off, whatever the recovery slices are.  (repair.go:199-206,*)
(* :268-272: renames that fail remove no temporary file, since a slice may *)
(* by then be nowhere else)                                                *)
(***************************************************************************)
IsIn(w, c) == \E o \in 0 .. Len(c) - 1 : Window(c, o) = w

InSomeFile(s) ==
    \E f \in Files :
        \/ disk[f] # Absent /\ IsIn(DataOf(s), disk[f])
        \/ tmp[f] # Absent /\ IsIn(DataOf(s), tmp[f])

Lost == { s \in Slices : ~InSomeFile(s) /\ ~Aligned(disk, {}, s) }

NothingLost ==
    [][<<disk, tmp>>' # <<disk, tmp>> /\ Cardinality(Lost) <= Cardinality(Exps)
         => Cardinality(Lost' \ torn') <= Cardinality(Exps)]_vars

\* A slice that lies anywhere in a file that could be opened is found, unless it
\* is equal to another one, whose copies may be taken for that, or overlaps a
\* window that was recognised: the sweep steps over those, and with them over
\* whatever begins inside. (repair.go:28-29, scan.go:83-95, :213-221)
Apart(c, o) ==
    \A p \in 0 .. Len(c) - 1 : p # o /\ p - o \in 1 - Size .. Size - 1 => ~Recognised(Window(c, p))

OnlyHiddenOverlooked ==
    (pc = "solve" /\ ~NoScan) =>
        \A s \in Missing(found), at \in Locations(disk) :
            (WindowAt(disk, at) = DataOf(s) /\ at[1] \notin unswept)
            => \/ \E t \in Slices \ {s} : DataOf(t) = DataOf(s)
               \/ ~Apart(disk[at[1]], at[2])

\* Repair refuses only for a reason, and then it changed no protected file: too
\* few recovery slices, a singular matrix, or a slice that verification
\* took from the padding past the end of a file.
RefusedForAReason ==
    pc = "refused" =>
        /\ found = Locate(disk, unseen, unswept)
        /\ \/ ~Enough
           \/ \E s \in DOMAIN found : ~Readable(found[s])
           \/ <<LowestExps(Cardinality(Missing(found))), Missing(found)>> \in Singular

\* The repair keeps the promise of RepairPromise: of its steps a caller sees
\* whole files being replaced, none of which loses a slice that was right in
\* its place, and an end; all that happens to temporary files, and what was
\* found and recovered, is its own affair.  What it may spoil are the slices of
\* which a read broke off, and, from recovery slices of other versions, those of
\* files it took for absent. (repair.go:90-92, :192-194, :312-318, scan.go:100-103)
Promise == INSTANCE RepairPromise WITH
    state <- IF pc \in Running THEN "running" ELSE IF pc = "done" THEN "done" ELSE "halted",
    sound <- Enough /\ Reliable,
    spoilt <- torn \cup { s \in Slices : s[1] \in unseen /\ ~(Enough /\ Reliable) }
KeepsPromise == Promise!PromiseSpec

-----------------------------------------------------------------------------
(***************************************************************************)
(* What the comments say and the code does not do.                         *)
(***************************************************************************)
\* repair.go:90-92: with as many recovery slices as slices that could not be
\* found, repair goes through.
EnoughIsEnough == pc = "refused" => ~Enough

\* repair.go:199-200: a leftover temporary file is untidy rather than
\* dangerous; so what could be repaired still can be after an error.
StaysRepairable ==
    pc \in {"ioerror", "crashed"} =>
        Cardinality(Missing(Locate(disk, {}, {}))) <= Cardinality(Exps)
=============================================================================
