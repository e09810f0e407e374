----------------------------- MODULE Par2Encode -----------------------------
(***************************************************************************)
(* par2.Create (src/par2/encode.go): the files of the set are read once,   *)
(* batch by batch.  For each batch goroutines hash the file, hash its      *)
(* slices and add its slices to the recovery slices, all at the same time  *)
(* and over the same buffer; a WaitGroup keeps the next batch from being   *)
(* read before they are done.                                              *)
(*                                                                         *)
(* A slice of data is <<f, i>>, or Pad for a slice of zeros.  A recovery   *)
(* slice is the set of the terms <<g, slice>> that were added to it, g     *)
(* being the global index that selects the coefficient; adding a term that *)
(* is there takes it away, as in GF(2^16).  Adding is a load and a store,  *)
(* so that two goroutines at one recovery slice would lose additions.      *)
(***************************************************************************)
EXTENDS Naturals, Sequences, FiniteSets

CONSTANTS
    Totals,     \* Totals[f]: number of slices of file f when it was identified
    Lengths,    \* Lengths[f]: the numbers of slices it may have when it is read
    Batch,      \* slices read at a time
    Count,      \* number of recovery slices
    Budgets,    \* values of GOMAXPROCS
    Pad,        \* a slice of zeros
    Unset       \* a SliceHash that was not assigned

Files == 1 .. Len(Totals)

ASSUME EncodeAssumption ==
    /\ Totals \in Seq(Nat)
    /\ Lengths \in Seq(SUBSET Nat) /\ Len(Lengths) = Len(Totals)
    /\ Batch \in Nat \ {0}
    /\ Count \in Nat
    /\ Budgets \subseteq Nat \ {0}
    /\ Pad \notin Files \X Nat /\ Unset \notin Files \X Nat
    /\ Pad # Unset

VARIABLES
    length,     \* what each file really holds now
    workers,    \* the worker budget
    pc,         \* where the goroutine of Create is
    file,       \* the file being encoded
    base,       \* global index of its first slice, less one
    done,       \* slices of the file that are encoded
    n,          \* slices in the window
    read,       \* slices that io.ReadFull filled
    window,     \* the buffer all goroutines read
    jobs,       \* goroutines that are running
    hashes,     \* hashes[f][i]: the data whose checksums slice i got
    whole,      \* whole[f]: the data the whole-file hash went over
    recovery    \* recovery[x]: the terms added up in recovery slice x

vars == <<length, workers, pc, file, base, done, n, read, window, jobs,
          hashes, whole, recovery>>
inputs == <<length, workers>>
outputs == <<hashes, whole, recovery>>

Init ==
    /\ length \in [Files -> UNION { Lengths[f] : f \in Files }]
    /\ \A f \in Files : length[f] \in Lengths[f]
    /\ workers \in Budgets
    /\ pc = "open" /\ file = 1 /\ base = 0 /\ done = 0 /\ n = 0
    /\ read = 0 /\ window = << >> /\ jobs = {}
    /\ hashes = [f \in Files |-> << >>]
    /\ whole = [f \in Files |-> << >>]
    /\ recovery = [x \in 1 .. Count |-> {}]

-----------------------------------------------------------------------------
(***************************************************************************)
(* The goroutine of Create: open each file in the order of the set and     *)
(* take it batch by batch.                                                 *)
(***************************************************************************)
AtMost(a, b) == IF a <= b THEN a ELSE b

OpenFile ==
    /\ pc = "open" /\ file \in Files
    /\ hashes' = [hashes EXCEPT ![file] = [i \in 1 .. Totals[file] |-> Unset]]
    /\ done' = 0
    /\ pc' = "read"
    /\ UNCHANGED <<inputs, file, base, n, read, window, jobs, whole, recovery>>

\* Mutant of ReadBatch: the last batch of a file is a whole one.
ReadWholeBatch ==
    /\ pc = "read" /\ done < Totals[file]
    /\ n' = Batch
    /\ read' = IF done < length[file] THEN AtMost(n', length[file] - done) ELSE 0
    /\ window' = [k \in 1 .. n' |-> IF k <= read' THEN <<file, done + k>> ELSE Pad]
    /\ pc' = "whole"
    /\ UNCHANGED <<inputs, file, base, done, jobs, outputs>>

\* io.ReadFull of the next slices; what the file is short of is zeroed.
ReadBatch ==
    /\ pc = "read" /\ done < Totals[file]
    /\ n' = AtMost(Batch, Totals[file] - done)
    /\ read' = IF done < length[file] THEN AtMost(n', length[file] - done) ELSE 0
    /\ window' = [k \in 1 .. n' |-> IF k <= read' THEN <<file, done + k>> ELSE Pad]
    /\ pc' = "whole"
    /\ UNCHANGED <<inputs, file, base, done, jobs, outputs>>

ReadFails ==
    /\ \/ pc = "read" /\ done < Totals[file]
       \/ pc = "open" /\ file \in Files
    /\ pc' = "failed"
    /\ UNCHANGED <<inputs, file, base, done, n, read, window, jobs, outputs>>

\* The end of a file: everything encoded, or the last read was a short one.
\* The next file's slices are counted from what this one was identified with.
FileEnds ==
    /\ pc = "read" /\ done >= Totals[file]
    /\ file' = file + 1
    /\ base' = base + Totals[file]
    /\ pc' = IF file = Len(Totals) THEN "done" ELSE "open"
    /\ UNCHANGED <<inputs, done, n, read, window, jobs, outputs>>

(***************************************************************************)
(* fanOut: [0, m) is split over the worker budget.                         *)
(***************************************************************************)
Job(kind, lo, hi) == [kind |-> kind, lo |-> lo, hi |-> hi, at |-> lo, i |-> 0,
                      loaded |-> FALSE, acc |-> {}]

\* Mutant of FanOut: parts are rounded down and the rest is dropped.
FanOutDropsRest(kind, m) ==
    LET parts == AtMost(workers, m)
        step == m \div parts
    IN  { Job(kind, k * step, (k + 1) * step) : k \in 0 .. parts - 1 }

\* Mutant of FanOut: each part takes the first index of the next one, too.
FanOutOverlaps(kind, m) ==
    LET parts == AtMost(workers, m)
        step == (m + parts - 1) \div parts
    IN  { Job(kind, k * step, AtMost((k + 1) * step + 1, m)) :
            k \in { q \in 0 .. parts - 1 : q * step < m } }

FanOut(kind, m) ==
    LET parts == AtMost(workers, m)
        step == (m + parts - 1) \div parts
    IN  { Job(kind, k * step, AtMost((k + 1) * step, m)) :
            k \in { q \in 0 .. parts - 1 : q * step < m } }

\* wg.Add and go, for the whole-file hash, the slices and the recovery slices.
SpawnWhole ==
    /\ pc = "whole"
    /\ jobs' = jobs \cup {Job("whole", 0, 1)}
    /\ pc' = "slices"
    /\ UNCHANGED <<inputs, file, base, done, n, read, window, outputs>>

SpawnHash ==
    /\ pc = "slices"
    /\ jobs' = jobs \cup FanOut("hash", n)
    /\ pc' = IF Count > 0 THEN "encode" ELSE "wait"
    /\ UNCHANGED <<inputs, file, base, done, n, read, window, outputs>>

SpawnCode ==
    /\ pc = "encode"
    /\ jobs' = jobs \cup FanOut("code", Count)
    /\ pc' = "wait"
    /\ UNCHANGED <<inputs, file, base, done, n, read, window, outputs>>

\* Mutant of Wait: the goroutines that encode are not waited for.
WaitForHashes ==
    /\ pc = "wait" /\ \A j \in jobs : j.kind = "code"
    /\ done' = IF read < n THEN Totals[file] ELSE done + n
    /\ pc' = "read"
    /\ UNCHANGED <<inputs, file, base, n, read, window, jobs, outputs>>

\* Mutant of Wait: what was read is counted, and a short read does not end the
\* loop.
WaitCountsRead ==
    /\ pc = "wait" /\ jobs = {}
    /\ done' = done + read
    /\ pc' = "read"
    /\ UNCHANGED <<inputs, file, base, n, read, window, jobs, outputs>>

\* wg.Wait, and the advance to the next batch or, after a short read, out of
\* the loop.
Wait ==
    /\ pc = "wait" /\ jobs = {}
    /\ done' = IF read < n THEN Totals[file] ELSE done + n
    /\ pc' = "read"
    /\ UNCHANGED <<inputs, file, base, n, read, window, jobs, outputs>>

-----------------------------------------------------------------------------
(***************************************************************************)
(* The goroutines of a batch.  done, base and the buffer are captured by   *)
(* reference: they are read when they are used.  A goroutine is gone       *)
(* (wg.Done) with its last write.                                          *)
(***************************************************************************)
Proceed(j, k) == jobs' = (jobs \ {j}) \cup (IF k.at < k.hi THEN {k} ELSE {})

\* whole.Write of the bytes that the file really has.
HashWhole(j) ==
    /\ j.kind = "whole"
    /\ whole' = [whole EXCEPT ![file] = @ \o SubSeq(window, 1, read)]
    /\ Proceed(j, [j EXCEPT !.at = j.at + 1])
    /\ UNCHANGED <<hashes, recovery>>

HashSlice(j) ==
    /\ j.kind = "hash"
    /\ hashes' = [hashes EXCEPT ![file][done + j.at + 1] = window[j.at + 1]]
    /\ Proceed(j, [j EXCEPT !.at = j.at + 1])
    /\ UNCHANGED <<whole, recovery>>

CodeLoad(j) ==
    /\ j.kind = "code" /\ ~j.loaded
    /\ jobs' = (jobs \ {j}) \cup {[j EXCEPT !.loaded = TRUE, !.acc = recovery[j.at + 1]]}
    /\ UNCHANGED outputs

\* Adding to a set of terms over a field of characteristic two.
Toggle(S, t) == IF t \in S THEN S \ {t} ELSE S \cup {t}

\* mulAddTables of slice i of the window to recovery slice at.
CodeStore(j) ==
    /\ j.kind = "code" /\ j.loaded
    /\ LET w == window[j.i + 1]
           sum == IF w = Pad THEN j.acc ELSE Toggle(j.acc, <<base + done + j.i + 1, w>>)
       IN  recovery' = [recovery EXCEPT ![j.at + 1] = sum]
    /\ IF j.i + 1 < n
       THEN Proceed(j, [j EXCEPT !.i = j.i + 1, !.loaded = FALSE, !.acc = {}])
       ELSE Proceed(j, [j EXCEPT !.at = j.at + 1, !.i = 0, !.loaded = FALSE, !.acc = {}])
    /\ UNCHANGED <<hashes, whole>>

Goroutine ==
    /\ \E j \in jobs : HashWhole(j) \/ HashSlice(j) \/ CodeLoad(j) \/ CodeStore(j)
    /\ UNCHANGED <<inputs, pc, file, base, done, n, read, window>>

-----------------------------------------------------------------------------
Main == OpenFile \/ ReadBatch \/ FileEnds \/ SpawnWhole \/ SpawnHash
            \/ SpawnCode \/ Wait
\* Create has returned.
Returned == pc \in {"done", "failed"} /\ UNCHANGED vars

Next == Main \/ ReadFails \/ Goroutine \/ Returned

\* The Go scheduler lets every goroutine that can run do so eventually.
Spec == Init /\ [][Next]_vars /\ WF_vars(Main) /\ WF_vars(Goroutine)

-----------------------------------------------------------------------------
SliceData == (Files \X Nat) \cup {Pad}
Terms == Nat \X (Files \X Nat)

TypeOK ==
    /\ length \in [Files -> Nat] /\ workers \in Budgets
    /\ pc \in {"open", "read", "whole", "slices", "encode", "wait",
               "done", "failed"}
    /\ file \in 1 .. Len(Totals) + 1
    /\ base \in Nat
    /\ pc \in {"whole", "slices", "encode", "wait"} => done + n <= Totals[file]
    /\ read \in 0 .. n
    /\ \A k \in DOMAIN window : window[k] \in SliceData
    /\ \A j \in jobs : j.kind \in {"whole", "hash", "code"} /\ j.at \in j.lo .. j.hi - 1
    /\ \A f \in Files : \A i \in DOMAIN hashes[f] : hashes[f][i] \in SliceData \cup {Unset}
    /\ \A f \in Files : whole[f] \in Seq(SliceData \ {Pad})
    /\ \A x \in 1 .. Count : recovery[x] \subseteq Terms

\* Global index of slice i of file f, from the sizes the set records.
Offset[f \in 0 .. Len(Totals)] == IF f = 0 THEN 0 ELSE Offset[f - 1] + Totals[f]
Before(f) == Offset[f - 1]

Hashed ==
    UNION { {f} \X { i \in DOMAIN hashes[f] : hashes[f][i] \notin {Pad, Unset} } : f \in Files }

\* Whenever no goroutine is at work, each recovery slice encodes exactly the
\* data whose checksums the set records, each slice once and under its own
\* coefficient; also when files changed after they were identified.  Otherwise
\* what is recovered later would fail its own checksums. (encode.go:171-194)

ChecksumsMatchRecovery ==
    pc \in {"open", "read", "done", "failed"} =>
        \A x \in 1 .. Count :
            recovery[x] = { <<Before(s[1]) + s[2], hashes[s[1]][s[2]]>> : s \in Hashed }

\* Whatever the schedule and the number of workers, the result is that of
\* going through the files one slice at a time. (encode.go:64-66)
Encoded(f) == AtMost(length[f], Totals[f])

ResultIsSequential ==
    pc = "done" => \A f \in Files :
        /\ whole[f] = [i \in 1 .. Encoded(f) |-> <<f, i>>]
        /\ \A i \in 1 .. Encoded(f) :
            /\ hashes[f][i] = <<f, i>>
            /\ \A x \in 1 .. Count : <<Before(f) + i, <<f, i>>>> \in recovery[x]

\* No two goroutines are at the same output. (encode.go:163-172, :206-225)
OwnOutput ==
    \A j, k \in jobs : j # k => j.kind # k.kind \/ j.at # k.at

\* Create returns: no goroutine is waited for in vain.
Terminates == <>(pc \in {"done", "failed"})
=============================================================================
