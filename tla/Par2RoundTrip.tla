---------------------------- MODULE Par2RoundTrip ----------------------------
(***************************************************************************)
(* From the slices that par2.Create encoded (Par2Encode) back to slices    *)
(* that were lost (solveMissing in src/par2/repair.go), in the arithmetic  *)
(* of a small field.  A set that was created more than once, each time     *)
(* with another first exponent (-f), has recovery slices with gaps between *)
(* their exponents.  A set that was made on one machine may be repaired on *)
(* another, which multiplies in another way.                               *)
(***************************************************************************)
EXTENDS Par2Encode, GaloisField

CONSTANTS
    Firsts,     \* first exponents the set was created with
    Word        \* Word[s]: the content of slice s

Exponents == { first + x - 1 : first \in Firsts, x \in 1 .. Count }

Globals == 1 .. Before(Len(Totals) + 1)

\* Each creation has exponents of its own; more slices than there are constants
\* are refused (gf.go:65-68).
ASSUME RoundTripAssumption ==
    /\ Firsts \subseteq Nat /\ IsFiniteSet(Firsts)
    /\ \A first, other \in Firsts : first # other => first + Count <= other \/ other + Count <= first
    /\ Cardinality(Globals) <= Cardinality(Coprimes)

ASSUME WordAssumption == \A f \in Files : \A i \in 1 .. Totals[f] : Word[<<f, i>>] \in Words

VARIABLES
    lost,       \* global indices of the slices that cannot be found
    exps,       \* exponents of the recovery slices that can
    answer      \* what the elimination gave

tripVars == <<vars, lost, exps, answer>>

TripInit == Init /\ lost = {} /\ exps = {} /\ answer = [ok |-> FALSE, rhs |-> << >>]

\* The slice with a global index, and its content; zeros where there is none.
SliceAt(g) == CHOOSE s \in UNION { {f} \X (1 .. Totals[f]) : f \in Files } : Before(s[1]) + s[2] = g
WordOf(w) == IF w \in {Pad, Unset} THEN {} ELSE Word[w]
Content(g) == WordOf(hashes[SliceAt(g)[1]][SliceAt(g)[2]])

Constants == InputConstants(Cardinality(Globals))

\* A slice multiplied by a factor, with the tables of a kernel.
Products == Tabulated([f \in Kernels \X Words \X Words |-> Product(f[2], f[1], f[3])])
Times(kernel, factor, w) == Products[<<kernel, factor, w>>]

\* What Create wrote as the recovery slice with an exponent: the goroutines
\* multiply slice g by the power of its constant.
Slot(e) == CHOOSE x \in 1 .. Count : \E first \in Firsts : e = first + x - 1
RecoverySlice(e, kernel) ==
    Total(recovery[Slot(e)],
          [t \in recovery[Slot(e)] |-> Times(kernel, GfPow(Constants[t[1]], e), WordOf(t[2]))])

Lowest(S, k) == { x \in S : Cardinality({ y \in S : y < x }) < k }

\* Slices whose checksums were never set are found nowhere.
Unhashed == { g \in Globals : hashes[SliceAt(g)[1]][SliceAt(g)[2]] = Unset }

\* Mutant of SolveMissing: what survived is not subtracted.
SolveWithSurvivors(missing, have, made, used) ==
    LET es == Sorted(Lowest(have, Cardinality(missing)))
        gs == Sorted(missing)
    IN  Solve([r \in DOMAIN es |-> [c \in DOMAIN gs |-> GfPow(Constants[gs[c]], es[r])]],
              [r \in DOMAIN es |-> RecoverySlice(es[r], made)])

\* solveMissing: the lowest exponents, less what survived, eliminated.
SolveMissing(missing, have, made, used) ==
    LET es == Sorted(Lowest(have, Cardinality(missing)))
        gs == Sorted(missing)
        known(e) == Total(Globals \ missing,
                          [g \in Globals |-> Times(used, GfPow(Constants[g], e), Content(g))])
    IN  Solve([r \in DOMAIN es |-> [c \in DOMAIN gs |-> GfPow(Constants[gs[c]], es[r])]],
              [r \in DOMAIN es |-> Xor(RecoverySlice(es[r], made), known(es[r]))])

Recover ==
    /\ pc = "done" /\ lost = {}
    /\ exps' \in SUBSET Exponents
    /\ lost' \in { L \in SUBSET Globals :
                    Unhashed \subseteq L /\ L # {} /\ Cardinality(L) <= Cardinality(exps') }
    /\ \E made, used \in Kernels : answer' = SolveMissing(lost', exps', made, used)
    /\ UNCHANGED vars

TripNext ==
    \/ Next /\ UNCHANGED <<lost, exps, answer>>
    \/ Recover

TripSpec == TripInit /\ [][TripNext]_tripVars /\ WF_vars(Main) /\ WF_vars(Goroutine)

-----------------------------------------------------------------------------
\* Whatever was lost comes back as it was hashed, from any recovery slices in
\* any number of goroutines' making, and with whichever kernels they were made
\* and are used. (repair.go:136-190, encode.go:171-192, muladd.go:8-21)
ComesBack ==
    lost # {} /\ answer.ok =>
        \A k \in 1 .. Cardinality(lost) : answer.rhs[k] = Content(Sorted(lost)[k])

\* Recovery slices with consecutive exponents are always enough. (gf.go:58-60)
Consecutive(S) == \A x, y \in S : \A z \in x .. y : z \in S
RunsAreEnough ==
    lost # {} /\ Consecutive(Lowest(exps, Cardinality(lost))) => answer.ok
==============================================================================
