----------------------------- MODULE GaloisField -----------------------------
(***************************************************************************)
(* The arithmetic of GF(2^Width) by tables of powers and logarithms of the *)
(* generator 2 (src/par2/gf.go; Width is 16 there and Poly 0x1100B), and   *)
(* the elimination that solves for lost slices (solve in repair.go).  A    *)
(* slice is one word: what is done to a slice is done to each word of it.  *)
(***************************************************************************)
EXTENDS Words, Sequences, FiniteSets

CONSTANTS
    GfPoly,     \* the primitive polynomial
    Kernels     \* bits a multiplication table is indexed with: 8, and 4 with SIMD

ASSUME FieldAssumption ==
    /\ GfPoly \subseteq 0 .. Width /\ Width \in GfPoly /\ 0 \in GfPoly
    /\ \A bits \in Kernels : bits \in 1 .. Width /\ Width % bits = 0

GfLimit == 2^Width - 1
One == {0}

GfExp ==
    LET exp[k \in 0 .. GfLimit - 1] ==
            IF k = 0 THEN One
            ELSE LET x == ShiftedLeft(exp[k - 1])
                 IN  IF Width \in x THEN Xor(x, GfPoly) ELSE x
    IN  Tabulated(exp)

NonZero == Words \ {{}}

\* 2 generates the field: else logarithms would be missing.
ASSUME PolyIsPrimitive == \A w \in NonZero : \E k \in 0 .. GfLimit - 1 : GfExp[k] = w

GfLog == Tabulated([w \in NonZero |-> CHOOSE k \in 0 .. GfLimit - 1 : GfExp[k] = w])

GfMul(a, b) == IF a = {} \/ b = {} THEN {} ELSE GfExp[(GfLog[a] + GfLog[b]) % GfLimit]
GfDiv(a, b) == IF a = {} THEN {} ELSE GfExp[(GfLog[a] + GfLimit - GfLog[b]) % GfLimit]

\* Mutant of GfPow: the product is cut to the width of a word.
GfPowCut(a, e) == IF a = {} THEN {} ELSE GfExp[((GfLog[a] * e) % 2^Width) % GfLimit]

GfPow(a, e) == IF a = {} THEN {} ELSE GfExp[(GfLog[a] * e) % GfLimit]

\* The elements of a set of numbers in ascending order.
Sorted(S) ==
    Tabulated([k \in 1 .. Cardinality(S) |->
        CHOOSE x \in S : Cardinality({ y \in S : y < x }) = k - 1])

Coprimes == { k \in 1 .. GfLimit - 1 : ~ \E d \in 2 .. GfLimit : k % d = 0 /\ GfLimit % d = 0 }

\* The constants of the slices: powers of 2 that generate the field, too.
InputConstants(count) == LET ks == Sorted(Coprimes) IN [i \in 1 .. count |-> GfExp[ks[i]]]

\* The sum of f[t] over the t in S: a bit is set if it is in an odd number of them.
Total(S, f) == { k \in 0 .. Width - 1 : Cardinality({ t \in S : k \in f[t] }) % 2 = 1 }

\* makeTables: the products of a factor with the parts of a word.
MulTable(factor, bits) ==
    [p \in (0 .. Width \div bits - 1) \X SUBSET (0 .. bits - 1) |->
        GfMul(factor, { bits * p[1] + k : k \in p[2] })]

\* mulAddScalar and the SIMD kernels: a product is put together from them.
Product(factor, bits, w) ==
    LET table == MulTable(factor, bits)
        value(part) == { k \in 0 .. bits - 1 : bits * part + k \in w }
    IN  Total(0 .. Width \div bits - 1,
              [part \in 0 .. Width \div bits - 1 |-> table[<<part, value(part)>>]])

-----------------------------------------------------------------------------
(***************************************************************************)
(* Gauss-Jordan elimination of the square matrix mat, the right-hand side  *)
(* rhs being treated alike.                                                *)
(***************************************************************************)
Swapped(f, i, j) == [f EXCEPT ![i] = f[j], ![j] = f[i]]

\* One column: the first row at or below it with an entry there is brought up,
\* made one in that column, and subtracted from every other row.
Column(s, col) ==
    LET pivots == { r \in col .. Len(s.mat) : s.mat[r][col] # {} }
        p == CHOOSE r \in pivots : \A q \in pivots : r <= q
        mat == Swapped(s.mat, col, p)
        rhs == Swapped(s.rhs, col, p)
        inv == GfDiv(One, mat[col][col])
        row == Tabulated([c \in DOMAIN mat |-> GfMul(mat[col][c], inv)])
        side == GfMul(rhs[col], inv)
    IN  IF ~s.ok \/ pivots = {} THEN [s EXCEPT !.ok = FALSE]
        ELSE [ok |-> TRUE,
              mat |-> Tabulated([r \in DOMAIN mat |->
                        IF r = col THEN row
                        ELSE Tabulated([c \in DOMAIN mat |->
                                Xor(mat[r][c], GfMul(row[c], mat[r][col]))])]),
              rhs |-> Tabulated([r \in DOMAIN rhs |->
                        IF r = col THEN side
                        ELSE Xor(rhs[r], GfMul(side, mat[r][col]))])]

Solve(mat, rhs) ==
    LET start == [ok |-> TRUE,
                  mat |-> Tabulated([r \in DOMAIN mat |-> Tabulated(mat[r])]),
                  rhs |-> Tabulated(rhs)]
        after[col \in 0 .. Len(mat)] ==
            IF col = 0 THEN start ELSE Column(after[col - 1], col)
        end == after[Len(mat)]
    IN  [ok |-> end.ok, rhs |-> end.rhs]
==============================================================================
