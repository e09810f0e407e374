\* Every interleaving of one to three workers over three files, and every
\* choice of lost slices and surviving recovery slices after it.
SPECIFICATION TripSpec
CONSTANTS
    Totals <- MCTotals
    Lengths <- MCLengths
    Batch = 2
    Count = 3
    Budgets = {1, 2, 3}
    Pad = Pad
    Unset = Unset
    Width = 4
    GfPoly <- MCPoly
    Kernels = {1, 2}
    Firsts = {0, 3}
    Word <- MCWord
INVARIANTS TypeOK ChecksumsMatchRecovery ResultIsSequential OwnOutput ComesBack RunsAreEnough
PROPERTIES Terminates
