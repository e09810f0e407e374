\* Block sizes and layouts.
SPECIFICATION Spec
CONSTANTS
    Jobs <- AllJobs
    MaxBlocks = 12
    Limit = 20
    CountBits = 5
    DefaultBlockCount = 10
INVARIANTS
    ReadAsAsked AsManyFilesAsAsked NoOversizedSet ExponentsInRange
    AllBlocksWritten NoBlockTwice CappedAtLargest IndexIsLast BestSize NoErrorIfEnough
PROPERTIES Terminates
