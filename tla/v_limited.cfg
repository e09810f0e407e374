\* The limited scheme.
SPECIFICATION Spec
CONSTANTS
    Jobs <- LimitedJobs
    MaxBlocks = 12
    Limit = 20
    CountBits = 5
    DefaultBlockCount = 10
INVARIANTS EveryExponentOnce
