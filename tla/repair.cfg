\* Any damage to two files, one I/O error or crash, any number of reruns; the
\* second recovery slice stems from other versions of the files.
SPECIFICATION Spec
CONSTANTS
    Byte = {0, 1}
    Zero = 0
    Absent = Absent
    Data <- MCData
    Size = 2
    Chunk = 8
    NoScan = FALSE
    Exps = {0, 1}
    Stale = {1}
    Singular <- OneSingular
    Disks <- AllDisks
    MaxFaults = 1
INVARIANTS TypeOK DoneMeansIntact RefusedForAReason OnlyHiddenOverlooked
PROPERTIES WholeReplacement NothingLost KeepsPromise
