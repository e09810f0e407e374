\* A slice of zeros is found past the end of a truncated file.
SPECIFICATION Spec
CONSTANTS
    Byte = {0, 1}
    Zero = 0
    Absent = Absent
    Data <- PaddedData
    Size = 2
    Chunk = 8
    NoScan = FALSE
    Exps = {0, 1}
    Stale = {}
    Singular <- NoneSingular
    Disks <- PaddedDisks
    MaxFaults = 0
INVARIANTS EnoughIsEnough
