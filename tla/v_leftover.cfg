\* A run is cut short between two renames.
SPECIFICATION Spec
CONSTANTS
    Byte = {0, 1}
    Zero = 0
    Absent = Absent
    Data <- SwapData
    Size = 2
    Chunk = 8
    NoScan = FALSE
    Exps = {0}
    Stale = {}
    Singular <- NoneSingular
    Disks <- RepairableDisks
    MaxFaults = 1
INVARIANTS StaysRepairable
