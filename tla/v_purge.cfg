\* repair -p next to another set whose name begins alike.
SPECIFICATION CheckSpec
CONSTANTS
    Byte = {0, 1}
    Zero = 0
    Absent = Absent
    Data <- CheckData
    Size = 2
    Chunk = 8
    NoScan = FALSE
    Exps = {0, 1}
    Stale = {1}
    Singular <- OneSingular
    Disks <- CheckDisks
    MaxFaults = 0
    archive = archive
    volume = volume
    otherArchive = otherArchive
    backup = backup
    Companions <- MCCompanions
    Own <- MCOwn
    Backups <- MCBackups
INVARIANTS OthersStay
