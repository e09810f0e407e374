\* Commands on any damage, with an error or crash; one of two recovery slices is
\* from other versions of the files.
SPECIFICATION CheckSpec
CONSTANTS
    Byte = {0, 1}
    Zero = 0
    Absent = Absent
    Data <- CheckData
    Size = 2
    Chunk = 8
    NoScan = FALSE
    Exps = {0, 1}
    Stale = {1}
    Singular <- OneSingular
    Disks <- CheckDisks
    MaxFaults = 1
    archive = archive
    volume = volume
    otherArchive = otherArchive
    backup = backup
    Companions <- MCCompanions
    Own <- MCOwn
    Backups <- MCBackups
INVARIANTS SuccessMeansIntact
PROPERTIES PurgedOnlyWhenIntact CommandEnds
