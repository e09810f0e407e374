\* Sets are made, files and volumes lost, and files repaired.
SPECIFICATION Spec
CONSTANTS
    Width = 3
    GfPoly <- MCPoly
    Kernels = {1, 3}
    N = 3
    Requests <- MCRequests
    Numbered = 4
    Contents <- MCContents
    Originals <- MCOriginals
    Foreign <- MCForeign
    Faults = 2
    Absent = Absent
    Junk = Junk
INVARIANTS SuccessMeansRecorded RefusedForAReason
PROPERTIES OnlyBecomesRecorded
