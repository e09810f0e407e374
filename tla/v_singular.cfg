\* Volumes with a gap in their numbers.
SPECIFICATION Spec
CONSTANTS
    Width = 3
    GfPoly <- MCPoly
    Kernels = {1, 3}
    N = 3
    Requests <- MCRequests
    Numbered = 4
    Contents <- MCContents
    Originals <- MCOriginals
    Foreign <- MCForeign
    Faults = 1
    Absent = Absent
    Junk = Junk
INVARIANT NeverSingular
