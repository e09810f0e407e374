\* Every file of up to nine bytes, one more than a chunk.
SPECIFICATION Spec
CONSTANTS
    Width = 3
    ByteBits = 2
    Poly <- MCPoly
    FilterBits = 2
    Size = 2
    Chunk = 8
    Slices <- MCSlices
    Recorded = 5
    Contents <- MCContents
INVARIANTS FoundIsThere IsolatedHitFound RollingIsExact
PROPERTIES Terminates
