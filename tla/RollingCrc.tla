----------------------------- MODULE RollingCrc -----------------------------
(***************************************************************************)
(* The rolling checksum of src/par2/rolling.go: the CRC register is moved  *)
(* on by one byte at the right and freed of the byte that leaves at the    *)
(* left.  A byte has ByteBits bits and the register Width; the code's are  *)
(* 8 and 32.  The reflected table is that of Go's hash/crc32.              *)
(***************************************************************************)
EXTENDS Words, Sequences

CONSTANTS
    ByteBits,   \* bits of a byte
    Poly        \* the reflected polynomial

ASSUME CrcAssumption == ByteBits \in 1 .. Width /\ Poly \in Words

Bytes == SUBSET (0 .. ByteBits - 1)
Ones == 0 .. Width - 1

LowByte(r) == r \cap (0 .. ByteBits - 1)

CrcTable ==
    Tabulated([b \in Bytes |->
        LET shifted[k \in 0 .. ByteBits] ==
                IF k = 0 THEN b
                ELSE LET r == shifted[k - 1]
                     IN  IF 0 \in r THEN Xor(ShiftedRight(r, 1), Poly) ELSE ShiftedRight(r, 1)
        IN  shifted[ByteBits]])

CrcStep(r, b) == Xor(CrcTable[Xor(LowByte(r), b)], ShiftedRight(r, ByteBits))

\* hash/crc32: ChecksumIEEE, which complements the register before and after.
Crc(block) ==
    LET register[k \in 0 .. Len(block)] ==
            IF k = 0 THEN Ones ELSE CrcStep(register[k - 1], block[k])
    IN  Xor(register[Len(block)], Ones)

-----------------------------------------------------------------------------
(***************************************************************************)
(* crcMatrix: a linear map, given by where it takes each bit.              *)
(***************************************************************************)
Apply(m, x) ==
    LET out[k \in 0 .. Width] ==
            IF k = 0 THEN {}
            ELSE IF k - 1 \in x THEN Xor(out[k - 1], m[k - 1]) ELSE out[k - 1]
    IN  out[Width]
Mul(m, n) == Tabulated([i \in 0 .. Width - 1 |-> Apply(m, n[i])])

Identity == Tabulated([i \in 0 .. Width - 1 |-> {i}])
AdvanceOne == Tabulated([i \in 0 .. Width - 1 |-> CrcStep({i}, {})])

\* Mutant of AdvanceBy: the base is not squared from turn to turn.
AdvanceByBits(n) ==
    LET turn[k \in 0 .. n] ==
            IF k = 0 THEN [out |-> Identity, base |-> AdvanceOne]
            ELSE [out |-> IF Bit(n, k - 1) = 1
                          THEN Mul(turn[k - 1].base, turn[k - 1].out)
                          ELSE turn[k - 1].out,
                  base |-> turn[k - 1].base]
    IN  turn[n].out

\* The register moved on by n zero bytes, by repeated squaring: turn k takes
\* bit k - 1 of n.  (Turns beyond the highest bit change nothing.)
AdvanceBy(n) ==
    LET turn[k \in 0 .. n] ==
            IF k = 0 THEN [out |-> Identity, base |-> AdvanceOne]
            ELSE [out |-> IF Bit(n, k - 1) = 1
                          THEN Mul(turn[k - 1].base, turn[k - 1].out)
                          ELSE turn[k - 1].out,
                  base |-> Mul(turn[k - 1].base, turn[k - 1].base)]
    IN  turn[n].out

-----------------------------------------------------------------------------
(***************************************************************************)
(* newRolling: what a byte that leaves a window of so many bytes has left  *)
(* in the register, and what the complements of Crc come to.               *)
(***************************************************************************)
WindowTable(width) ==
    LET an == AdvanceBy(width) IN Tabulated([b \in Bytes |-> Apply(an, CrcTable[b])])

MaskOf(width) == Xor(Apply(AdvanceBy(width), Ones), Ones)
==============================================================================
