----------------------------- MODULE SlidingScan -----------------------------
(***************************************************************************)
(* How slices are found in the bytes of a file (src/par2/scan.go): first   *)
(* at the offsets they belong at (aligned), then, unless the file is as    *)
(* recorded, with a window of one slice that is slid over it (scan and     *)
(* scanBuffer), chunk by chunk.  The checksum of the window is rolled on   *)
(* from byte to byte (RollingCrc), passes a filter, and selects the slices *)
(* the window is compared with; an MD5 stands for the bytes themselves.    *)
(*                                                                         *)
(* One file of the set is searched.  Slices is all of its slices, the last *)
(* one with the padding that completes it.                                 *)
(***************************************************************************)
EXTENDS RollingCrc, FiniteSetsExt

CONSTANTS
    Size,       \* bytes of a slice
    Chunk,      \* bytes examined at a time
    FilterBits, \* bits of a checksum that the filter looks at
    Slices,     \* the contents of slice 1, 2, ...
    Recorded,   \* FileDesc.Size: bytes of the file when the set was made
    Contents    \* what the file may hold now

SliceContents == { Slices[s] : s \in DOMAIN Slices }

ASSUME ScanAssumption ==
    /\ Size \in Nat \ {0}
    /\ Chunk \in Nat /\ Chunk >= 4 * Size
    /\ FilterBits \in 0 .. Width
    /\ Slices \in Seq(Seq(Bytes)) /\ \A s \in DOMAIN Slices : Len(Slices[s]) = Size
    /\ Recorded \in Nat
    /\ \A c \in Contents : c \in Seq(Bytes)

VARIABLES
    content,    \* the bytes of the file
    pc,         \* "aligned", "read", "walk", "done"
    slice,      \* the slice the aligned pass is at
    complete,   \* nothing has differed so far
    found,      \* slice -> offset, for the slices found
    known,      \* offsets the aligned pass accepted
    base,       \* offset of the chunk
    got,        \* bytes of the file in the chunk
    at,         \* window position in the chunk ("i")
    raw         \* the CRC register of the window, as if started from zero

vars == <<content, pc, slice, complete, found, known, base, got, at, raw>>
scanVars == <<base, got, at, raw>>

\* The byte at an offset, zero past the end.
Byte(off) == IF off < Len(content) THEN content[off + 1] ELSE {}
Window(off) == [k \in 1 .. Size |-> Byte(off + k - 1)]

-----------------------------------------------------------------------------
(***************************************************************************)
(* newLocator: the checksums of the slices, what the rolling needs for     *)
(* windows of one slice, and the filter.                                   *)
(***************************************************************************)
SliceCrc == Tabulated([s \in DOMAIN Slices |-> Crc(Slices[s])])
Mask == MaskOf(Size)
Outgoing == WindowTable(Size)
Filtered(crc) == crc \cap (0 .. FilterBits - 1)
Filter == { Filtered(SliceCrc[s]) : s \in DOMAIN Slices }

\* The register of a window whose checksum is computed from its bytes.
RawOf(off) == Xor(Crc(Window(off)), Mask)

\* The checksum of the current window, and whether it is worth a closer look.
WindowCrc == Xor(raw, Mask)
Plausible == Filtered(WindowCrc) \in Filter

\* match: the first of the slices with that CRC whose content is the window's.
Candidates == { s \in DOMAIN Slices :
                  SliceCrc[s] = WindowCrc /\ Slices[s] = Window(base + at) }
Matches == Candidates # {}
Match == Min(Candidates)

Found(s, off) == [t \in DOMAIN found \cup {s} |-> IF t = s THEN off ELSE found[t]]

Init ==
    /\ content \in Contents
    /\ pc = "aligned" /\ slice = 1 /\ complete = TRUE
    /\ found = [s \in {} |-> 0] /\ known = {}
    /\ base = 0 /\ got = 0 /\ at = 0 /\ raw = {}

-----------------------------------------------------------------------------
Offset(s) == (s - 1) * Size

\* aligned, one slice.  The pass goes on past the end of the file while zeros
\* are what it looks for.
AlignedHit ==
    /\ pc = "aligned" /\ slice <= Len(Slices)
    /\ Window(Offset(slice)) = Slices[slice]
    /\ found' = Found(slice, Offset(slice))
    /\ known' = known \cup {Offset(slice)}
    /\ slice' = slice + 1
    /\ UNCHANGED <<content, pc, complete, scanVars>>

AlignedMiss ==
    /\ pc = "aligned" /\ slice <= Len(Slices)
    /\ Window(Offset(slice)) # Slices[slice]
    /\ complete' = FALSE
    /\ slice' = IF Len(content) < Offset(slice) + Size THEN Len(Slices) + 1 ELSE slice + 1
    /\ UNCHANGED <<content, pc, found, known, scanVars>>

\* locate: a complete file of the recorded size has nothing left to find, and
\* with everything found there is no need to look.
AlignedEnd ==
    /\ pc = "aligned" /\ slice > Len(Slices)
    /\ pc' = IF (complete /\ Len(content) = Recorded) \/ DOMAIN found = DOMAIN Slices
             THEN "done" ELSE "read"
    /\ UNCHANGED <<content, slice, complete, found, known, scanVars>>

-----------------------------------------------------------------------------
(***************************************************************************)
(* scan: read a chunk.  In the last one, which is not full, the window may *)
(* run over the end of the file into zeros.                                *)
(***************************************************************************)
ReadChunk ==
    /\ pc = "read"
    /\ got' = IF base + Chunk <= Len(content) THEN Chunk
              ELSE IF base <= Len(content) THEN Len(content) - base ELSE 0
    /\ at' = 0
    /\ raw' = RawOf(base)
    /\ pc' = IF got' = 0 THEN "done" ELSE "walk"
    /\ UNCHANGED <<content, slice, complete, found, known, base>>

LastChunk == got < Chunk

LastAt == IF LastChunk THEN got - 1 ELSE got - Size

\* Mutant of NextBase: chunks do not overlap.
NextBaseApart == base + got

NextBase == base + (got - Size + 1)

(***************************************************************************)
(* scanBuffer, one window position: the window moves on to position i,     *)
(* where its register becomes r, or the chunk is finished.                 *)
(***************************************************************************)
MoveTo(i, r) ==
    IF i <= LastAt
    THEN at' = i /\ raw' = r /\ UNCHANGED <<pc, base>>
    ELSE /\ pc' = IF LastChunk THEN "done" ELSE "read"
         /\ base' = IF LastChunk THEN base ELSE NextBase
         /\ UNCHANGED <<at, raw>>

\* Past a slice the checksum is computed afresh.
Skip == MoveTo(at + Size, RawOf(base + at + Size))

StepOverKnown ==
    /\ pc = "walk" /\ Plausible /\ base + at \in known
    /\ Skip
    /\ UNCHANGED <<content, slice, complete, found, known, got>>

\* Mutant of Recognise: the offset within the chunk is recorded.
RecogniseInChunk ==
    /\ pc = "walk" /\ Plausible /\ base + at \notin known /\ Matches
    /\ found' = IF Match \in DOMAIN found THEN found ELSE Found(Match, at)
    /\ Skip
    /\ UNCHANGED <<content, slice, complete, known, got>>

Recognise ==
    /\ pc = "walk" /\ Plausible /\ base + at \notin known /\ Matches
    /\ found' = IF Match \in DOMAIN found THEN found ELSE Found(Match, base + at)
    /\ Skip
    /\ UNCHANGED <<content, slice, complete, known, got>>

Unrecognised == Plausible => base + at \notin known /\ ~Matches

\* One byte on: one comes in at the right, one leaves at the left.
Rolled == Xor(CrcStep(raw, Byte(base + at + Size)), Outgoing[Byte(base + at)])

\* Mutant of Roll: at the end of a chunk the window starts over.
RollAround ==
    /\ pc = "walk" /\ Unrecognised
    /\ at' = IF at = LastAt THEN 0 ELSE at + 1
    /\ raw' = RawOf(base + at')
    /\ UNCHANGED <<content, pc, slice, complete, found, known, base, got>>

Roll ==
    /\ pc = "walk" /\ Unrecognised
    /\ MoveTo(at + 1, Rolled)
    /\ UNCHANGED <<content, slice, complete, found, known, got>>

-----------------------------------------------------------------------------
Step == AlignedHit \/ AlignedMiss \/ AlignedEnd \/ ReadChunk
            \/ StepOverKnown \/ Recognise \/ Roll
Finished == pc = "done" /\ UNCHANGED vars

Next == Step \/ Finished
Spec == Init /\ [][Next]_vars /\ WF_vars(Step)

-----------------------------------------------------------------------------
\* What is found is there, and a slice stays where it was found first.
\* (scan.go:76-78: the wrong slice is never recognised)
FoundIsThere == \A s \in DOMAIN found : Window(found[s]) = Slices[s]

\* Positions at which a window that overlaps the file equals some slice.
Hits == { off \in 0 .. (IF Len(content) = 0 THEN 0 ELSE Len(content) - 1) :
            Len(content) > 0 /\ Window(off) \in SliceContents }

\* An occurrence that no other one overlaps is never missed, wherever the
\* borders of the chunks fall and also if it runs into the padding at the
\* end: its slice is found, or an equal one is. (scan.go:21-24, :146-171)
IsolatedHitFound ==
    pc = "done" =>
        \A off \in Hits :
            (\A q \in Hits : q # off => q + Size <= off \/ off + Size <= q)
                => \E s \in DOMAIN found : Slices[s] = Window(off)

\* The checksum that is rolled on from byte to byte is that of the window's
\* bytes, through every jump and across chunks: a filter or a candidate list
\* looked up with any other value would hide slices that are there.
\* (rolling.go:13-24, scan.go:189-230)
RollingIsExact == pc = "walk" => WindowCrc = Crc(Window(base + at))

\* The search of a file ends.
Terminates == <>(pc = "done")
==============================================================================
