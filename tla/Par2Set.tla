------------------------------- MODULE Par2Set -------------------------------
(***************************************************************************)
(* A PAR2 recovery set and where its slices are on disk                    *)
(* (src/par2/scan.go locate, src/par2/repair.go status).                   *)
(*                                                                         *)
(* Files are sequences of bytes.  A slice is looked for through a window   *)
(* of Size bytes, at any offset; checksums tell windows apart as their     *)
(* bytes do.  How the rolling checksum and the filter come to the same     *)
(* answer is the subject of SlidingScan.                                   *)
(***************************************************************************)
EXTENDS Integers, Sequences, FiniteSets

CONSTANTS
    Byte,       \* what a byte can be
    Zero,       \* the byte windows are padded with past the end of a file
    Absent,     \* what is at a path where there is no file
    Data,       \* Data[f] is the contents file f is recorded to have
    Size,       \* bytes of a slice
    Chunk,      \* bytes of a file that the sweep examines at a time
    NoScan      \* Options.NoScan: look at the natural offsets only

File == Seq(Byte) \cup {Absent}
Windows == [1 .. Size -> Byte]

ASSUME SetAssumption ==
    /\ Size \in Nat \ {0}
    /\ Chunk \in Nat /\ Chunk >= 4 * Size
    /\ Zero \in Byte
    /\ Data \in Seq(Seq(Byte))
    /\ Absent \notin Seq(Byte)
    /\ NoScan \in BOOLEAN

-----------------------------------------------------------------------------
\* What is read at an offset: beyond the end of the contents, zeros.
Window(c, offset) ==
    [k \in 1 .. Size |-> IF offset + k <= Len(c) THEN c[offset + k] ELSE Zero]

(***************************************************************************)
(* The files of the set in its order, and its slices: <<f, i>> is slice i  *)
(* of file f.  A location is a file and an offset in it.                   *)
(***************************************************************************)
Files == 1 .. Len(Data)
Slices ==
    UNION { {f} \X {i \in 1 .. Len(Data[f]) : (i - 1) * Size < Len(Data[f])} : f \in Files }
Offset(s) == (s[2] - 1) * Size
Home(s) == <<s[1], Offset(s)>>
DataOf(s) == Window(Data[s[1]], Offset(s))

\* By file of the set, then by position: the order of slices and of locations.
Precedes(s, t) == s[1] < t[1] \/ (s[1] = t[1] /\ s[2] < t[2])

Disk == [Files -> File]
Intact == [f \in Files |-> Data[f]]
Existing(d) == { f \in Files : d[f] # Absent }
Locations(d) == UNION { {f} \X (0 .. Len(d[f]) - 1) : f \in Existing(d) }
WindowAt(d, at) == Window(d[at[1]], at[2])

(***************************************************************************)
(* match: of the slices with equal checksums, a window is always taken for *)
(* the first in global order, whether or not that one was found already.   *)
(***************************************************************************)
MatchesAs(w, s) ==
    /\ DataOf(s) = w
    /\ \A t \in Slices : Precedes(t, s) => DataOf(t) # w

(***************************************************************************)
(* aligned: slice i is looked for at its own offset, in files that can be  *)
(* opened; those that cannot (unseen) count as absent.  What is read       *)
(* beyond the end of the file is zeros, and the first mismatch there ends  *)
(* the pass over the file.                                                 *)
(***************************************************************************)
Aligned(d, unseen, s) ==
    /\ s[1] \in Existing(d) \ unseen
    /\ WindowAt(d, Home(s)) = DataOf(s)
    /\ \A k \in 1 .. s[2] - 1 :
          k * Size > Len(d[s[1]]) => WindowAt(d, Home(<<s[1], k>>)) = DataOf(<<s[1], k>>)

\* Mutant of Complete: a file of the recorded size is not swept.
CompleteBySize(d, unseen, f) ==
    f \in Existing(d) \ unseen /\ Len(d[f]) = Len(Data[f])

Complete(d, unseen, f) ==
    /\ f \in Existing(d) \ unseen
    /\ Len(d[f]) = Len(Data[f])
    /\ \A s \in Slices : s[1] = f => Aligned(d, unseen, s)

(***************************************************************************)
(* scan and scanBuffer: the offsets the sliding window comes to rest at.   *)
(* It moves on by a byte, or past a slice it recognised, which may be past *)
(* the start of another; each chunk it starts anew.                        *)
(***************************************************************************)
Recognised(w) == \E s \in Slices : DataOf(s) = w

ChunkStart(c, o) == o % (Chunk - Size + 1) = 0 /\ (o = 0 \/ o + Size - 1 <= Len(c))

Visited(c) ==
    LET visit[o \in 0 .. Len(c) - 1] ==
          \/ ChunkStart(c, o)
          \/ visit[o - 1] /\ ~Recognised(Window(c, o - 1))
          \/ /\ o >= Size /\ visit[o - Size] /\ Recognised(Window(c, o - Size))
             /\ \A p \in o - Size + 1 .. o : ~ChunkStart(c, p)
    IN  { o \in 0 .. Len(c) - 1 : visit[o] }

(***************************************************************************)
(* The places slice s is recorded at, of the files that can be opened this *)
(* time.  Files that are complete are not swept, and an offset the aligned *)
(* pass accepted is stepped over without being compared again.             *)
(***************************************************************************)
Sites(d, unseen, unswept, s) ==
    { at \in Locations(d) :
        /\ at[1] \notin unswept
        /\ ~Complete(d, unseen, at[1])
        /\ MatchesAs(WindowAt(d, at), s)
        /\ ~\E t \in Slices : Home(t) = at /\ Aligned(d, unseen, t)
        /\ at[2] \in Visited(d[at[1]]) }

\* The sweep goes through the files in order and each from its start; the
\* first site of a slice is the one recorded.
FirstSite(S) == CHOOSE at \in S : \A other \in S : ~Precedes(other, at)

(***************************************************************************)
(* locate.  The sweep stops early once every slice is found, which changes *)
(* nothing, since the first site found is the one that stays recorded.     *)
(***************************************************************************)
Findable(d, unseen, unswept) ==
    { s \in Slices :
        \/ Aligned(d, unseen, s)
        \/ ~NoScan /\ Sites(d, unseen, unswept, s) # {} }

\* Mutant of Locate: what the sweep records is one position too early.
LocateOneEarly(d, unseen, unswept) ==
    [s \in Findable(d, unseen, unswept) |->
        IF Aligned(d, unseen, s) THEN Home(s)
        ELSE LET at == FirstSite(Sites(d, unseen, unswept, s)) IN <<at[1], at[2] - 1>>]

Locate(d, unseen, unswept) ==
    [s \in Findable(d, unseen, unswept) |->
        IF Aligned(d, unseen, s) THEN Home(s) ELSE FirstSite(Sites(d, unseen, unswept, s))]

Missing(loc) == Slices \ DOMAIN loc

(***************************************************************************)
(* status: a file is fine if it is there with the recorded size and every  *)
(* slice of it was found where it belongs.                                 *)
(***************************************************************************)
Damaged(loc, f) == { s \in Missing(loc) : s[1] = f }
Misplaced(loc, f) == { s \in DOMAIN loc : s[1] = f /\ loc[s] # Home(s) }

\* Mutant of FileOK: the recorded size is not compared.
FileOKAnySize(d, loc, f) ==
    d[f] # Absent /\ Damaged(loc, f) = {} /\ Misplaced(loc, f) = {}

FileOK(d, loc, f) ==
    /\ d[f] # Absent
    /\ Len(d[f]) = Len(Data[f])
    /\ Damaged(loc, f) = {}
    /\ Misplaced(loc, f) = {}
==============================================================================
