---------------------------- MODULE MCPar2Repair ----------------------------
(***************************************************************************)
(* Slices of two bytes.  One file ends in half a slice of a zero, the      *)
(* other in a slice that the first one has too.  On disk is anything of at *)
(* most three bytes, and what an edit makes of a recorded file: a byte     *)
(* inserted, removed or changed, or the end cut off.  Each file can hold   *)
(* the other one's slices at any offset, be cut short before its zeros, or *)
(* have one slice hide another that overlaps it.                           *)
(***************************************************************************)
EXTENDS Par2Repair, SequencesExt

MCData == << <<0, 1, 0>>, <<1, 1, 0, 1>> >>

FilesUpTo(n) == UNION { [1 .. k -> Byte] : k \in 0 .. n } \cup {Absent}
Edited(c) ==
    { InsertAt(c, p, x) : p \in 1 .. Len(c), x \in Byte } \cup { RemoveAt(c, p) : p \in 1 .. Len(c) }
      \cup { [c EXCEPT ![p] = x] : p \in 1 .. Len(c), x \in Byte }
      \cup { SubSeq(c, 1, n) : n \in 0 .. Len(c) }
AllDisks ==
    { <<f, g>> : f \in FilesUpTo(3) \cup {Append(Data[1], 0)},
                 g \in UNION { Edited(Data[h]) : h \in Files } \cup {Absent} }

\* The matrix for slice 1 of the first file alone cannot be inverted.
OneSingular == { <<{0}, {<<1, 1>>}>> }
NoneSingular == {}

\* A file that ends in half a slice of a zero, cut short anywhere.
PaddedData == << <<1, 1, 0>>, <<0, 1>> >>
PaddedDisks == { <<SubSeq(Data[1], 1, n), Data[2]>> : n \in 0 .. 3 }

\* Two files of which the second can hold the first or be lost in it, and the
\* disks that a set with these recovery slices can repair.
SwapData == << <<0, 1>>, <<1, 0, 1, 1>> >>
RepairableDisks ==
    { d \in [Files -> FilesUpTo(4)] :
        Cardinality(Missing(Locate(d, {}, {}))) <= Cardinality(Exps) }
=============================================================================
