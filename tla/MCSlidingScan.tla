--------------------------- MODULE MCSlidingScan ---------------------------
(***************************************************************************)
(* Slices of two bytes; the last one is a byte and its padding.  Files of  *)
(* up to nine bytes, which is one more than a chunk holds, so that windows *)
(* straddle its end and begin in the next one.                             *)
(***************************************************************************)
EXTENDS SlidingScan

SeqsUpTo(S, n) == UNION { [1 .. k -> S] : k \in 0 .. n }

\* Recorded as 1 2 2 1 2: no slice overlaps itself, yet the tail, followed by
\* its padding, overlaps the end of the first.
zero == {}
one == {0}
two == {1}
MCSlices == << <<one, two>>, <<two, one>>, <<two, zero>> >>
MCContents == SeqsUpTo({zero, one, two}, 9)
MCPoly == {1, 2}
=============================================================================
