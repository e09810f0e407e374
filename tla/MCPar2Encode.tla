---------------------------- MODULE MCPar2Encode ----------------------------
(***************************************************************************)
(* Three files, of three slices, of none and of one, each of which may     *)
(* have shrunk or grown since it was identified; batches of two slices, so *)
(* that the first file takes two; three recovery slices, made twice.  In   *)
(* GF(16) the constants of the four slices are 2, 4, 3 and 11, and with    *)
(* exponents 0 and 5 those of the first and the last are the same.         *)
(***************************************************************************)
EXTENDS Par2RoundTrip

MCTotals == <<3, 0, 1>>
MCLengths == <<{0, 1, 2, 3, 4}, {0, 1}, {0, 1}>>
MCWord == [s \in (1 .. 3) \X (1 .. 3) |-> AsWord(5 * s[1] + 3 * s[2] - 7)]
MCPoly == {0, 1, 4}
=============================================================================
