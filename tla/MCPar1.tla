------------------------------- MODULE MCPar1 -------------------------------
(***************************************************************************)
(* Three files over GF(8); sets of no, one, two and five volumes, and one  *)
(* that is too many; volumes are looked for up to the fourth.  A set that  *)
(* another client made leaves the first file out of its volumes.           *)
(***************************************************************************)
EXTENDS Par1

MCRequests == { [given |-> TRUE, n |-> n] : n \in {0, 2, 5, 6} } \cup { [given |-> FALSE, n |-> 5] }
MCContents == { << >>, <<{0}>>, <<{1}>> }
MCOriginals == { << <<{0}>>, <<{1}>>, << >> >>, << << >>, << >>, << >> >> }
MCForeign == [members |-> {2, 3}, files |-> << <<{0}>>, <<{1}>>, << >> >>, count |-> 2]
MCPoly == {0, 1, 3}
=============================================================================
