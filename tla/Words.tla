-------------------------------- MODULE Words --------------------------------
(***************************************************************************)
(* Machine words of Width bits, each the set of the places where it has a  *)
(* one, and the addition of a field of characteristic two: what both the   *)
(* checksums and the parity are made of.                                   *)
(***************************************************************************)
EXTENDS Naturals

CONSTANT Width  \* bits of a word

ASSUME WidthAssumption == Width \in Nat \ {0}

Words == SUBSET (0 .. Width - 1)

\* Exclusive or.
Xor(a, b) == (a \ b) \cup (b \ a)

\* The bits of a number, and the word that holds it.
Bit(n, k) == (n \div 2^k) % 2
AsWord(n) == { k \in 0 .. Width - 1 : Bit(n, k) = 1 }

\* Shifted to the left without losing a bit, and to the right by so many places.
ShiftedLeft(w) == { k + 1 : k \in w }
ShiftedRight(w, places) == { k - places : k \in { j \in w : j >= places } }

\* A function as it is.  TLC computes its values for the comparison, and keeps them.
Tabulated(f) == CHOOSE g \in {f} : g = f
==============================================================================
