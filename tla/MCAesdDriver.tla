---------------------------- MODULE MCAesdDriver ----------------------------
(* Model-checking instances of the aesdchar driver. *)
EXTENDS AesdDriverProps

\* The files run the same code.  (Blocks are chosen by CHOOSE: no symmetry.)
FileSymmetry == Permutations(Files)

\* Offsets before, at and behind both ends of a short text.
SmallOffsets == {-1, 0, 2}
=============================================================================
