------------------------------ MODULE MCHistory ------------------------------
(***************************************************************************)
(* Two documents, histories of two steps.                                  *)
(***************************************************************************)
EXTENDS History, TLC

CONSTANTS a, b

TwoDocs == {a, b}

Symmetry == Permutations(TwoDocs)
=============================================================================
