----------------------------- MODULE MCChardr -----------------------------
(***************************************************************************)
(* Chardr for TLC.  The readers, which all take signals where there are    *)
(* two of them, are interchangeable.                                       *)
(***************************************************************************)
EXTENDS Chardr, TLC

Symmetry == Permutations(Readers)

===========================================================================
