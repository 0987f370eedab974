---------------------------- MODULE MCSemBuffer ----------------------------
(***************************************************************************)
(* SemBuffer for TLC.  The readers, which take no signals because they     *)
(* never sleep, are interchangeable.                                       *)
(***************************************************************************)
EXTENDS SemBuffer, TLC

Symmetry == Permutations(Readers)

=============================================================================
