---------------------------- MODULE MCUpdateDoc -----------------------------
(* Three overlapping calls on one document: which is which does not matter. *)
EXTENDS UpdateDoc, TLC

CONSTANTS c1, c2, c3

MCSymmetry == Permutations({c1, c2, c3})
=============================================================================
