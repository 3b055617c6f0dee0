--------------------------- MODULE MCAccountLink ---------------------------
(***************************************************************************)
(* AccountLink for TLC: the subjects are interchangeable.                    *)
(***************************************************************************)
EXTENDS AccountLink, TLC

SubjectSymmetry == Permutations(Subjects)
=============================================================================
