---------------------------- MODULE MCNumbering ----------------------------
(* Symmetry for the runs of Numbering; the calls of one kind are alike.    *)
EXTENDS Numbering, TLC

CallSymmetry == Permutations(Calls \ Detached) \cup Permutations(Detached)
=============================================================================
