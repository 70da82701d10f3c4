----------------------------- MODULE MCAddNote -----------------------------
(* Instances of AddNote for TLC. *)
EXTENDS AddNote, TLC

\* documentIDOfFile, a faulty variant of documentID, chooses an account, so the
\* accounts are not permuted.
Symmetry == Permutations(Contents)

============================================================================
