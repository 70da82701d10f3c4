---------------------------- MODULE MCFirestore ----------------------------
(* Symmetry of the model values of the instances of Firestore. *)
EXTENDS Firestore, TLC

Symmetry == Permutations(Users) \cup Permutations(Details)

=============================================================================
