---------------------------- MODULE MCQuickNote ----------------------------
(* Instances of QuickNote for TLC. *)
EXTENDS QuickNote, TLC

Symmetry == Permutations(Users)

\* signedBy is history that no guard reads, nor any property checked here: states
\* that differ in it only need not be told apart.
Seen == <<authUser, accounts, profiles, calls, writes, closures, routes, root,
          revoked, noteVars, opened>>

=============================================================================
