-------------------------- MODULE MCAdminAccounts ---------------------------
(* Small instances of AdminAccounts. *)
EXTENDS AdminAccounts, TLC

\* All names but the configured one are alike.
Symmetry == Permutations(Admin \ {Root}) \cup Permutations(Req)
=============================================================================
