-------------------------- MODULE MCOperationLogs ---------------------------
(* Small instances of OperationLogs. *)
EXTENDS OperationLogs, TLC

\* No action names a particular slot or student, so both may be permuted.
Symmetry == Permutations(Student) \cup Permutations(Req)
=============================================================================
