--------------------------- MODULE MCStudentPaper ---------------------------
(* Small instances of StudentPaper. *)
EXTENDS StudentPaper, TLC

\* No action names a particular slot or student, so both may be permuted in the
\* runs that check no liveness.
Symmetry == Permutations(Student) \cup Permutations(Req)
=============================================================================
