-------------------------- MODULE MCExamLifecycle ---------------------------
(* Small instances of ExamLifecycle. *)
EXTENDS ExamLifecycle, TLC

Times == 1..3
Symmetry == Permutations(Req)
=============================================================================
