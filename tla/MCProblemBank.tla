--------------------------- MODULE MCProblemBank ----------------------------
EXTENDS ProblemBank, TLC

Symmetry == Permutations(Problem) \cup Permutations(Student) \cup Permutations(Req)
=============================================================================
