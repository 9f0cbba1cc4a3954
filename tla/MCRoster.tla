------------------------------ MODULE MCRoster -----------------------------
EXTENDS Roster, TLC

Symmetry == Permutations(Exam) \cup Permutations(Number) \cup Permutations(Code)
            \cup Permutations(Req)
=============================================================================
