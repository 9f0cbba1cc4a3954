\* Two requests in flight and three in all, on one problem that may be there from the
\* start, with one student.  The two choice types are the ones validate_choice_problem
\* checks.
CONSTANTS
  p1 = p1
  s1 = s1
  r1 = r1
  r2 = r2
  Problem = {p1}
  Student = {s1}
  Req = {r1, r2}
  None = None
  Unset = Unset
  Type = {"single_choice", "multiple_choice"}
  MaxRequests = 3
SPECIFICATION Spec
SYMMETRY Symmetry
INVARIANTS
  TypeOK
  NewProblemIsHeard
PROPERTIES
  OnlyStaleReadsBreak
  HandedInIsComplete
