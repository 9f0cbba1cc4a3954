\* Two imports in flight: two exams, lists of up to two students.
CONSTANTS
  e1 = e1
  e2 = e2
  n1 = n1
  n2 = n2
  c1 = c1
  c2 = c2
  c3 = c3
  r1 = r1
  r2 = r2
  Exam = {e1, e2}
  Number = {n1, n2}
  Code = {c1, c2, c3}
  Req = {r1, r2}
  MaxImports = 3
SPECIFICATION Spec
SYMMETRY Symmetry
INVARIANTS
  TypeOK
  NumberOncePerExam
  LoneImportSucceeds
