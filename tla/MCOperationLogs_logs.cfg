\* Two requests in flight, two students; a tick of the clock is one window.
CONSTANTS
  s1 = s1
  s2 = s2
  r1 = r1
  r2 = r2
  Student = {s1, s2}
  Req = {r1, r2}
  None = None
  Window = 1
  PageSize = 1
  MaxTime = 1
  MaxRequests = 3
SYMMETRY Symmetry
SPECIFICATION Spec
INVARIANTS
  TypeOK
  BlockedOncePerWindow
  ReportedOncePerWindow
  UnwatchedHandInOnRecord
PROPERTIES
  PagesMissNothing
  BoardAddsUp
