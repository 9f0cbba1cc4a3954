\* Three requests in flight.
CONSTANTS
  r1 = r1
  r2 = r2
  r3 = r3
  Req = {r1, r2, r3}
  None = None
  Time <- Times
  Minute = 2
  MaxRequests = 4
SPECIFICATION Spec
SYMMETRY Symmetry
INVARIANTS
  TypeOK
  ActualTimesInOrder
PROPERTIES
  ImplementsPlan
  DashboardNeverGoesBack
