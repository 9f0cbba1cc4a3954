\* Two requests in flight: three accounts, stops and starts.
CONSTANTS
  root = root
  a = a
  b = b
  Admin = {root, a, b}
  Root = root
  r1 = r1
  r2 = r2
  Req = {r1, r2}
  None = None
  MaxRequests = 4
SPECIFICATION Spec
SYMMETRY Symmetry
INVARIANTS
  TypeOK
  AlwaysASuper
  FailsOnlyOnSecondSuper
PROPERTY
  BackOnlyOnRequest
