\* Two requests in flight: does the code stay as handed in?
CONSTANTS
  s1 = s1
  r1 = r1
  r2 = r2
  Student = {s1}
  Req = {r1, r2}
  None = None
  MaxRequests = 7
  MaxAlone = 7
SPECIFICATION Spec
PROPERTY
  FrozenAfterHandIn
