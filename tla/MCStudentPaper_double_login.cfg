\* Two requests in flight: can one login code let two clients in?
CONSTANTS
  s1 = s1
  r1 = r1
  r2 = r2
  Student = {s1}
  Req = {r1, r2}
  None = None
  MaxRequests = 4
  MaxAlone = 4
SPECIFICATION Spec
INVARIANT
  OneLoginPerCode
