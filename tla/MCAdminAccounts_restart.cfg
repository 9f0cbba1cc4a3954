\* One request at a time: does every start succeed?
CONSTANTS
  root = root
  a = a
  b = b
  Admin = {root, a, b}
  Root = root
  r1 = r1
  Req = {r1}
  None = None
  MaxRequests = 2
SPECIFICATION Spec
INVARIANT
  StartSkipsExisting
