\* One request at a time, one student: does a paper taken in by force stay closed?
CONSTANTS
  s1 = s1
  r1 = r1
  Student = {s1}
  Req = {r1}
  None = None
  MaxRequests = 4
  MaxAlone = 4
SPECIFICATION Spec
PROPERTY
  ForcedStaysClosed
