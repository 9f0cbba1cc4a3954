\* Two requests in flight, two students, fair handlers.
CONSTANTS
  s1 = s1
  s2 = s2
  r1 = r1
  r2 = r2
  Student = {s1, s2}
  Req = {r1, r2}
  None = None
  MaxRequests = 6
  MaxAlone = 8
SPECIFICATION FairSpec
INVARIANTS
  TypeOK
  SubmitsBoundedByLogins
  NobodyLockedOut
  ForcedOnlineIsTold
PROPERTIES
  NoSaveAfterEnd
  SavedOnlyIfMonitored
  ImplementsContract
  EveryCallEnds
