\* Two connections of one student, fair coroutines.
CONSTANTS
  s1 = s1
  t1 = t1
  t2 = t2
  c1 = c1
  c2 = c2
  Student = {s1}
  Token = {t1, t2}
  Conn = {c1, c2}
  None = None
  MaxOpens = 2
SPECIFICATION FairSpec
INVARIANTS
  TypeOK
  RegistryCoherent
  ActiveBacked
  LoneSocketIsKnown
  WindowsHaveSockets
PROPERTY
  VanishedIsUnregistered
