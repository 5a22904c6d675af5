CONSTANTS
  a = a  r = r  x = x  m1 = m1  m2 = m2
  Client = {a, r}
  Address = {x}
  Traffic <- ToAddress
  MsgId = {m1, m2}
  NoExpiry = NoExpiry
  NoDevice = NoDevice
  PageLimit = 1
  MaxChanges = 2
  MaxClock = 1
  MaxId = 2
  MaxCalls = 2
SPECIFICATION Spec
INVARIANTS TypeOK OneRowPerSubmission AckedWasRetrieved CursorMissesNothing
PROPERTIES NoSilentDeletion
