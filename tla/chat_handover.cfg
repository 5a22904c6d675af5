CONSTANTS
  a = a  b = b  r = r  m1 = m1  m2 = m2  m3 = m3
  Client = {a, r}
  MsgId = {m1}
  NoExpiry = NoExpiry
  NotWritten = NotWritten
  PageLimit = 2
  Contacts <- Pair
  Outgoing <- OneWay
  Broken = {}
  Foreign = {}
  Terminal = {}
  Transports = {"relay"}
  MaxCrashes = 1
SPECIFICATION Spec
INVARIANTS AckedAfterHandover
