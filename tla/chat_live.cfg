CONSTANTS
  a = a  b = b  r = r  m1 = m1  m2 = m2  m3 = m3
  Client = {a, b, r}
  MsgId = {m1, m2}
  NoExpiry = NoExpiry
  NotWritten = NotWritten
  PageLimit = 1
  Contacts <- FanIn
  Outgoing <- ToRecipientOnce
  Broken = {m2}
  Foreign = {}
  Terminal <- Everyone
  Transports = {"relay"}
  MaxCrashes = 0
SPECIFICATION FairSpec
PROPERTIES OutboxDrains HeldIsHandled ReadComesBack
