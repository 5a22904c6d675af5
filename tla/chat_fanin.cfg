CONSTANTS
  a = a  b = b  r = r  m1 = m1  m2 = m2  m3 = m3
  Client = {a, b, r}
  MsgId = {m1, m2, m3}
  NoExpiry = NoExpiry
  NotWritten = NotWritten
  PageLimit = 2
  Contacts <- FanIn
  Outgoing <- ToRecipient
  Broken = {m3}
  Foreign = {}
  Terminal <- Everyone
  Transports = {"relay"}
  MaxCrashes = 0
SPECIFICATION Spec
SYMMETRY FanUnbroken
INVARIANTS CursorSkipsNothing
