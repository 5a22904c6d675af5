CONSTANTS
  a = a  b = b  r = r  m1 = m1  m2 = m2  m3 = m3
  Client = {a, r}
  MsgId = {m1, m2}
  NoExpiry = NoExpiry
  NotWritten = NotWritten
  PageLimit = 2
  Contacts <- Pair
  Outgoing <- BothWays
  Broken = {}
  Foreign = {m2}
  Terminal = {r}
  Transports = {"relay", "paste"}
  MaxCrashes = 1
SPECIFICATION Spec
INVARIANTS TypeOK SentIsHeld RelayOrder LostOnlyByMishap
PROPERTIES ShownOnce HistoryGrows ChannelSpec
