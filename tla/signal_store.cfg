CONSTANTS
  bob = bob  carol = carol  m1 = m1  m2 = m2  m3 = m3
  None = None
  Peer = {bob, carol}
  Msg = {m1, m2}
  LowWatermark = 1
  Target = 2
  MaxEvents = 2
  MaxGiven = 2
SPECIFICATION Spec
SYMMETRY Symmetry
INVARIANTS TypeOK FreshCiphertext OpenedOnce BundleKept StaleWasRead RecoveryKept
PROPERTIES OnlyVerified StaysReadable
