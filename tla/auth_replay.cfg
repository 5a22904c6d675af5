CONSTANTS
  a = a  b = b  n1 = n1  n2 = n2
  Client = {a, b}
  Nonce = {n1}
  Window = 2
  NonceTtl = 4
  Skew = 1
  MaxWait = 1
  MaxClock = 7
SPECIFICATION Spec
INVARIANTS AcceptedOnce
CHECK_DEADLOCK FALSE
