CONSTANTS
  a = a  b = b  x = x  n1 = n1  n2 = n2  n3 = n3  t1 = t1  t2 = t2  t3 = t3
  Client = {a}
  Address = {x}
  AddressOf <- SameAddress
  NoDevice = NoDevice
  Nonce = {n1, n2}
  NoNonce = NoNonce
  Token = {t1, t2}
  NoToken = NoToken
  Revocable = {a}
SPECIFICATION RestartSpec
INVARIANTS TokenWorks
PROPERTIES AccessSpec EventuallyEnrolled
