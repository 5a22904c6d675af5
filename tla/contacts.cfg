CONSTANTS
  a = a  b = b  c = c  alice = alice  bob = bob  r1 = r1  r2 = r2
  Client = {a, b, c}
  Name = {alice, bob}
  NameOf <- Names
  FileName = {alice, bob}
  FileOf <- Files
  Nobody = Nobody
  Request = {r1, r2}
  NotMade = NotMade
  Asks <- BothWays
  MaxTorn = 1
  Revoking = {a}
  Expiring = {r2}
  Pastes <- SameName
SPECIFICATION Spec
INVARIANTS TypeOK LobbyIsMutual AcceptedHasLobby RightMailbox
