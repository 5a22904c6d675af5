CONSTANTS
  a = a  b = b  p = p  q = q
  None = None
  Profile = {a, b}
  Peer = {p, q}
  QueueSize = 1
  PageSize = 1
  Earlier = 2
  MaxCommands = 4
  MaxEntries = 3
SPECIFICATION Spec
SYMMETRY Symmetry
INVARIANTS TypeOK LoadingIsOutstanding WorksInShownProfile ShownIsConversation
