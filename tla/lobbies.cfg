CONSTANTS
  NoFile = NoFile
  Unknown = Unknown
  Peers = 3
  FileOf <- LastTwoShare
  MaxEntries = 2
SPECIFICATION Spec
INVARIANTS TypeOK Parallel OwnConversation
PROPERTIES HistoryKept
