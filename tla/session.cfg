SPECIFICATION SessionSpec
CONSTANTS
  Clients = {1, 2}
  Files = {"f", "e", "t"}
  FileText <- MCFileText
  Conversations <- MCConversations
  Unended <- MCUnended
  CAP = 2
  Word <- MCWord
INVARIANTS
  OnlyGranted
  RepliesHold
PROPERTIES
  ScriptEnds
