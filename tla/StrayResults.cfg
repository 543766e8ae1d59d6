\* A match ends after one of its players has moved on to another lobby.
SPECIFICATION SpecClient
CONSTANTS
  Account = {a1}
  LobbyId = {l1}
  MatchId = {m1}
  SyncStore = TRUE
  MaxReplaced = 1
  MaxInbox = 2
  MaxOutbox = 1
  None = None

PROPERTY ResultsStayAway
