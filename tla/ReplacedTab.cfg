\* A second tab takes over in the middle of a match.
SPECIFICATION SpecClient
CONSTANTS
  Account = {a1}
  LobbyId = {l1}
  MatchId = {m1}
  SyncStore = TRUE
  MaxReplaced = 1
  MaxInbox = 2
  MaxOutbox = 1
  None = None

INVARIANT LandsOnMatch
