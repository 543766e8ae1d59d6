\* A player leaves a match for the second time, after having rejoined it.
SPECIFICATION SpecClient
CONSTANTS
  Account = {a1}
  LobbyId = {l1}
  MatchId = {m1}
  SyncStore = TRUE
  MaxReplaced = 1
  MaxInbox = 2
  MaxOutbox = 1
  None = None

PROPERTY LeaveVacates
