\* Sockets, lobbies and matches, with clients that may send anything at any time.
SPECIFICATION Spec
CONSTANTS
  Account = {a1, a2}
  LobbyId = {l1}
  MatchId = {m1, m2}
  SyncStore = TRUE
  MaxReplaced = 1
  None = None
INVARIANT OneRunningMatch
