\* Sockets, lobbies and matches, with clients that may send anything at any time.
SPECIFICATION Spec
CONSTANTS
  Account = {a1, a2}
  LobbyId = {l1, l2}
  MatchId = {m1, m2}
  SyncStore = TRUE
  MaxReplaced = 1
  None = None
INVARIANT TypeOK
INVARIANT NoGhosts
INVARIANT SeatIsReal
INVARIANT SeatedConnectedIsOnline
PROPERTY DesertedIsAbandoned
PROPERTY ImplementsSeating
