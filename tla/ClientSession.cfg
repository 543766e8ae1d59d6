\* Two players, their pages and the messages between; one lobby, one match at a time.
SPECIFICATION SpecClient
CONSTANTS
  Account = {a1, a2}
  LobbyId = {l1}
  MatchId = {m1}
  SyncStore = TRUE
  MaxReplaced = 1
  MaxInbox = 2
  MaxOutbox = 1
  None = None

INVARIANT OpenSocketIsRegistered
INVARIANT PageShowsTheSeat
INVARIANT WayBack

SYMMETRY ClientSymmetry
