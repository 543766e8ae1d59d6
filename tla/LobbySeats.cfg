\* Seats, hosts and refusals: two lobbies, no fleets.
SPECIFICATION Spec
CONSTANTS
  a1 = a1  a2 = a2  f1 = f1  f2 = f2
  Account = {a1, a2, a3, a4}
  LobbyId = {l1, l2}
  JoinCode = {c1, c2}
  Fleet = {}
  OwnerOf <- NoOwner
  FleetName = {n1}
  Points = {1}
  PlayerCaps = {2, 4}
  DefaultCap = 2
  Budgets = {1}
  DefaultBudget = 1
  Visibility = {"public"}
  SpectatorCap = 1
  Cooldown = 1
  SyncStore = TRUE
  ReadsMayFail = FALSE
  MaxClock = 1
  MaxLookups = 0
  None = None
SYMMETRY RegistrySymmetry
INVARIANT SeatsWithinCapacity
INVARIANT TypeOK
INVARIANT RegistryAgrees
PROPERTY HostSuccession
PROPERTY ImplementsSeating
CHECK_DEADLOCK FALSE
