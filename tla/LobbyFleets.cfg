\* Selections, budgets and readiness under the SQLite engine.
SPECIFICATION Spec
CONSTANTS
  a1 = a1  a2 = a2  f1 = f1  f2 = f2
  Account = {a1, a2}
  LobbyId = {l1}
  JoinCode = {c1}
  Fleet = {f1, f2}
  OwnerOf <- MCOwnerOf
  FleetName = {n1}
  Points = {1, 2}
  PlayerCaps = {2}
  DefaultCap = 2
  Budgets = {1, 2}
  DefaultBudget = 2
  Visibility = {"public"}
  SpectatorCap = 1
  Cooldown = 0
  SyncStore = TRUE
  ReadsMayFail = FALSE
  MaxClock = 0
  MaxLookups = 2
  None = None
INVARIANT ReadyIsHonest
INVARIANT SelectionIsCurrent
INVARIANT StartedWithinBudget
PROPERTY ReadyForTheSameFleet
PROPERTY UnaffordableIsDropped
