SPECIFICATION Spec
CONSTANTS
  b1 = b1  b2 = b2  t1 = t1  t2 = t2  p1 = p1  p2 = p2
  None = None
  Boat = {b1, b2}
  Team = {t1, t2}
  Player = {p1, p2}
  TeamOf <- OneASide
  TeamPlayed <- PlayerTeams
  TubeLoad = {"fish", "decoy"}
  Warhead = {"fish"}
  Decoy = {"decoy"}
  Noisemaker = "noisemaker"
  TubeCount <- TwoTubesAndOne
  Fits <- AnyLoad
  TickSpan = 2
  UNLOAD_SECONDS = 3
  ReloadSeconds <- Reloads
  DropReloadSeconds <- Reloads
  MaxHp <- Hulls
  MaxBurst = 2
  MaxRam = 1
  LIFETIME = 4
  SETTLE = 1
  RING = 2
  FUZE_ARM = 1
  FUZE_SELF_SAFE = 2
  Place = {0, 4, 9, 14}
  Spot = {0, 4, 9, 14}
  Deep = {4, 14}
  OBJECTIVE_COUNT = 2
  CAPTURE_TICKS = 3
  ARMING_TICKS = 1
  MAX_DEEP_OBJECTIVES = 1
  Cost <- Prices
  ScoreTarget = 2
  Share = 12
  TICKS_PER_SOLVE = 2
  TICKS_PER_PING = 2
  PING_ALERT_TICKS = 2
  maxChartCellsPerFrame = 2
  Scenes <- Sides
CHECK_DEADLOCK FALSE
INVARIANTS
  MatchTypeOK NoRunIsEndless ProgressIsEarned BoardIsLegal BooksAgree ScopeIsHonest
  PageHasTheChart OutcomeIsTold
PROPERTIES
  ImplementsLoading VerdictIsJust MatchIsReported
