SPECIFICATION SpecServices
CONSTANTS
  h1 = h1  tube = tube  pump = pump  screw = screw  old = old  f1 = f1  f2 = f2
  Hull = {h1}
  Module = {tube, pump, screw, old}
  Slots <- HullSlots
  Known <- TwoReleases
  SlotOf <- Kinds
  ModulePrice <- Prices
  HullPrice <- HullPoints
  HullStat <- HullPoints
  Modifiers <- Effects
  Empty = Empty
  FleetIds = {f1, f2}
  FLEET_MAX_BOATS = 2
  MAX_FLEETS_PER_ACCOUNT = 1
  Wires = 2
  Desks <- TwoDesks
  c1 = c1  c2 = c2  n1 = n1  n2 = n2
  Browser = {c1, c2}
  Name = {n1, n2}
  Nobody = Nobody
  REMEMBER_TTL_MS = 5
  SESSION_TTL_MS = 4
  SLIDING_REFRESH_INTERVAL_MS = 2
  TOUCH_INTERVAL_MS = 1
  Stays <- ThreeStays
  MaxSessions = 2
  a1 = a1  a2 = a2  sp = sp  tA = tA  tB = tB
  Observing = Observing
  Talker = {a1, a2, sp}
  SideOf <- Sides
  CHAT_BURST = 2
  CHAT_WINDOW_MS = 2
  CHAT_BACKLOG = 2
  CHAT_HISTORY_LIMIT = 2
  MaxLines = 3
  Evenings <- ThreeEvenings
  b1 = b1  b2 = b2  b3 = b3
  Berth <- ThreeBoats
  LineWidth = 16
  Rock = {16}
  HalfLength = 2
  NotchSpeed <- TwoNotches
  ACCELERATION = 1
  GRAZE_SPEED = 2
  Hitpoints = 5
  Places = {3, 7, 14}
  MaxCommands = 3
  MaxStrikes = 1
  light = light  heavy = heavy
  Hulls <- TwoHulls
  Rosters <- Fleets
  RockMaps <- Caves
  MapWidth = 20
  MapHeight = 12
  BandWidth = 6
  BERTH_STEP = 1
  TEST_DEPTH_MARGIN = 1
  SHALLOWEST_BERTH = 2
  Tunings <- CaveTunings
  Heights = {10, 13, 16, 20, 24, 36, 50}
  Cols = 8
  Rows = 2
  Caverns <- SoundMaps
  CELL = 2
  DIAGONAL = 3
  maxFieldCells = 15
  cacheCells = 20
  Sources = {0, 7, 13}
  Seeds = {0, 1}
  Lengths = {1, 3, 9}
  Loss <- InverseSquare
  ambientPower = 1
  BACKGROUND = 1
  WHOLE = 2
  THRESHOLD = 1
  terrainFactor = 2
  maxImagingRange = 15
  Crews <- Waters
  ChartCols = 2
  ChartRows = 2
  RUNS_PER_CHUNK = 1
  SEEN_LIMIT = 2
  Launch = {1, 2, 3}
  ALERT_FRAMES = 2
  MaxShows = 3
  MaxPictures = 2
  Outlooks <- TwoOutlooks
SYMMETRY Alike
CHECK_DEADLOCK FALSE
INVARIANTS
  ServicesTypeOK FleetsAreSound AccountsAreHonest TalkIsSound DrivingIsSafe
  StartIsSound SoundIsExact SurfacesAgree
PROPERTIES
  SessionsRunOut WrecksGoDown
