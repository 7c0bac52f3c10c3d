SPECIFICATION PartsSpec
CONSTANTS
  MaxActors = 8
  MaxSlices = 4
  Places <- MCPlaces
  ServerCap = 2
  PageCap = 4
  LabelCap = 2
  MaxHits = 3
  MaxMatches = 2
  Fighters = {1, 2}
  FeedCap = 1
  MaxFalls = 2
  Controls = {c1, c2}
  LayoutNames = {n1, n2}
  Spots = {10, 30}
  WideMargin = 5
  NarrowMargin = 20
  ThrowTicks = 2
  MostTicks = 3
  AngleUnit = 15
  InFlight = 2
  Coordinates <- MCCoordinates
  ProjectIds = {12}
  Programs <- MCPrograms
  Tabs = {t1, t2}
  Names = {n1, n2}
  Docs = {d1, d2}
  MaxProjects = 2
  MaxKey = 2
  Assets = {1, 2}
  LoadSlots = {1, 2, 3}
  KPages = {p1, p2}
  Uploads <- MCUploads
  NodeCap = 3
  HistoryCap = 2
  MaxTasks = 2
  MaxLosses = 1
CHECK_DEADLOCK FALSE
INVARIANTS
  LayoutInv
  NothingStuck
  HitsInv
  SpectatorInv
  TouchInv
  ThrowInv
  EditorInv
  DocumentInv
  ProjectsInv
  ModelsInv
PROPERTIES
  EditingGoesOn
