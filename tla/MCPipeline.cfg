SPECIFICATION MCSpec
CONSTANTS
  Sub = 2
  ImageW = 40
  ImageH = 40
  KeepLabels = {"text", "free"}
  NmsIou = 60
  ContainThresh = 85
  MinArea = 4
  MinSide = 0
  MinCrop = 8
  MaxPixels = 100
  MaxDets = 3
  Lengths = {0, 2}
  Detections <- MCDetections
  Quads <- MCQuads
  Requests <- MCRequests
  Combos = {"a", "b"}
  Spans = {3000, 9612, 12005000}
  MaxPages = 2
  MaxRegions = 2
  Windows <- MCWindows
  MaxWindows = 3
  Engines = {"llama.cpp", "other"}
  Chat = {"llama.cpp"}
  RolesOf <- MCRolesOf
  Langs = {"ja", "ko"}
  Presets = {"mine"}
  PromptTexts = {ta, tb}
  Numbers = {1, 2}
  Models = {m1}
  Asks <- MCAsks
  Clients = {q1, q2}
  None = None
  Blank = Blank
  MaxPosts = 1
SYMMETRY MCSymmetry
INVARIANTS
  RegionsAreRead
  TextsKeepTheirRegion
  StatsAddUp
  ServedAsConfigured
CHECK_DEADLOCK FALSE
