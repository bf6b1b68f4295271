\* Every page of the plugin, in the small instances of MCPluginPages.
CONSTANTS
  f1 = f1  f2 = f2  i1 = i1  i2 = i2
  None = None
  FoldersOf <- SmallFolders
  Most <- SmallBounds
  Views = {v1, v2}
  Charts <- SmallCharts
  Parts = {p1}
  MajorVersion = 13
  MaxPoints = 10000
  Widths <- SmallWidths
  Requests = {r1, r2}
  Seeded = {s1}
  Added = {n1}
  DefaultFolder = f1
  Writable = {}
  Tools <- BothTools
  Admins = {f1}
  Entries = {i1, i2}
  Target <- OneFolder
  FolderOf <- OneFolder
  Seed <- AlertSeed
  Pages = {"sessions", "keyed sessions", "canvas", "edited canvas", "panels", "drawer",
           "frame", "dialogs", "fixture", "shell", "knowledge", "fixture knowledge",
           "playbooks", "runs", "skills", "governance", "alerts"}
SPECIFICATION Spec
CHECK_DEADLOCK FALSE
INVARIANTS
  TypeOK
  ListIsComing
  DeletedIsNotListed
  NothingDroppedUnseen
  ShowsOwnQuery
  ShownAfterRefusal
  DocumentsAreOfSelected
  SavedOnce
  ShownIsOfChoice
  DecisionIsWhole
PROPERTIES
  ListAppearsForFolder
  EndedStays
