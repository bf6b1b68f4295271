\* Two clients that publish, edit and delete, and a browser that follows with one event of
\* buffer.
CONSTANTS
  c1 = c1  c2 = c2  publish1 = publish1  publish2 = publish2  publish3 = publish3
  hash1 = hash1  hash2 = hash2
  None = None
  Calls = {c1, c2}
  Keys = {publish1, publish2, publish3}
  Hashes = {hash1}
  MaxCanvasCharts = 2
  MaxMinted = 3
  MaxRevision = 4
  QueueLimit = 1
SPECIFICATION Spec
SYMMETRY Interchangeable
CHECK_DEADLOCK FALSE
INVARIANTS
  TypeOK
  TablesAgree
  PlacesFit
  ActiveIsShown
  UpdateIsComing
PROPERTIES
  EditsAreNotBlind
