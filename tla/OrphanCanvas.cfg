\* A publication beside the deletion of the session.
CONSTANTS
  c1 = c1  c2 = c2  publish1 = publish1  publish2 = publish2  publish3 = publish3
  hash1 = hash1  hash2 = hash2
  None = None
  Calls = {c1, c2}
  Keys = {publish1, publish2}
  Hashes = {hash1}
  MaxCanvasCharts = 3
  MaxMinted = 3
  MaxRevision = 4
  QueueLimit = 1
SPECIFICATION Spec
CHECK_DEADLOCK FALSE
INVARIANT
  DeletedWithSession
