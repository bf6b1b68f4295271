\* One client that publishes, edits and deletes, and a browser whose subscription holds one
\* event: a burst of publications overflows it.
CONSTANTS
  c1 = c1  c2 = c2  publish1 = publish1  publish2 = publish2  publish3 = publish3
  hash1 = hash1  hash2 = hash2
  None = None
  Calls = {c1}
  Keys = {publish1, publish2}
  Hashes = {hash1, hash2}
  MaxCanvasCharts = 2
  MaxMinted = 3
  MaxRevision = 4
  QueueLimit = 1
SPECIFICATION FairSpec
CHECK_DEADLOCK FALSE
PROPERTIES
  NotificationsSuffice
