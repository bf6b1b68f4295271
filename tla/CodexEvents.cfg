\* Two handlers with two calls, and one turn with three messages; the client, the kept
\* notifications and a stream hold the fewest that fill up.
CONSTANTS
  h1 = h1  h2 = h2  t1 = t1  hub0 = hub0
  None = None
  Handlers = {h1, h2}
  Turns = {t1}
  Hub = hub0
  MaxCalls = 2
  MaxMessages = 3
  QueueLimit = 1
  RequestLimit = 1
  MaxEarly = 1
  MaxStreams = 3
SPECIFICATION FairSpec
CHECK_DEADLOCK FALSE
INVARIANTS
  TypeOK
  StreamsMeetReaders
  NothingTwice
PROPERTIES
  CallsEnd
