SPECIFICATION FairSpec
CONSTANTS
  Readers = {r1}
  Timed = {}
  Stopping = {r1}
  Remotes = {}
  MaxChunks = 1
  MaxMessages = 2
  MayBeLarge = {1}
  Relaxed = FALSE
PROPERTY ShutdownStops
