SPECIFICATION Spec
CONSTANTS
  Readers = {r1, r2}
  Timed = {}
  Stopping = {}
  Remotes = {}
  MaxChunks = 1
  MaxMessages = 2
  MayBeLarge = {}
  Relaxed = TRUE
INVARIANT ReadsNext
