SPECIFICATION FairSpec
CONSTANTS
  Readers = {r1, r2}
  Timed = {r2}
  Stopping = {r1}
  Remotes = {x}
  MaxChunks = 2
  MaxMessages = 3
  MayBeLarge = {2}
  Relaxed = FALSE
INVARIANT Safe
PROPERTIES ImplementsBroadcast Delivered ShutdownEnds
