CONSTANTS
  r1 = r1
  r2 = r2
  Streams = {r1, r2}
  Calls <- MCCalls
  HasAllowedHosts = FALSE
  BlockPrivateHosts = TRUE
  ChunkSize = 2
  Sizes = {0, 3}
  AssetSize = 3
  Connections = 1
  MaxChanges = 1
  Faults = TRUE
SPECIFICATION FairSpec
INVARIANTS RightBytes NothingPastTheRange CountIsLive UpstreamReleased
PROPERTY StreamsEnd
CHECK_DEADLOCK FALSE
