CONSTANTS
  a = a
  b = b
  c = c
  d = d
  e = e
  f = f
  hedged = hedged
  fixed = fixed
  Cfgs = {hedged, fixed}
  Filings <- MCFilings
  Rank <- MCRank
  Missing <- MCMissing
  Count <- MCCount
  Dim <- MCDim
  NoFile = NoFile
  TornFile = TornFile
  Garbled = Garbled
  NoRequest = NoRequest
  NoBuild = NoBuild
  CheckpointEvery = 2
  EmbedBatch = 2
  MaxItems = 5
  Requests <- OneRequest
  CrashAt <- AllSteps
  TornFiles = {"rows"}
SPECIFICATION Spec
INVARIANT RowsAligned
