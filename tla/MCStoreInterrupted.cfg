CONSTANTS
  a = a
  b = b
  c = c
  d = d
  Filings <- MCFilings
  Rank <- MCRank
  Empty = {d}
  ListOf <- ListBarD
  BatchSize = 2
  TickerOf <- Companies
  TickerWave = 2
  FullBuilds = {}
  LoadWhileSaving = FALSE
  MaxVectors = 3
  CrashAt <- AllSaves
  TornFiles = {}
  NoFile = NoFile
  TornFile = TornFile
  Wrong = Wrong
SPECIFICATION Spec
INVARIANT FilesAgree
CHECK_DEADLOCK FALSE
