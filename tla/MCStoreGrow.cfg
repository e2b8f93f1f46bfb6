CONSTANTS
  a = a
  b = b
  c = c
  d = d
  Filings <- MCFilings
  Rank <- MCRank
  Empty = {a}
  ListOf <- ListBarA
  BatchSize = 2
  TickerOf <- Companies
  TickerWave = 2
  FullBuilds = {}
  LoadWhileSaving = FALSE
  MaxVectors = 3
  CrashAt <- CleanSaves
  TornFiles = {}
  NoFile = NoFile
  TornFile = TornFile
  Wrong = Wrong
SPECIFICATION FairSpec
INVARIANTS RightHits RightPostings
PROPERTY AllIndexed
CHECK_DEADLOCK FALSE
