CONSTANTS
  a = a
  b = b
  c = c
  d = d
  Filings <- MCFilings
  Rank <- MCRank
  Empty = {d}
  ListOf <- ListBarD
  BatchSize = 2
  TickerOf <- Companies
  TickerWave = 2
  FullBuilds <- JustB
  LoadWhileSaving = TRUE
  MaxVectors = 3
  CrashAt <- AllSaves
  TornFiles = {"faiss", "meta", "json", "postings"}
  NoFile = NoFile
  TornFile = TornFile
  Wrong = Wrong
SPECIFICATION Spec
INVARIANTS TypeOK IndexedOnce TextBacked
PROPERTY GrowsAsPromised
CHECK_DEADLOCK FALSE
