SPECIFICATION SpecFiling
CONSTANTS
  Target = 8
  Overlap = 4
  MinSentences = 4
  Special = 1
  MaxBreaks = 2
  TocMin = 3
  MaxGap = 4
  MinSection = 4
  None = None
  Filings <- MCFilings
  MinChunk = 3
INVARIANTS
  TypeOKFiling
  BudgetKept Covers
  IdsUnique RightItem NothingSkipped
CHECK_DEADLOCK FALSE
