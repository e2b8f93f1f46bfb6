SPECIFICATION Spec
CONSTANTS
  RrfK = 1
  Terms <- MCTerms
  Batches <- MCBatches
  Meta <- MCMeta
  Filters <- MCFilters
  Queries <- MCQueries
  CandidateK = 3
  TopK = 2
  Wanted = "ivf"
  MinForIvf = 3
  None = None
INVARIANTS InStep HitsRight BothBeatOne
