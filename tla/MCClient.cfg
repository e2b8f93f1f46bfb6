CONSTANTS
  t1 = t1
  t2 = t2
  Threads = {t1, t2}
  Interval = 2
  MaxAttempts = 2
  Backoff <- MCBackoff
  Window = 5
  Companies <- MCCompanies
  NoListing = NoListing
SPECIFICATION Spec
INVARIANTS RateKept LabelsRight
PROPERTIES OnTimeSpaced EachCallEnds
