CONSTANTS
  goog = goog
  googl = googl
  f1 = f1
  f2 = f2
  Tickers = {goog, googl}
  Filings = {f1, f2}
  Years <- MCYears
  Listing <- MCListing
  Lists <- MCLists
  NoFile = NoFile
  Torn = Torn
  Whole = Whole
  NoKey = NoKey
SPECIFICATION FairSpec
INVARIANTS TypeOK Stored
PROPERTIES NothingForgotten DownloadedOnce AllRecorded
