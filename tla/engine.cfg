SPECIFICATION HistorySpec
CONSTANTS
  t1 = t1
  t2 = t2
  k1 = k1
  k2 = k2
  Threads <- MCThreads
  Keys <- TwoKeys
  KeysOf <- SharedKeys
  Fields <- TwoFields
  Buckets <- MCBuckets
  BucketOf <- MCBucketOf
  SetBack = FALSE
  Drift = 0
  Torn = Torn
  TornCrash = TRUE
  MaxClock = 2
  MaxAppends = 2
  MaxErrors = 1
  MaxStops = 1
SYMMETRY Symmetry
INVARIANTS TypeOK MemoryIsLog WriteAhead MetaMatches
