SPECIFICATION HistorySpec
CONSTANTS
  t1 = t1
  t2 = t2
  k1 = k1
  k2 = k2
  Threads <- MCThreads
  Keys <- OneKey
  KeysOf <- SharedKeys
  Fields <- NoField
  Buckets <- MCBuckets
  BucketOf <- MCBucketOf
  SetBack = FALSE
  Drift = 0
  Torn = Torn
  TornCrash = FALSE
  MaxClock = 2
  MaxAppends = 2
  MaxErrors = 0
  MaxStops = 1
PROPERTIES NewestWins
