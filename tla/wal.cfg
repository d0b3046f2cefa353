SPECIFICATION FileSpec
CONSTANTS
  Records <- MCRecords
  Torn = torn
  torn = torn
  TornCrash = TRUE
  MaxAppends = 3
  MaxErrors = 1
  MaxStops = 3
  KeyWidth = 3
  Wild = 1
  MaxZeros = 0
INVARIANTS WalTypeOK ReadBack
PROPERTIES KeepsPromise RecoversInOrder
CHECK_DEADLOCK FALSE
