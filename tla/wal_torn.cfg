SPECIFICATION FileSpec
CONSTANTS
  Records <- MCRecords
  Torn = torn
  torn = torn
  TornCrash = TRUE
  MaxAppends = 3
  MaxErrors = 0
  MaxStops = 2
  KeyWidth = 3
  Wild = 1
  MaxZeros = 0
PROPERTIES KeepsPromiseTorn
CHECK_DEADLOCK FALSE
