SPECIFICATION FairSpec
CONSTANTS
  Nodes <- MCNodes
  PeersOf <- MCOneWay
  OnAccept = {"drop"}
  Latency = {FALSE}
  MaxSends = 1
  MaxCrashes = 0
  MaxAcceptErrors = 0
PROPERTY Delivers
CHECK_DEADLOCK FALSE
