SPECIFICATION FairSpec
CONSTANTS
  Nodes <- MCNodes
  PeersOf <- MCOneWay
  OnAccept = {"drop", "start"}
  Latency = {TRUE, FALSE}
  MaxSends = 3
  MaxCrashes = 2
  MaxAcceptErrors = 1
INVARIANTS TypeOK OneWrite Framed
PROPERTIES KeepsOrder Drains
CHECK_DEADLOCK FALSE
