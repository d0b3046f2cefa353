SPECIFICATION FairSpec
CONSTANTS
  n1 = n1
  n2 = n2
  n3 = n3
  k1 = k1
  k2 = k2
  Nodes <- TwoNodes
  Keys <- OneKey
  Peers <- Others
  Fan = 2
  LeafLevel = 2
  BucketOf <- SharedBucket
  Lanes <- ControlOnly
  ClientOps <- PutOnly
  SameBody = FALSE
  MaxWrites = 1
  MaxBreaks = 0
  MaxSent = 1
PROPERTIES Converges
