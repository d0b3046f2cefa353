SPECIFICATION SyncSpec
CONSTANTS
  n1 = n1
  n2 = n2
  n3 = n3
  k1 = k1
  k2 = k2
  Nodes <- ThreeNodes
  Keys <- OneKey
  Peers <- ToFirst
  Fan = 2
  LeafLevel = 1
  BucketOf <- SharedBucket
  Lanes <- AllLanes
  ClientOps <- PutOnly
  SameBody = FALSE
  MaxWrites = 3
  MaxBreaks = 0
  MaxSent = 1
PROPERTIES NeverOlder
