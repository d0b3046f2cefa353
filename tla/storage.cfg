SPECIFICATION StorageSpec
CONSTANTS
  t1 = t1
  t2 = t2
  s1 = s1
  s2 = s2
  s3 = s3
  Threads <- MCThreads
  Slots <- MCSlots
  Buckets <- MCBuckets
  BucketOf <- MCBucketOf
  Contents <- MCContents
  NewObject <- MCNewObject
  Tombstone <- MCTombstone
  Values <- MCValues
  Absent <- MCAbsent
  Patches <- MCPatches
  Patched <- MCPatched
  MaxWrites = 4
  Fan = 2
  Digest <- MCDigest
  Deltas <- MCDeltas
SYMMETRY Symmetry
INVARIANTS StorageTypeOK LeafParity SettledLeaf CleanIsExact IdleRootIsCurrent RootOfMaps
PROPERTIES RootOfScan
