----------------------------- MODULE MCStorage ------------------------------
(***************************************************************************)
(* Storage with two threads on three slots, two of which share a bucket,   *)
(* and two children per node: 16 buckets in four shards.  A blob is the    *)
(* set of fields it assigns.                                               *)
(***************************************************************************)
EXTENDS Storage, TLC

CONSTANTS t1, t2, s1, s2, s3

MCThreads == {t1, t2}
MCSlots == {s1, s2, s3}
MCBuckets == {5, 14}
MCBucketOf == (s1 :> 5) @@ (s2 :> 5) @@ (s3 :> 14)
MCNewObject == {}
MCTombstone == {"empty"}
MCAbsent == {"absent"}
MCValues == {{"a"}}
MCContents == (SUBSET {"a", "b"}) \cup {MCTombstone, {"empty", "b"}}
MCPatches == {"b"}
MCPatched(c, p) == c \cup {p}
MCDeltas == SUBSET MCContents

\* A hash function without collisions.
MCDigest(block) == [digest |-> block]
Symmetry == Permutations(MCThreads) \cup Permutations({s1, s2})
=============================================================================
