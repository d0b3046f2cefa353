------------------------------- MODULE Storage ------------------------------
(***************************************************************************)
(* The maps of store.hpp with the tree of merkle.hpp they keep up to date: *)
(* merkle_ of the Engine.  What Store calls leaf are the leaves of the     *)
(* tree; get_merkle_root_hash() runs while other threads write.            *)
(***************************************************************************)
EXTENDS Store, MerkleTree

ASSUME StorageAssumption == Buckets \subseteq L4 /\ SUBSET Contents \subseteq Deltas

storageVars == <<vars, treeVars>>

StorageInit == Init /\ TreeInit

\* The part of a write under the lock of the shard; the tree is left alone.
Write(t, s, o) == Apply(t, s, o) /\ UNCHANGED treeVars

\* Its second part, the call of apply_delta.
Feed(t) == Delta(t) /\ \E d \in pend[t] : apply_delta(d.bucket, d.delta)

\* A step of get_merkle_root_hash().
get_merkle_root_hash == RootStep /\ UNCHANGED vars

Restart == Reset /\ TreeReset

StorageNext ==
  \/ \E t \in Threads, s \in Slots, o \in Ops : Write(t, s, o)
  \/ \E t \in Threads : Feed(t)
  \/ get_merkle_root_hash
  \/ Restart

StorageSpec == StorageInit /\ [][StorageNext]_storageVars
-----------------------------------------------------------------------------
\* The types of the maps, the leaves, the levels and their flags.
StorageTypeOK == TypeOK /\ TreeTypeOK

\* The leaves that the blobs in the maps make.
LeavesOfMaps ==
  [b \in L4 |-> {tok \in Contents : b \in Buckets /\ Odd(Cardinality(Holders(b, tok)))}]

\* With no write under way and nothing dirty, the root is that of a tree
\* built from the maps alone, whatever writes and root computations led
\* there: two stores with the same blobs show the same root to gossip, if no
\* key was first written by a patch or delete (apply_*, recompute_dirty).
RootOfMaps ==
  /\ phase = "idle" /\ \A i \in L3 : ~l3_dirty[i]
  /\ phantom = {} /\ \A t \in Threads : pend[t] = {}
  => l0 = RootOf(LeavesOfMaps)
=============================================================================
