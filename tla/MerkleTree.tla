----------------------------- MODULE MerkleTree -----------------------------
(***************************************************************************)
(* src/engine/merkle.hpp: the lazy hash tree over the buckets of a store.  *)
(* Writers call apply_delta under a shard lock; get_root_hash holds        *)
(* global_mx_ and takes the shard locks one after the other, so writers    *)
(* run between its steps.                                                  *)
(*                                                                         *)
(* A 64-bit value is a set of tokens and XOR their symmetric difference;   *)
(* Digest is FNV-1a over the hashes of a node's children.                  *)
(***************************************************************************)
EXTENDS Naturals

CONSTANTS
  Fan,         \* 16: children of a node
  Digest(_),   \* fnv1a_64 of a block of child hashes
  Deltas       \* old_h ^ new_h of the writes

Up(i) == i \div Fan

L4 == 0 .. (Fan^4 - 1)
L3 == {Up(b) : b \in L4}
L2 == {Up(i) : i \in L3}   \* one node per shard lock
L1 == {Up(i) : i \in L2}

ASSUME MerkleAssumption == Fan \in Nat \ {0}

VARIABLES
  leaves, l3, l2, l1, l0,
  l3_dirty, l2_dirty, l1_dirty, l0_dirty,
  phase,     \* how far the recompute_dirty that holds global_mx_ has got
  todo,      \* shards its first phase has still to visit
  scanned    \* the leaves as that phase found them

levels == <<leaves, l3, l2, l1, l0>>
flags == <<l3_dirty, l2_dirty, l1_dirty, l0_dirty>>
treeVars == <<levels, flags, phase, todo, scanned>>

\* The hash of node i, from the level below it.
Hash(below, i) == Digest([c \in {c \in DOMAIN below : Up(c) = i} |-> below[c]])

\* Mutant: a level sized like the one below it.
HashOfWide(below, nodes) == [i \in DOMAIN below |-> Hash(below, i)]

HashOf(below, nodes) == [i \in nodes |-> Hash(below, i)]

\* Reference: the root computed from scratch.
TopHash(top) == Digest(top)
RootOf(leaf) == TopHash(HashOf(HashOf(HashOf(leaf, L3), L2), L1))

TreeInit ==
  /\ leaves = [b \in L4 |-> {}]
  /\ l3 = HashOf(leaves, L3)
  /\ l2 = HashOf(l3, L2)
  /\ l1 = HashOf(l2, L1)
  /\ l0 = TopHash(l1)
  /\ l3_dirty = [i \in L3 |-> FALSE]
  /\ l2_dirty = [i \in L2 |-> FALSE]
  /\ l1_dirty = [i \in L1 |-> FALSE]
  /\ l0_dirty = FALSE
  /\ phase = "idle" /\ todo = {} /\ scanned = leaves

\* Mutant: the level-3 node is not marked.
UnmarkedDelta(b, delta) ==
  /\ leaves' = [leaves EXCEPT ![b] = (@ \ delta) \cup (delta \ @)]
  /\ UNCHANGED <<l3, l2, l1, l0, flags, phase, todo, scanned>>

apply_delta(b, delta) ==
  /\ leaves' = [leaves EXCEPT ![b] = (@ \ delta) \cup (delta \ @)]
  /\ l3_dirty' = [l3_dirty EXCEPT ![Up(b)] = TRUE]
  /\ UNCHANGED <<l3, l2, l1, l0, l2_dirty, l1_dirty, l0_dirty,
                 phase, todo, scanned>>

\* get_root_hash takes global_mx_ and enters recompute_dirty.
BeginRoot ==
  /\ phase = "idle"
  /\ phase' = "shards" /\ todo' = L2
  /\ UNCHANGED <<levels, flags, scanned>>

\* Phase 1, one shard: rehash its dirty level-3 nodes under its lock.
ScanShard ==
  \E s \in todo :
    LET stale == {i \in L3 : Up(i) = s /\ l3_dirty[i]} IN
    /\ phase = "shards" /\ \A r \in todo : s <= r
    /\ l3' = [i \in L3 |-> IF i \in stale THEN Hash(leaves, i) ELSE l3[i]]
    /\ l3_dirty' = [i \in L3 |-> l3_dirty[i] /\ i \notin stale]
    /\ l2_dirty' = [l2_dirty EXCEPT ![s] = @ \/ stale # {}]
    /\ scanned' = [b \in L4 |-> IF Up(Up(b)) = s THEN leaves[b] ELSE scanned[b]]
    /\ todo' = todo \ {s}
    /\ phase' = IF todo' = {} THEN "l2" ELSE "shards"
    /\ UNCHANGED <<leaves, l2, l1, l0, l1_dirty, l0_dirty>>

\* Mutant: phase 2 does not mark level 1.
UnmarkedL2 ==
  /\ phase = "l2" /\ phase' = "l1"
  /\ l2' = [i \in L2 |-> IF l2_dirty[i] THEN Hash(l3, i) ELSE l2[i]]
  /\ l2_dirty' = [i \in L2 |-> FALSE]
  /\ UNCHANGED <<leaves, l3, l1, l0, l3_dirty, l1_dirty, l0_dirty,
                 todo, scanned>>

\* Phases 2 and 3.
RehashL2 ==
  /\ phase = "l2" /\ phase' = "l1"
  /\ l2' = [i \in L2 |-> IF l2_dirty[i] THEN Hash(l3, i) ELSE l2[i]]
  /\ l2_dirty' = [i \in L2 |-> FALSE]
  /\ l1_dirty' = [j \in L1 |-> l1_dirty[j] \/ \E i \in L2 : Up(i) = j /\ l2_dirty[i]]
  /\ UNCHANGED <<leaves, l3, l1, l0, l3_dirty, l0_dirty,
                 todo, scanned>>

RehashL1 ==
  /\ phase = "l1" /\ phase' = "l0"
  /\ l1' = [i \in L1 |-> IF l1_dirty[i] THEN Hash(l2, i) ELSE l1[i]]
  /\ l1_dirty' = [i \in L1 |-> FALSE]
  /\ l0_dirty' = (l0_dirty \/ \E i \in L1 : l1_dirty[i])
  /\ UNCHANGED <<leaves, l3, l2, l0, l3_dirty, l2_dirty,
                 todo, scanned>>

\* Mutant: the root is returned before it is rehashed.
ReturnStaleRoot ==
  /\ phase = "l0" /\ phase' = "idle"
  /\ UNCHANGED <<levels, flags, todo, scanned>>

\* Phase 4; get_root_hash returns l0_[0].
ReturnRoot ==
  /\ phase = "l0" /\ phase' = "idle"
  /\ l0' = IF l0_dirty THEN TopHash(l1) ELSE l0
  /\ l0_dirty' = FALSE
  /\ UNCHANGED <<leaves, l3, l2, l1, l3_dirty, l2_dirty, l1_dirty,
                 todo, scanned>>

RootStep == BeginRoot \/ ScanShard \/ RehashL2 \/ RehashL1 \/ ReturnRoot

\* The process ends and the next one constructs its tree.
TreeReset ==
  /\ leaves' = [b \in L4 |-> {}]
  /\ l3' = HashOf(leaves', L3) /\ l2' = HashOf(l3', L2)
  /\ l1' = HashOf(l2', L1) /\ l0' = TopHash(l1')
  /\ l3_dirty' = [i \in L3 |-> FALSE] /\ l2_dirty' = [i \in L2 |-> FALSE]
  /\ l1_dirty' = [i \in L1 |-> FALSE] /\ l0_dirty' = FALSE
  /\ phase' = "idle" /\ todo' = {} /\ scanned' = leaves'

TreeNext == (\E b \in L4, d \in Deltas : apply_delta(b, d)) \/ RootStep \/ TreeReset

TreeSpec == TreeInit /\ [][TreeNext]_treeVars
-----------------------------------------------------------------------------
IsArray(a, S) == a = [i \in S |-> a[i]]

\* The level and dirty arrays keep their shapes.
TreeTypeOK ==
  /\ IsArray(leaves, L4) /\ IsArray(scanned, L4)
  /\ IsArray(l3, L3) /\ IsArray(l2, L2) /\ IsArray(l1, L1)
  /\ l3_dirty \in [L3 -> BOOLEAN] /\ l2_dirty \in [L2 -> BOOLEAN]
  /\ l1_dirty \in [L1 -> BOOLEAN] /\ l0_dirty \in BOOLEAN
  /\ phase \in {"idle", "shards", "l2", "l1", "l0"} /\ todo \subseteq L2

\* A node whose dirty flag is clear holds the hash of the level below, at
\* every moment of a recomputation and whatever writers do meanwhile.
CleanIsExact ==
  /\ \A i \in L3 : ~l3_dirty[i] => l3[i] = Hash(leaves, i)
  /\ \A i \in L2 : ~l2_dirty[i] => l2[i] = Hash(l3, i)
  /\ \A i \in L1 : ~l1_dirty[i] => l1[i] = Hash(l2, i)
  /\ ~l0_dirty => l0 = TopHash(l1)

\* Between two recomputations, a root with no dirty bucket below it is the
\* hash of the current leaves: no write is ever lost from the tree.
IdleRootIsCurrent ==
  phase = "idle" /\ (\A i \in L3 : ~l3_dirty[i]) => l0 = RootOf(leaves)

\* The root get_root_hash returns is the one a from-scratch computation
\* gives for the leaves as the call found them, each shard when it was
\* visited: writes that land behind or ahead of the scan do not tear it.
RootOfScan == [][ReturnRoot => l0' = RootOf(scanned)]_treeVars
=============================================================================
