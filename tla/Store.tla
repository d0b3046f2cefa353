------------------------------- MODULE Store --------------------------------
(***************************************************************************)
(* The shard maps of src/engine/store.hpp and the Merkle leaves they feed. *)
(* apply_put, apply_patch_int/_str and apply_del change a blob under the   *)
(* shard's lock, release it, and only then give old_h ^ new_h to           *)
(* MerkleTree::apply_delta: other threads run in between.                  *)
(*                                                                         *)
(* A slot is an entry of the maps: a user key, or its "<key>:meta".        *)
(* A 64-bit value is a set of tokens, XOR their symmetric difference, and  *)
(* the hash of a blob is the token of its bytes; the key is not hashed.    *)
(***************************************************************************)
EXTENDS Naturals, FiniteSets

CONSTANTS
  Threads, Slots, Buckets,
  BucketOf,        \* fnv1a_64(key) >> 48
  Contents,        \* the byte strings a blob may hold, among them:
  NewObject,       \* a blob as Blob's constructor leaves it (init_object),
  Tombstone,       \* the empty blob,
  Values,          \* and what overwrite() makes of the bodies that are put
  Absent,          \* the map has no such entry
  Patches,         \* field assignments
  Patched(_, _),   \* set_i64 / set_str on a blob
  MaxWrites        \* bound on the writes of a process

ASSUME StoreAssumption ==
  /\ IsFiniteSet(Threads) /\ IsFiniteSet(Slots)
  /\ BucketOf \in [Slots -> Buckets]
  /\ {NewObject, Tombstone} \cup Values \subseteq Contents
  /\ Absent \notin Contents
  /\ \A c \in Contents, p \in Patches : Patched(c, p) \in Contents
  /\ MaxWrites \in Nat

Ops == [op : {"PUT"}, arg : Values] \cup [op : {"PATCH"}, arg : Patches]
       \cup [op : {"DELETE"}, arg : {Tombstone}]

VARIABLES
  blob,      \* what each slot holds
  leaf,      \* leaves_ of the Merkle tree
  pend,      \* the delta a thread has computed and not yet applied, or none
  phantom,   \* slots whose first hash was that of a NewObject never stored
  writes

vars == <<blob, leaf, pend, phantom, writes>>

\* Mutant: OR in place of XOR.
Or(a, b) == a \cup b

Xor(a, b) == (a \ b) \cup (b \ a)

\* Mutant: no blob hashes like a blob.
HashAny(c) == {c}

hash_blob(c) == IF c = Absent THEN {} ELSE {c}

\* Patching or deleting an absent key first creates an empty object.
Creates(c, o) == c = Absent /\ o.op # "PUT"
Found(c, o) == IF Creates(c, o) THEN NewObject ELSE c

Result(c, o) == IF o.op = "PATCH" THEN Patched(Found(c, o), o.arg) ELSE o.arg

Init ==
  /\ blob = [s \in Slots |-> Absent]
  /\ leaf = [b \in Buckets |-> {}]
  /\ pend = [t \in Threads |-> {}]
  /\ phantom = {} /\ writes = 0

\* The part of apply_put, apply_patch and apply_del under the shard lock.
Apply(t, s, o) ==
  /\ pend[t] = {}
  /\ writes < MaxWrites /\ writes' = writes + 1
  /\ blob' = [blob EXCEPT ![s] = Result(blob[s], o)]
  /\ pend' = [pend EXCEPT ![t] =
       {[bucket |-> BucketOf[s],
         delta  |-> Xor(hash_blob(Found(blob[s], o)),
                        hash_blob(Result(blob[s], o)))]}]
  /\ phantom' = IF Creates(blob[s], o) THEN phantom \cup {s} ELSE phantom
  /\ UNCHANGED leaf

\* Mutant: the leaf takes the delta itself.
DeltaStored(t) ==
  /\ \E d \in pend[t] : leaf' = [leaf EXCEPT ![d.bucket] = d.delta]
  /\ pend' = [pend EXCEPT ![t] = {}]
  /\ UNCHANGED <<blob, phantom, writes>>

\* merkle_.apply_delta(key, old_h ^ new_h), after lock.unlock().
Delta(t) ==
  /\ \E d \in pend[t] : leaf' = [leaf EXCEPT ![d.bucket] = Xor(@, d.delta)]
  /\ pend' = [pend EXCEPT ![t] = {}]
  /\ UNCHANGED <<blob, phantom, writes>>

\* The process ends and another one starts with empty shards.
Reset ==
  /\ blob' = [s \in Slots |-> Absent]
  /\ leaf' = [b \in Buckets |-> {}]
  /\ pend' = [t \in Threads |-> {}]
  /\ phantom' = {} /\ writes' = 0

Next ==
  \/ \E t \in Threads, s \in Slots, o \in Ops : Apply(t, s, o)
  \/ \E t \in Threads : Delta(t)
  \/ Reset

Spec == Init /\ [][Next]_vars
-----------------------------------------------------------------------------
PendingDelta == [bucket : Buckets, delta : SUBSET Contents]

\* Blobs and leaves hold values of theirs, and a thread owes one delta at most.
TypeOK ==
  /\ blob \in [Slots -> Contents \cup {Absent}]
  /\ leaf \in [Buckets -> SUBSET Contents]
  /\ pend \in [Threads -> SUBSET PendingDelta]
  /\ \A t \in Threads : \A d, e \in pend[t] : d = e
  /\ phantom \subseteq Slots /\ writes \in Nat

\* What contributes token tok to the leaf of bucket b: the blobs that hold
\* it, the objects that were never stored, the deltas under way.
Holders(b, tok) == {s \in Slots : BucketOf[s] = b /\ blob[s] = tok}
Phantoms(b, tok) == {s \in phantom : BucketOf[s] = b /\ tok = NewObject}
Owed(b, tok) == {t \in Threads : \E d \in pend[t] : d.bucket = b /\ tok \in d.delta}

Sources(b, tok) ==
  Cardinality(Holders(b, tok)) + Cardinality(Phantoms(b, tok))
    + Cardinality(Owed(b, tok))

Odd(n) == n % 2 = 1

\* Whatever the interleaving of map updates and tree updates, also of
\* several threads on one key, a leaf is the XOR of its sources.
LeafParity ==
  \A b \in Buckets, tok \in Contents :
    tok \in leaf[b] <=> Odd(Sources(b, tok))

\* Once no delta is under way, the leaf is the XOR of the hashes of the
\* blobs in the bucket, except for keys first written by a patch or delete.
SettledLeaf ==
  (\A t \in Threads : pend[t] = {}) =>
    \A b \in Buckets, tok \in Contents :
      (\A s \in phantom : BucketOf[s] # b) =>
        (tok \in leaf[b] <=> Odd(Cardinality(Holders(b, tok))))
=============================================================================
