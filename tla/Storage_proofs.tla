--------------------------- MODULE Storage_proofs ---------------------------
(***************************************************************************)
(* What the engine keeps its data in: the sharded maps (Store) and the     *)
(* tree over their contents (MerkleTree).                                  *)
(*                                                                         *)
(* For every set of threads, keys, buckets and contents: the Merkle leaves *)
(* follow the maps although the two are updated under different locks.     *)
(* LeafParity is inductive with the fact that an absent slot is no         *)
(* phantom: a map update changes the number of a token's sources by an     *)
(* even amount, and a tree update removes one source and flips the token.  *)
(*                                                                         *)
(* Then the nodes above the leaves, for every fan-out, hash function and   *)
(* set of writes: the tree's dirty flags cover all that is out of date,    *)
(* and get_root_hash returns the hash of the leaves it scanned.            *)
(* CleanIsExact is inductive by itself.  The root needs in addition which  *)
(* flags are clear in each phase, and that the level-3 nodes of a visited  *)
(* shard keep the hash of its leaves at the visit (a later write only sets *)
(* a flag).                                                                *)
(*                                                                         *)
(* Storage, where both run together, implements each: its steps are steps  *)
(* of Store and of MerkleTree, or leave one of them alone, so the facts    *)
(* above hold of it.  That leaves is leaf then gives the root of the maps. *)
(***************************************************************************)
EXTENDS Storage, FiniteSetTheorems, TLAPS

Inv ==
  /\ TypeOK
  /\ \A s \in phantom : blob[s] # Absent
  /\ LeafParity
-----------------------------------------------------------------------------
LEMMA CardAdd ==
  ASSUME NEW S, IsFiniteSet(S), NEW x, x \notin S
  PROVE  /\ Cardinality(S \cup {x}) = Cardinality(S) + 1
         /\ Cardinality(S) \in Nat
  BY FS_AddElement, FS_CardinalityType

LEMMA CardRemove ==
  ASSUME NEW S, IsFiniteSet(S), NEW x \in S
  PROVE  /\ Cardinality(S \ {x}) = Cardinality(S) - 1
         /\ Cardinality(S) \in Nat
  BY FS_RemoveElement, FS_CardinalityType

\* The three kinds of sources are finite sets.
LEMMA Finite ==
  ASSUME TypeOK, NEW b, NEW tok
  PROVE  /\ IsFiniteSet(Holders(b, tok)) /\ Cardinality(Holders(b, tok)) \in Nat
         /\ IsFiniteSet(Phantoms(b, tok)) /\ Cardinality(Phantoms(b, tok)) \in Nat
         /\ IsFiniteSet(Owed(b, tok)) /\ Cardinality(Owed(b, tok)) \in Nat
<1>1. IsFiniteSet(phantom)
  BY StoreAssumption, FS_Subset DEF TypeOK
<1>2. /\ Holders(b, tok) \in SUBSET Slots
      /\ Phantoms(b, tok) \in SUBSET phantom
      /\ Owed(b, tok) \in SUBSET Threads
  BY DEF Holders, Phantoms, Owed
<1>3. /\ IsFiniteSet(Holders(b, tok)) /\ IsFiniteSet(Phantoms(b, tok))
      /\ IsFiniteSet(Owed(b, tok))
  BY <1>1, <1>2, StoreAssumption, FS_Subset
<1> QED
  BY <1>3, FS_CardinalityType

LEMMA EmptyInv ==
  ASSUME blob = [s \in Slots |-> Absent], leaf = [b \in Buckets |-> {}],
         pend = [t \in Threads |-> {}], phantom = {}, writes = 0
  PROVE  Inv
<1>1. TypeOK
  BY DEF TypeOK
<1>2. LeafParity
  <2> SUFFICES ASSUME NEW b \in Buckets, NEW tok \in Contents
               PROVE  tok \in leaf[b] <=> Odd(Sources(b, tok))
    BY DEF LeafParity
  <2>1. Holders(b, tok) = {} /\ Phantoms(b, tok) = {} /\ Owed(b, tok) = {}
    BY StoreAssumption DEF Holders, Phantoms, Owed
  <2>2. Sources(b, tok) = 0
    BY <2>1, FS_EmptySet DEF Sources
  <2> QED
    BY <2>2 DEF Odd
<1> QED
  BY <1>1, <1>2 DEF Inv

LEMMA ResultType ==
  ASSUME TypeOK, NEW s \in Slots, NEW o \in Ops
  PROVE  /\ Result(blob[s], o) \in Contents
         /\ Found(blob[s], o) \in Contents \cup {Absent}
<1>1. Found(blob[s], o) \in Contents \cup {Absent}
  BY StoreAssumption DEF Found, TypeOK
<1>2. CASE o.op = "PATCH"
  <2>1. o.arg \in Patches /\ Found(blob[s], o) \in Contents
    BY <1>2, StoreAssumption DEF Ops, Found, Creates, TypeOK
  <2> QED
    BY <1>1, <1>2, <2>1, StoreAssumption DEF Result
<1>3. CASE o.op # "PATCH"
  <2>1. o.arg \in Contents
    BY <1>3, StoreAssumption DEF Ops
  <2> QED
    BY <1>1, <1>3, <2>1 DEF Result
<1> QED
  BY <1>2, <1>3

LEMMA OddStep ==
  ASSUME NEW n \in Nat
  PROVE  /\ Odd(n) \in BOOLEAN /\ (Odd(n + 1) <=> ~Odd(n)) /\ (Odd(n + 2) <=> Odd(n))
         /\ n > 0 => (Odd(n - 1) <=> ~Odd(n))
  BY DEF Odd

\* What a map update does to the holders and phantoms of a token in the slot's
\* bucket: their number turns odd or even exactly if the token is in the
\* delta.  (C is {s} if the update first makes an empty object, old.)
LEMMA MapParity ==
  ASSUME NEW H, NEW P, IsFiniteSet(H), IsFiniteSet(P),
         NEW s, NEW old, NEW new, NEW tok, NEW C \in SUBSET {s},
         C # {} => s \notin H /\ s \notin P,
         C = {} => (s \in H <=> tok = old)
  PROVE  LET n == Cardinality(H) + Cardinality(P)
             m == Cardinality(IF tok = new THEN H \cup {s} ELSE H \ {s})
                    + Cardinality(IF tok = old THEN P \cup C ELSE P)
         IN  /\ n \in Nat /\ m \in Nat
             /\ IF old # new /\ tok \in {old, new}
                THEN Odd(m) <=> ~Odd(n) ELSE Odd(m) <=> Odd(n)
<1> DEFINE H2 == IF tok = new THEN H \cup {s} ELSE H \ {s}
           P2 == IF tok = old THEN P \cup C ELSE P
           n == Cardinality(H) + Cardinality(P)
           m == Cardinality(H2) + Cardinality(P2)
<1>1. Cardinality(H) \in Nat /\ Cardinality(P) \in Nat /\ (C = {} \/ C = {s})
  BY FS_CardinalityType
<1>2. CASE tok \notin {old, new}
  <2>1. H2 = H /\ P2 = P
    BY <1>2
  <2> QED
    BY <1>1, <1>2, <2>1
<1>3. CASE old = new /\ tok = old /\ C = {}
  <2>1. H2 = H /\ P2 = P
    BY <1>3
  <2> QED
    BY <1>1, <1>3, <2>1
<1>4. CASE old = new /\ tok = old /\ C = {s}
  <2>1. /\ Cardinality(H2) = Cardinality(H) + 1
        /\ Cardinality(P2) = Cardinality(P) + 1
    BY <1>4, CardAdd
  <2>2. n \in Nat /\ m = n + 2
    BY <1>1, <2>1
  <2> HIDE DEF n, m
  <2>3. m \in Nat /\ (Odd(m) <=> Odd(n))
    BY <2>2, OddStep
  <2> QED
    BY <1>4, <2>2, <2>3 DEF n, m
<1>5. CASE old # new /\ tok = new
  <2>1. Cardinality(H2) = Cardinality(H) + 1 /\ P2 = P
    BY <1>1, <1>5, CardAdd
  <2>2. n \in Nat /\ m = n + 1
    BY <1>1, <2>1
  <2> HIDE DEF n, m
  <2>3. m \in Nat /\ (Odd(m) <=> ~Odd(n))
    BY <2>2, OddStep
  <2> QED
    BY <1>5, <2>2, <2>3 DEF n, m
<1>6. CASE old # new /\ tok = old /\ C = {}
  <2>0. H2 = H \ {s} /\ P2 = P /\ s \in H
    BY <1>6
  <2>1. /\ Cardinality(H2) = Cardinality(H) - 1 /\ Cardinality(H2) \in Nat
        /\ Cardinality(P2) = Cardinality(P)
    BY <2>0, CardRemove, FS_RemoveElement, FS_CardinalityType
  <2> HIDE DEF H2, P2
  <2>2. n \in Nat /\ n > 0 /\ m = n - 1 /\ m \in Nat
    BY <1>1, <2>1
  <2> HIDE DEF n, m
  <2>3. Odd(m) <=> ~Odd(n)
    BY <2>2, OddStep
  <2> QED
    BY <1>6, <2>2, <2>3 DEF n, m, H2, P2
<1>7. CASE old # new /\ tok = old /\ C = {s}
  <2>1. H2 = H /\ Cardinality(P2) = Cardinality(P) + 1
    BY <1>7, CardAdd
  <2>2. n \in Nat /\ m = n + 1
    BY <1>1, <2>1
  <2> HIDE DEF n, m
  <2>3. m \in Nat /\ (Odd(m) <=> ~Odd(n))
    BY <2>2, OddStep
  <2> QED
    BY <1>7, <2>2, <2>3 DEF n, m
<1> QED
  BY <1>1, <1>2, <1>3, <1>4, <1>5, <1>6, <1>7

\* A map update changes the number of sources of a token by an even amount.
LEMMA ApplyParity ==
  ASSUME Inv, NEW t \in Threads, NEW s \in Slots, NEW o \in Ops, Apply(t, s, o),
         NEW b \in Buckets, NEW tok \in Contents
  PROVE  Odd(Sources(b, tok)') <=> Odd(Sources(b, tok))
<1> DEFINE old == Found(blob[s], o)
           new == Result(blob[s], o)
           d0 == [bucket |-> BucketOf[s], delta |-> Xor(hash_blob(old), hash_blob(new))]
           H == Holders(b, tok)
           P == Phantoms(b, tok)
           O == Owed(b, tok)
<1>1. /\ TypeOK /\ new \in Contents /\ old \in Contents \cup {Absent}
      /\ pend[t] = {} /\ (s \in phantom => blob[s] # Absent)
  BY ResultType DEF Inv, Apply
<1>2. /\ blob' = [blob EXCEPT ![s] = new]
      /\ pend' = [pend EXCEPT ![t] = {d0}]
      /\ phantom' = IF Creates(blob[s], o) THEN phantom \cup {s} ELSE phantom
  BY DEF Apply
<1>3. tok \in d0.delta <=> old # new /\ tok \in {old, new}
  BY <1>1, StoreAssumption DEF Xor, hash_blob
<1>4. /\ IsFiniteSet(H) /\ Cardinality(H) \in Nat
      /\ IsFiniteSet(P) /\ Cardinality(P) \in Nat
      /\ IsFiniteSet(O) /\ Cardinality(O) \in Nat
  BY <1>1, Finite
<1>5. t \notin O
  BY <1>1 DEF Owed
<1>6. O' = IF BucketOf[s] = b /\ old # new /\ tok \in {old, new} THEN O \cup {t} ELSE O
  <2>1. \A u \in Threads : pend'[u] = IF u = t THEN {d0} ELSE pend[u]
    BY <1>1, <1>2 DEF TypeOK
  <2>2. d0.bucket = b /\ tok \in d0.delta <=> BucketOf[s] = b /\ old # new /\ tok \in {old, new}
    BY <1>3
  <2> HIDE DEF d0, old, new
  <2> QED
    BY <1>5, <2>1, <2>2 DEF Owed
<1>7. P' = IF Creates(blob[s], o) /\ BucketOf[s] = b /\ tok = NewObject THEN P \cup {s} ELSE P
  BY <1>2 DEF Phantoms
<1>8. H' = IF BucketOf[s] # b THEN H
           ELSE IF tok = new THEN H \cup {s} ELSE H \ {s}
  <2>1. \A u \in Slots : blob'[u] = IF u = s THEN new ELSE blob[u]
    BY <1>1, <1>2 DEF TypeOK
  <2> HIDE DEF old, new
  <2> QED
    BY <2>1 DEF Holders
<1>9. Sources(b, tok) = Cardinality(H) + Cardinality(P) + Cardinality(O)
      /\ Sources(b, tok)' = Cardinality(H') + Cardinality(P') + Cardinality(O')
  BY DEF Sources
<1>10. /\ s \in H <=> BucketOf[s] = b /\ blob[s] = tok
       /\ Creates(blob[s], o) => blob[s] = Absent /\ old = NewObject /\ s \notin H /\ s \notin P
       /\ ~Creates(blob[s], o) => blob[s] = old
       /\ tok # Absent
  BY <1>1, StoreAssumption DEF Holders, Phantoms, Creates, Found
<1> HIDE DEF old, new, H, P, O
<1>11. CASE BucketOf[s] # b
  BY <1>6, <1>7, <1>8, <1>9, <1>11
<1>12. CASE BucketOf[s] = b
  <2> DEFINE C == IF Creates(blob[s], o) THEN {s} ELSE {}
             n == Cardinality(H) + Cardinality(P)
             m == Cardinality(H') + Cardinality(P')
  <2>1. /\ C \in SUBSET {s}
        /\ C # {} => s \notin H /\ s \notin P
        /\ C = {} => (s \in H <=> tok = old)
        /\ P' = IF tok = old THEN P \cup C ELSE P
        /\ H' = IF tok = new THEN H \cup {s} ELSE H \ {s}
    BY <1>7, <1>8, <1>10, <1>12
  <2>2. /\ n \in Nat /\ m \in Nat
        /\ IF old # new /\ tok \in {old, new} THEN Odd(m) <=> ~Odd(n) ELSE Odd(m) <=> Odd(n)
    <3> DEFINE m2 == Cardinality(IF tok = new THEN H \cup {s} ELSE H \ {s})
                       + Cardinality(IF tok = old THEN P \cup C ELSE P)
    <3> HIDE DEF C
    <3>1. /\ n \in Nat /\ m2 \in Nat
          /\ IF old # new /\ tok \in {old, new}
             THEN Odd(m2) <=> ~Odd(n) ELSE Odd(m2) <=> Odd(n)
      BY <1>4, <2>1, MapParity
    <3>2. m = m2
      BY <2>1
    <3> QED
      BY <3>1, <3>2
  <2>3. Sources(b, tok) = n + Cardinality(O) /\ Sources(b, tok)' = m + Cardinality(O')
    BY <1>9
  <2> HIDE DEF C, n, m
  <2>4. CASE ~(old # new /\ tok \in {old, new})
    <3>1. O' = O
      BY <1>6, <2>4
    <3> QED
      BY <1>4, <2>2, <2>3, <2>4, <3>1 DEF Odd
  <2>5. CASE old # new /\ tok \in {old, new}
    <3>1. Cardinality(O') = Cardinality(O) + 1
      BY <1>4, <1>5, <1>6, <1>12, <2>5, CardAdd
    <3> QED
      BY <1>4, <2>2, <2>3, <2>5, <3>1 DEF Odd
  <2> QED
    BY <2>4, <2>5
<1> QED
  BY <1>11, <1>12

LEMMA ApplyInv ==
  ASSUME Inv, NEW t \in Threads, NEW s \in Slots, NEW o \in Ops, Apply(t, s, o)
  PROVE  Inv'
<1> DEFINE old == Found(blob[s], o)
           new == Result(blob[s], o)
           d0 == [bucket |-> BucketOf[s], delta |-> Xor(hash_blob(old), hash_blob(new))]
<1>1. /\ TypeOK /\ new \in Contents /\ old \in Contents \cup {Absent}
      /\ BucketOf[s] \in Buckets
  BY ResultType, StoreAssumption DEF Inv
<1>2. /\ blob' = [blob EXCEPT ![s] = new]
      /\ pend' = [pend EXCEPT ![t] = {d0}]
      /\ phantom' = IF Creates(blob[s], o) THEN phantom \cup {s} ELSE phantom
      /\ leaf' = leaf /\ writes' = writes + 1
  BY DEF Apply
<1>3. d0 \in PendingDelta
  BY <1>1 DEF PendingDelta, Xor, hash_blob
<1>4. TypeOK'
  <2> HIDE DEF old, new, d0
  <2>1. pend' \in [Threads -> SUBSET PendingDelta]
    BY <1>1, <1>2, <1>3 DEF TypeOK
  <2>2. \A u \in Threads : \A d, e \in pend'[u] : d = e
    BY <1>1, <1>2 DEF TypeOK
  <2>3. blob' \in [Slots -> Contents \cup {Absent}] /\ phantom' \subseteq Slots
    BY <1>1, <1>2 DEF TypeOK
  <2> QED
    BY <1>1, <1>2, <2>1, <2>2, <2>3 DEF TypeOK, PendingDelta
<1>5. \A u \in phantom' : blob'[u] # Absent
  <2> HIDE DEF old, new, d0
  <2> QED
    BY <1>1, <1>2, StoreAssumption DEF Inv, TypeOK
<1>6. LeafParity'
  <2> SUFFICES ASSUME NEW b \in Buckets, NEW tok \in Contents
               PROVE  tok \in leaf'[b] <=> Odd(Sources(b, tok)')
    BY DEF LeafParity, Odd
  <2>1. Odd(Sources(b, tok)') <=> Odd(Sources(b, tok))
    BY ApplyParity
  <2> QED
    BY <1>2, <2>1 DEF Inv, LeafParity
<1> QED
  BY <1>4, <1>5, <1>6 DEF Inv

LEMMA DeltaInv ==
  ASSUME Inv, NEW t \in Threads, Delta(t)
  PROVE  Inv'
<1>1. PICK d0 \in pend[t] : leaf' = [leaf EXCEPT ![d0.bucket] = Xor(@, d0.delta)]
  BY DEF Delta
<1>2. /\ pend' = [pend EXCEPT ![t] = {}]
      /\ UNCHANGED <<blob, phantom, writes>>
      /\ TypeOK /\ LeafParity
  BY DEF Delta, Inv
<1>3. /\ d0.bucket \in Buckets /\ d0.delta \subseteq Contents
      /\ \A d \in pend[t] : d = d0
  BY <1>2 DEF TypeOK, PendingDelta
<1>4. TypeOK'
  <2>1. leaf' \in [Buckets -> SUBSET Contents]
    BY <1>1, <1>2, <1>3 DEF TypeOK, Xor
  <2>2. pend' \in [Threads -> SUBSET PendingDelta]
    BY <1>2 DEF TypeOK
  <2> QED
    BY <1>2, <2>1, <2>2 DEF TypeOK, PendingDelta
<1>5. LeafParity'
  <2> SUFFICES ASSUME NEW b \in Buckets, NEW tok \in Contents
               PROVE  tok \in leaf'[b] <=> Odd(Sources(b, tok)')
    BY DEF LeafParity, Odd
  <2> DEFINE O == Owed(b, tok)
  <2>1. /\ Sources(b, tok) = Cardinality(Holders(b, tok)) + Cardinality(Phantoms(b, tok))
                               + Cardinality(O)
        /\ Sources(b, tok)' = Cardinality(Holders(b, tok)) + Cardinality(Phantoms(b, tok))
                               + Cardinality(O')
    BY <1>2 DEF Sources, Holders, Phantoms
  <2>2. /\ Cardinality(Holders(b, tok)) \in Nat /\ Cardinality(Phantoms(b, tok)) \in Nat
        /\ IsFiniteSet(O) /\ Cardinality(O) \in Nat
    BY <1>2, Finite
  <2>3. \A u \in Threads : pend'[u] = IF u = t THEN {} ELSE pend[u]
    BY <1>2 DEF TypeOK
  <2>4. O' = O \ {t} /\ (t \in O <=> d0.bucket = b /\ tok \in d0.delta)
    BY <1>3, <2>3 DEF Owed
  <2>5. tok \in leaf[b] <=> Odd(Sources(b, tok))
    BY <1>2 DEF LeafParity
  <2> HIDE DEF O
  <2>6. CASE t \in O
    <3>1. Cardinality(O') = Cardinality(O) - 1
      BY <2>2, <2>4, <2>6, CardRemove
    <3>2. tok \in leaf'[b] <=> tok \notin leaf[b]
      BY <1>1, <1>2, <1>3, <2>4, <2>6 DEF Xor, TypeOK
    <3> QED
      BY <2>1, <2>2, <2>5, <3>1, <3>2 DEF Odd
  <2>7. CASE t \notin O
    <3>1. O' = O
      BY <2>4, <2>7
    <3>2. tok \in leaf'[b] <=> tok \in leaf[b]
      BY <1>1, <1>2, <1>3, <2>4, <2>7 DEF Xor, TypeOK
    <3> QED
      BY <2>1, <2>5, <3>1, <3>2
  <2> QED
    BY <2>6, <2>7
<1> QED
  BY <1>2, <1>4, <1>5 DEF Inv

LEMMA ResetInv == ASSUME Reset PROVE Inv'
<1>1. TypeOK'
  BY DEF Reset, TypeOK, PendingDelta
<1>2. LeafParity'
  <2> SUFFICES ASSUME NEW b \in Buckets, NEW tok \in Contents
               PROVE  tok \in leaf'[b] <=> Odd(Sources(b, tok)')
    BY DEF LeafParity, Odd
  <2>1. Holders(b, tok)' = {} /\ Phantoms(b, tok)' = {} /\ Owed(b, tok)' = {}
    BY StoreAssumption DEF Reset, Holders, Phantoms, Owed
  <2>2. Sources(b, tok)' = 0
    BY <2>1, FS_EmptySet DEF Sources
  <2> QED
    BY <2>2 DEF Odd, Reset
<1> QED
  BY <1>1, <1>2 DEF Inv, Reset

LEMMA NextInv == Inv /\ [Next]_vars => Inv'
<1> SUFFICES ASSUME Inv, [Next]_vars PROVE Inv'
  OBVIOUS
<1>1. CASE \E t \in Threads, s \in Slots, o \in Ops : Apply(t, s, o)
  BY <1>1, ApplyInv
<1>2. CASE \E t \in Threads : Delta(t)
  BY <1>2, DeltaInv
<1>3. CASE Reset
  BY <1>3, ResetInv
<1>4. CASE UNCHANGED vars
  <2>1. TypeOK'
    BY <1>4 DEF Inv, vars, TypeOK, PendingDelta
  <2>2. LeafParity'
    BY <1>4 DEF Inv, vars, LeafParity, Sources, Holders, Phantoms, Owed, Odd
  <2> QED
    BY <1>4, <2>1, <2>2 DEF Inv, vars
<1> QED
  BY <1>1, <1>2, <1>3, <1>4 DEF Next

LEMMA AlwaysInv == Spec => []Inv
<1>1. Init => Inv
  BY EmptyInv DEF Init
<1> QED
  BY <1>1, NextInv, PTL DEF Spec

LEMMA InvSettled == Inv => SettledLeaf
<1> SUFFICES ASSUME Inv, \A t \in Threads : pend[t] = {},
                    NEW b \in Buckets, NEW tok \in Contents,
                    \A s \in phantom : BucketOf[s] # b
             PROVE  tok \in leaf[b] <=> Odd(Cardinality(Holders(b, tok)))
  BY DEF SettledLeaf
<1>1. Phantoms(b, tok) = {} /\ Owed(b, tok) = {}
  BY DEF Phantoms, Owed
<1>2. Cardinality(Holders(b, tok)) \in Nat
  BY Finite DEF Inv
<1>3. Sources(b, tok) = Cardinality(Holders(b, tok))
  BY <1>1, <1>2, FS_EmptySet DEF Sources
<1> QED
  BY <1>3 DEF Inv, LeafParity
-----------------------------------------------------------------------------
\* The flags that are clear in each phase, and what a visited shard keeps.
PhaseInv ==
  /\ phase \in {"idle", "l1", "l0"} => \A i \in L2 : ~l2_dirty[i]
  /\ phase # "l1" => \A i \in L1 : ~l1_dirty[i]
  /\ phase # "l0" => ~l0_dirty

ScanInv ==
  /\ phase = "shards" => \A i \in L3 : Up(i) \notin todo => l3[i] = Hash(scanned, i)
  /\ phase \in {"l2", "l1", "l0"} => \A i \in L3 : l3[i] = Hash(scanned, i)

TreeInv == TreeTypeOK /\ CleanIsExact /\ PhaseInv /\ ScanInv
-----------------------------------------------------------------------------
\* A node's hash depends on its own children only.
LEMMA HashLocal ==
  ASSUME NEW f, NEW g, NEW i, DOMAIN f = DOMAIN g,
         \A c \in DOMAIN f : Up(c) = i => f[c] = g[c]
  PROVE  Hash(f, i) = Hash(g, i)
<1>1. [c \in {c \in DOMAIN f : Up(c) = i} |-> f[c]]
        = [c \in {c \in DOMAIN g : Up(c) = i} |-> g[c]]
  OBVIOUS
<1> QED
  BY <1>1 DEF Hash

LEMMA ArrayDomain == ASSUME NEW S, NEW f, IsArray(f, S) PROVE DOMAIN f = S
  BY DEF IsArray

LEMMA Levels ==
  /\ \A b \in L4 : Up(b) \in L3
  /\ \A i \in L3 : Up(i) \in L2
  /\ \A i \in L2 : Up(i) \in L1
  BY DEF L3, L2, L1

LEMMA TreeInitInv == TreeInit => TreeInv
<1> SUFFICES ASSUME TreeInit PROVE TreeInv
  OBVIOUS
<1>1. TreeTypeOK
  BY DEF TreeInit, TreeTypeOK, IsArray, HashOf
<1>2. CleanIsExact
  BY DEF TreeInit, CleanIsExact, HashOf
<1> QED
  BY <1>1, <1>2 DEF TreeInit, TreeInv, PhaseInv, ScanInv

LEMMA TreeDeltaInv ==
  ASSUME TreeInv, NEW b \in L4, NEW delta, apply_delta(b, delta)
  PROVE  TreeInv'
<1> USE DEF TreeInv, apply_delta
<1>1. TreeTypeOK'
  <2>1. IsArray(leaves, L4)'
    <3>1. leaves = [c \in L4 |-> leaves[c]]
      BY DEF TreeTypeOK, IsArray
    <3>2. leaves' = [c \in L4 |-> 
                    IF c = b THEN (leaves[b] \ delta) \cup (delta \ leaves[b]) ELSE leaves[c]]
      BY <3>1
    <3> QED
      BY <3>2 DEF IsArray
  <2>2. l3_dirty' \in [L3 -> BOOLEAN]
    BY DEF TreeTypeOK
  <2> QED
    BY <2>1, <2>2 DEF TreeTypeOK, IsArray
<1>2. \A i \in L3 : ~l3_dirty'[i] => l3'[i] = Hash(leaves', i)
  <2> SUFFICES ASSUME NEW i \in L3, ~l3_dirty'[i] PROVE l3[i] = Hash(leaves', i)
    OBVIOUS
  <2>1. i # Up(b) /\ ~l3_dirty[i]
    BY Levels DEF TreeTypeOK
  <2>2. DOMAIN leaves = L4 /\ DOMAIN leaves' = L4
    BY <1>1, ArrayDomain DEF TreeTypeOK
  <2>3. \A c \in L4 : Up(c) = i => leaves[c] = leaves'[c]
    BY <2>1, <2>2
  <2>4. Hash(leaves, i) = Hash(leaves', i)
    BY <2>2, <2>3, HashLocal
  <2> QED
    BY <2>1, <2>4 DEF CleanIsExact
<1>3. CleanIsExact'
  BY <1>2 DEF CleanIsExact
<1> QED
  BY <1>1, <1>3 DEF PhaseInv, ScanInv

LEMMA BeginInv == TreeInv /\ BeginRoot => TreeInv'
<1> SUFFICES ASSUME TreeInv, BeginRoot PROVE TreeInv'
  OBVIOUS
<1>1. TreeTypeOK' /\ CleanIsExact'
  BY DEF TreeInv, BeginRoot, levels, flags, TreeTypeOK, IsArray, CleanIsExact
<1>2. PhaseInv'
  BY DEF TreeInv, BeginRoot, flags, PhaseInv
<1>3. ScanInv'
  BY Levels DEF TreeInv, BeginRoot, ScanInv
<1> QED
  BY <1>1, <1>2, <1>3 DEF TreeInv

LEMMA ScanShardInv == TreeInv /\ ScanShard => TreeInv'
<1> SUFFICES ASSUME TreeInv, ScanShard PROVE TreeInv'
  OBVIOUS
<1> DEFINE Stale(s) == {i \in L3 : Up(i) = s /\ l3_dirty[i]}
<1>1. PICK s \in todo :
        /\ phase = "shards"
        /\ l3' = [i \in L3 |-> IF i \in Stale(s) THEN Hash(leaves, i) ELSE l3[i]]
        /\ l3_dirty' = [i \in L3 |-> l3_dirty[i] /\ i \notin Stale(s)]
        /\ l2_dirty' = [l2_dirty EXCEPT ![s] = @ \/ Stale(s) # {}]
        /\ scanned' = [b \in L4 |-> IF Up(Up(b)) = s THEN leaves[b] ELSE scanned[b]]
        /\ todo' = todo \ {s}
        /\ phase' = IF todo' = {} THEN "l2" ELSE "shards"
  BY DEF ScanShard
<1>2. UNCHANGED <<leaves, l2, l1, l0, l1_dirty, l0_dirty>>
  BY DEF ScanShard
<1>3. s \in L2 /\ TreeTypeOK /\ CleanIsExact /\ PhaseInv /\ ScanInv
  BY DEF TreeInv, TreeTypeOK
<1> HIDE DEF Stale
<1>4. TreeTypeOK'
  <2>1. IsArray(leaves, L4)' /\ IsArray(scanned, L4)' /\ IsArray(l3, L3)'
        /\ IsArray(l2, L2)' /\ IsArray(l1, L1)'
    BY <1>1, <1>2, <1>3 DEF TreeTypeOK, IsArray
  <2>2. l3_dirty' \in [L3 -> BOOLEAN]
    BY <1>1, <1>3 DEF TreeTypeOK
  <2>3. l2_dirty' \in [L2 -> BOOLEAN]
    BY <1>1, <1>3 DEF TreeTypeOK
  <2>4. phase' \in {"idle", "shards", "l2", "l1", "l0"} /\ todo' \subseteq L2
    BY <1>1, <1>3 DEF TreeTypeOK
  <2> QED
    BY <1>2, <1>3, <2>1, <2>2, <2>3, <2>4 DEF TreeTypeOK
<1>5. \A i \in L3 : ~l3_dirty'[i] => l3'[i] = Hash(leaves', i)
  BY <1>1, <1>2, <1>3 DEF CleanIsExact, Stale
<1>6. \A i \in L2 : ~l2_dirty'[i] => l2'[i] = Hash(l3', i)
  <2> SUFFICES ASSUME NEW i \in L2, ~l2_dirty'[i] PROVE l2[i] = Hash(l3', i)
    BY <1>2
  <2>1. ~l2_dirty[i] /\ (i = s => Stale(s) = {})
    BY <1>1, <1>3 DEF TreeTypeOK
  <2>2. \A c \in L3 : Up(c) = i => l3[c] = l3'[c]
    BY <1>1, <2>1 DEF Stale
  <2>3. DOMAIN l3 = L3 /\ DOMAIN l3' = L3
    BY <1>3, <1>4, ArrayDomain DEF TreeTypeOK
  <2>4. Hash(l3, i) = Hash(l3', i)
    BY <2>2, <2>3, HashLocal
  <2> QED
    BY <1>3, <2>1, <2>4 DEF CleanIsExact
<1>7. CleanIsExact'
  BY <1>2, <1>3, <1>5, <1>6 DEF CleanIsExact
<1>8. PhaseInv'
  BY <1>1, <1>2, <1>3 DEF PhaseInv
<1>9. \A i \in L3 : Up(i) \notin todo' => l3'[i] = Hash(scanned', i)
  <2> SUFFICES ASSUME NEW i \in L3, Up(i) \notin todo' PROVE l3'[i] = Hash(scanned', i)
    OBVIOUS
  <2>1. DOMAIN leaves = L4 /\ DOMAIN scanned = L4 /\ DOMAIN scanned' = L4
    BY <1>3, <1>4, ArrayDomain DEF TreeTypeOK
  <2>2. CASE Up(i) = s
    <3>1. \A c \in L4 : Up(c) = i => leaves[c] = scanned'[c]
      BY <1>1, <2>2
    <3>2. Hash(leaves, i) = Hash(scanned', i)
      BY <2>1, <3>1, HashLocal
    <3>3. l3'[i] = Hash(leaves, i)
      BY <1>1, <1>3, <2>2 DEF Stale, CleanIsExact
    <3> QED
      BY <3>2, <3>3
  <2>3. CASE Up(i) # s
    <3>1. \A c \in L4 : Up(c) = i => scanned[c] = scanned'[c]
      BY <1>1, <2>3
    <3>2. Hash(scanned, i) = Hash(scanned', i)
      BY <2>1, <3>1, HashLocal
    <3>3. l3'[i] = l3[i] /\ Up(i) \notin todo
      BY <1>1, <2>3 DEF Stale
    <3> QED
      BY <1>1, <1>3, <3>2, <3>3 DEF ScanInv
  <2> QED
    BY <2>2, <2>3
<1>10. ScanInv'
  BY <1>1, <1>9 DEF ScanInv
<1> QED
  BY <1>4, <1>7, <1>8, <1>10 DEF TreeInv

LEMMA RehashL2Inv == TreeInv /\ RehashL2 => TreeInv'
<1> SUFFICES ASSUME TreeInv, RehashL2 PROVE TreeInv'
  OBVIOUS
<1> USE DEF RehashL2
<1>1. TreeTypeOK /\ CleanIsExact /\ PhaseInv /\ ScanInv
  BY DEF TreeInv
<1>2. TreeTypeOK'
  BY <1>1 DEF TreeTypeOK, IsArray
<1>3. \A i \in L2 : l2'[i] = Hash(l3', i)
  BY <1>1 DEF CleanIsExact
<1>4. \A i \in L1 : ~l1_dirty'[i] => l1'[i] = Hash(l2', i)
  <2> SUFFICES ASSUME NEW i \in L1, ~l1_dirty'[i] PROVE l1[i] = Hash(l2', i)
    OBVIOUS
  <2>1. ~l1_dirty[i] /\ \A c \in L2 : Up(c) = i => l2[c] = l2'[c]
    OBVIOUS
  <2>2. DOMAIN l2 = L2 /\ DOMAIN l2' = L2
    BY <1>1, <1>2, ArrayDomain DEF TreeTypeOK
  <2>3. Hash(l2, i) = Hash(l2', i)
    BY <2>1, <2>2, HashLocal
  <2> QED
    BY <1>1, <2>1, <2>3 DEF CleanIsExact
<1>5. CleanIsExact'
  BY <1>1, <1>3, <1>4 DEF CleanIsExact
<1>6. PhaseInv' /\ ScanInv'
  BY <1>1 DEF PhaseInv, ScanInv
<1> QED
  BY <1>2, <1>5, <1>6 DEF TreeInv

LEMMA RehashL1Inv == TreeInv /\ RehashL1 => TreeInv'
<1> SUFFICES ASSUME TreeInv, RehashL1 PROVE TreeInv'
  OBVIOUS
<1> USE DEF RehashL1
<1>1. TreeTypeOK /\ CleanIsExact /\ PhaseInv /\ ScanInv
  BY DEF TreeInv
<1>2. TreeTypeOK'
  BY <1>1 DEF TreeTypeOK, IsArray
<1>3. \A i \in L1 : l1'[i] = Hash(l2', i)
  BY <1>1 DEF CleanIsExact
<1>4. ~l0_dirty' => l0' = TopHash(l1')
  <2> SUFFICES ASSUME ~l0_dirty' PROVE l0 = TopHash(l1')
    OBVIOUS
  <2>1. ~l0_dirty /\ \A i \in L1 : l1'[i] = l1[i]
    OBVIOUS
  <2>2. l1' = l1
    BY <1>1, <1>2, <2>1 DEF TreeTypeOK, IsArray
  <2> QED
    BY <1>1, <2>1, <2>2 DEF CleanIsExact
<1>5. CleanIsExact'
  BY <1>1, <1>3, <1>4 DEF CleanIsExact
<1>6. PhaseInv' /\ ScanInv'
  BY <1>1 DEF PhaseInv, ScanInv
<1> QED
  BY <1>2, <1>5, <1>6 DEF TreeInv

LEMMA ReturnInv == TreeInv /\ ReturnRoot => TreeInv'
<1> SUFFICES ASSUME TreeInv, ReturnRoot PROVE TreeInv'
  OBVIOUS
<1> USE DEF ReturnRoot
<1>1. TreeTypeOK /\ CleanIsExact /\ PhaseInv /\ ScanInv
  BY DEF TreeInv
<1>2. TreeTypeOK'
  <2>1. IsArray(leaves, L4)' /\ IsArray(scanned, L4)' /\ IsArray(l3, L3)'
        /\ IsArray(l2, L2)' /\ IsArray(l1, L1)'
    BY <1>1 DEF TreeTypeOK, IsArray
  <2>2. l0_dirty' \in BOOLEAN
    BY Zenon
  <2>3. phase' = "idle"
    OBVIOUS
  <2> QED
    BY <1>1, <2>1, <2>2, <2>3 DEF TreeTypeOK
<1>3. CleanIsExact'
  <2>1. l0' = TopHash(l1)
    BY <1>1 DEF CleanIsExact
  <2>2. UNCHANGED <<leaves, l3, l2, l1, l3_dirty, l2_dirty, l1_dirty>>
    OBVIOUS
  <2> QED
    BY <1>1, <2>1, <2>2 DEF CleanIsExact
<1>4. PhaseInv' /\ ScanInv'
  BY <1>1 DEF PhaseInv, ScanInv
<1> QED
  BY <1>2, <1>3, <1>4 DEF TreeInv

LEMMA TreeResetInv == TreeReset => TreeInv'
<1> SUFFICES ASSUME TreeReset PROVE TreeInv'
  OBVIOUS
<1>1. TreeTypeOK'
  BY DEF TreeReset, TreeTypeOK, IsArray, HashOf
<1>2. CleanIsExact'
  BY DEF TreeReset, CleanIsExact, HashOf
<1> QED
  BY <1>1, <1>2 DEF TreeReset, TreeInv, PhaseInv, ScanInv

LEMMA TreeNextInv == TreeInv /\ [TreeNext]_treeVars => TreeInv'
<1> SUFFICES ASSUME TreeInv, [TreeNext]_treeVars PROVE TreeInv'
  OBVIOUS
<1>1. CASE \E b \in L4, d \in Deltas : apply_delta(b, d)
  BY <1>1, TreeDeltaInv
<1>2. CASE RootStep
  BY <1>2, BeginInv, ScanShardInv, RehashL2Inv, RehashL1Inv, ReturnInv DEF RootStep
<1>4. CASE TreeReset
  BY <1>4, TreeResetInv
<1>3. CASE UNCHANGED treeVars
  <2>1. TreeTypeOK' /\ CleanIsExact'
    BY <1>3 DEF TreeInv, treeVars, levels, flags, TreeTypeOK, IsArray, CleanIsExact
  <2>2. PhaseInv' /\ ScanInv'
    BY <1>3 DEF TreeInv, treeVars, levels, flags, PhaseInv, ScanInv
  <2> QED
    BY <2>1, <2>2 DEF TreeInv
<1> QED
  BY <1>1, <1>2, <1>3, <1>4 DEF TreeNext

LEMMA TreeAlwaysInv == TreeSpec => []TreeInv
  BY TreeInitInv, TreeNextInv, PTL DEF TreeSpec

\* If the levels above the leaves are exact, the top is the reference root.
LEMMA ExactLevels ==
  ASSUME TreeTypeOK, NEW below,
         \A i \in L3 : l3[i] = Hash(below, i),
         \A i \in L2 : l2[i] = Hash(l3, i),
         \A i \in L1 : l1[i] = Hash(l2, i)
  PROVE  TopHash(l1) = RootOf(below)
<1>1. l3 = HashOf(below, L3)
  BY DEF TreeTypeOK, IsArray, HashOf
<1>2. l2 = HashOf(l3, L2)
  BY DEF TreeTypeOK, IsArray, HashOf
<1>3. l1 = HashOf(l2, L1)
  BY DEF TreeTypeOK, IsArray, HashOf
<1> QED
  BY <1>1, <1>2, <1>3 DEF RootOf

LEMMA IdleRoot == TreeInv => IdleRootIsCurrent
<1> SUFFICES ASSUME TreeInv, phase = "idle", \A i \in L3 : ~l3_dirty[i]
             PROVE  l0 = RootOf(leaves)
  BY DEF IdleRootIsCurrent
<1>1. /\ \A i \in L3 : l3[i] = Hash(leaves, i)
      /\ \A i \in L2 : l2[i] = Hash(l3, i)
      /\ \A i \in L1 : l1[i] = Hash(l2, i)
      /\ l0 = TopHash(l1) /\ TreeTypeOK
  BY DEF TreeInv, CleanIsExact, PhaseInv
<1> QED
  BY <1>1, ExactLevels

LEMMA ReturnedRoot == TreeInv /\ ReturnRoot => l0' = RootOf(scanned)
<1> SUFFICES ASSUME TreeInv, ReturnRoot PROVE l0' = RootOf(scanned)
  OBVIOUS
<1>1. /\ \A i \in L3 : l3[i] = Hash(scanned, i)
      /\ \A i \in L2 : l2[i] = Hash(l3, i)
      /\ \A i \in L1 : l1[i] = Hash(l2, i)
      /\ (~l0_dirty => l0 = TopHash(l1)) /\ TreeTypeOK
  BY DEF TreeInv, CleanIsExact, PhaseInv, ScanInv, ReturnRoot
<1>2. l0' = TopHash(l1)
  BY <1>1 DEF ReturnRoot
<1> QED
  BY <1>1, <1>2, ExactLevels
-----------------------------------------------------------------------------
\* The maps with the whole tree behave as Store says, whose leaves are all
\* it knows of the tree: a step of get_root_hash changes none of its state.
THEOREM StorageIsStore == StorageSpec => Spec
<1>1. StorageInit => Init
  BY DEF StorageInit
<1>2. [StorageNext]_storageVars => [Next]_vars
  BY DEF StorageNext, storageVars, Write, Feed, get_merkle_root_hash, Restart, Next
<1> QED
  BY <1>1, <1>2, PTL DEF StorageSpec, Spec

LEMMA StorageAlwaysInv == StorageSpec => []Inv
  BY StorageIsStore, AlwaysInv, PTL

\* The tree sees nothing but calls of apply_delta on its buckets, and its
\* own recomputations.
THEOREM StorageIsTree == StorageSpec => TreeSpec
<1>1. StorageInit => TreeInit
  BY DEF StorageInit
<1>2. Inv /\ [StorageNext]_storageVars => [TreeNext]_treeVars
  <2> SUFFICES ASSUME Inv, [StorageNext]_storageVars PROVE [TreeNext]_treeVars
    OBVIOUS
  <2>1. CASE \E t \in Threads : Feed(t)
    <3>1. PICK t \in Threads : Feed(t)
      BY <2>1
    <3>2. PICK d \in pend[t] : apply_delta(d.bucket, d.delta)
      BY <3>1 DEF Feed
    <3>3. d.bucket \in L4 /\ d.delta \in Deltas
      BY StorageAssumption DEF Inv, TypeOK, PendingDelta
    <3> QED
      BY <3>2, <3>3 DEF TreeNext
  <2>2. CASE UNCHANGED storageVars
    BY <2>2 DEF storageVars
  <2>3. CASE get_merkle_root_hash \/ Restart
    BY <2>3 DEF get_merkle_root_hash, Restart, TreeNext
  <2>4. CASE \E t \in Threads, s \in Slots, o \in Ops : Write(t, s, o)
    BY <2>4 DEF Write
  <2> QED
    BY <2>1, <2>2, <2>3, <2>4 DEF StorageNext
<1> QED
  BY <1>1, <1>2, StorageAlwaysInv, PTL DEF StorageSpec, TreeSpec

LEMMA StorageAlwaysTree == StorageSpec => []TreeInv
  BY StorageIsTree, TreeAlwaysInv, PTL

\* Maps, leaves, pending deltas and the arrays of the tree keep their types.
THEOREM StorageTypeCorrect == StorageSpec => []StorageTypeOK
<1>1. Inv /\ TreeInv => StorageTypeOK
  BY DEF Inv, TreeInv, StorageTypeOK
<1> QED
  BY StorageAlwaysInv, StorageAlwaysTree, <1>1, PTL

\* At every moment each leaf is the XOR of the blobs in its bucket, of the
\* deltas under way and of the objects never stored: no interleaving of the
\* shard locks and the tree's locks loses or doubles a contribution.
THEOREM LeavesFollowMaps == StorageSpec => []LeafParity
<1>1. Inv => LeafParity
  BY DEF Inv
<1> QED
  BY StorageAlwaysInv, <1>1, PTL

\* When all deltas have been applied, the leaves are those of the contents.
THEOREM SettledLeaves == StorageSpec => []SettledLeaf
  BY StorageAlwaysInv, InvSettled, PTL

\* A clear dirty flag means an up-to-date node, whatever the fan-out, the
\* hash function and the writers running during a recomputation.
THEOREM CleanNodesAreExact == StorageSpec => []CleanIsExact
<1>1. TreeInv => CleanIsExact
  BY DEF TreeInv
<1> QED
  BY StorageAlwaysTree, <1>1, PTL

\* No write is lost from the tree: an idle tree without dirty buckets has
\* the root of its current leaves.
THEOREM IdleRootCurrent == StorageSpec => []IdleRootIsCurrent
  BY StorageAlwaysTree, IdleRoot, PTL

\* get_root_hash returns the from-scratch root of the leaves it scanned.
THEOREM RootIsOfScan == StorageSpec => RootOfScan
<1>1. TreeInv => [ReturnRoot => l0' = RootOf(scanned)]_treeVars
  BY ReturnedRoot
<1> QED
  BY StorageAlwaysTree, <1>1, PTL DEF RootOfScan
-----------------------------------------------------------------------------
\* Store's leaves are the tree's.
SameLeaves == leaves = [b \in L4 |-> IF b \in Buckets THEN leaf[b] ELSE {}]

LEMMA StorageAlwaysSame == StorageSpec => []SameLeaves
<1>1. StorageInit => SameLeaves
  BY DEF StorageInit, Init, TreeInit, SameLeaves
<1>2. Inv /\ SameLeaves /\ [StorageNext]_storageVars => SameLeaves'
  <2> SUFFICES ASSUME Inv, SameLeaves, [StorageNext]_storageVars PROVE SameLeaves'
    OBVIOUS
  <2>1. CASE \E t \in Threads : Feed(t)
    <3>1. PICK t \in Threads : Feed(t)
      BY <2>1
    <3>2. PICK d \in pend[t] : apply_delta(d.bucket, d.delta)
      BY <3>1 DEF Feed
    <3>3. d.bucket \in Buckets /\ d.bucket \in L4 /\ leaf \in [Buckets -> SUBSET Contents]
      BY StorageAssumption DEF Inv, TypeOK, PendingDelta
    <3>4. leaf' = [leaf EXCEPT ![d.bucket] = Xor(@, d.delta)]
      BY <3>1 DEF Feed, Delta, Inv, TypeOK
    <3>5. leaves' = [leaves EXCEPT ![d.bucket] = Xor(@, d.delta)]
      BY <3>2 DEF apply_delta, Xor
    <3> QED
      BY <3>3, <3>4, <3>5 DEF SameLeaves
  <2>2. CASE UNCHANGED storageVars
    BY <2>2 DEF storageVars, vars, treeVars, levels, SameLeaves
  <2>3. CASE get_merkle_root_hash
    <3>1. leaves' = leaves /\ leaf' = leaf
      BY <2>3 DEF get_merkle_root_hash, vars, RootStep, BeginRoot, levels, ScanShard,
                  RehashL2, RehashL1, ReturnRoot
    <3> QED
      BY <3>1 DEF SameLeaves
  <2>4. CASE \E t \in Threads, s \in Slots, o \in Ops : Write(t, s, o)
    BY <2>4 DEF Write, Apply, treeVars, levels, SameLeaves
  <2>5. CASE Restart
    BY <2>5 DEF Restart, Reset, TreeReset, SameLeaves
  <2> QED
    BY <2>1, <2>2, <2>3, <2>4, <2>5 DEF StorageNext
<1> QED
  BY <1>1, <1>2, StorageAlwaysInv, PTL DEF StorageSpec

\* The root of settled maps is a function of the blobs in them: it does not
\* depend on the order of the writes, nor on when roots were computed.
THEOREM RootFollowsMaps == StorageSpec => []RootOfMaps
<1>1. Inv /\ TreeInv /\ SameLeaves => RootOfMaps
  <2> SUFFICES ASSUME Inv, TreeInv, SameLeaves,
                      phase = "idle", \A i \in L3 : ~l3_dirty[i],
                      phantom = {}, \A t \in Threads : pend[t] = {}
               PROVE  l0 = RootOf(LeavesOfMaps)
    BY DEF RootOfMaps
  <2>1. \A b \in Buckets : leaf[b] \subseteq Contents
    BY DEF Inv, TypeOK
  <2>2. \A b \in Buckets, tok \in Contents :
          tok \in leaf[b] <=> Odd(Cardinality(Holders(b, tok)))
    BY InvSettled DEF SettledLeaf
  <2>3. \A b \in L4 : (IF b \in Buckets THEN leaf[b] ELSE {})
          = {tok \in Contents : b \in Buckets /\ Odd(Cardinality(Holders(b, tok)))}
    BY <2>1, <2>2
  <2>4. leaves = LeavesOfMaps
    BY <2>3 DEF SameLeaves, LeavesOfMaps
  <2> QED
    BY <2>4, IdleRoot DEF IdleRootIsCurrent
<1> QED
  BY StorageAlwaysInv, StorageAlwaysTree, StorageAlwaysSame, <1>1, PTL
=============================================================================
