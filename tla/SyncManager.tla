----------------------------- MODULE SyncManager ----------------------------
(***************************************************************************)
(* src/engine/sync_manager.hpp: nodes that compare their Merkle trees top  *)
(* down and pull the keys that differ.  A node that receives a root other  *)
(* than its own asks the sender for tree nodes, then for the keys of the   *)
(* buckets that differ, then for the values.                               *)
(*                                                                         *)
(* The mesh keeps the order of the messages from one node to another until *)
(* the connection between them breaks, which is for good: nothing dials    *)
(* again.  Lanes is AllLanes where a test wires the mesh, and "Control"    *)
(* behind the callback of main().  Operations of the engines are single    *)
(* steps here; clocks agree, and a write is known by its timestamp.        *)
(***************************************************************************)
EXTENDS Naturals, Sequences, FiniteSets

CONSTANTS
  Nodes, Keys,
  Peers,           \* the peers each node gossips with; all are connected
  Fan, LeafLevel,  \* 16 and 4
  BucketOf,
  Lanes,           \* lanes whose messages the mesh callback hands on
  ClientOps,       \* what clients do, of "put", "del", "patch"
  SameBody,        \* do all puts write the same bytes?
  MaxWrites, MaxBreaks, MaxSent   \* bounds

Slots == Keys \X {"data", "meta"}
Data(k) == <<k, "data">>
MetaOf(k) == <<k, "meta">>

\* The nodes of each level of the tree.
Width[level \in 0 .. LeafLevel] == IF level = 0 THEN 1 ELSE Fan * Width[level - 1]
Buckets == 0 .. Width[LeafLevel] - 1

ASSUME SyncAssumption ==
  /\ IsFiniteSet(Keys) /\ Peers \in [Nodes -> SUBSET Nodes] /\ BucketOf \in [Slots -> Buckets]
  /\ ClientOps \subseteq {"put", "del", "patch"} /\ SameBody \in BOOLEAN
  /\ Fan \in Nat \ {0} /\ LeafLevel \in Nat \ {0}
  /\ MaxWrites \in Nat /\ MaxBreaks \in Nat /\ MaxSent \in Nat

VARIABLES
  blob,      \* what each node's slots hold
  phantom,   \* slots whose leaf still has the hash of an object never stored
  snap,      \* the leaves of each node at its latest get_root_hash()
  net,       \* net[a][b]: messages from a to b
  reply,     \* on_get_val() calls between their two reads, per node
  newest,    \* history: what the latest write of a key left
  broken,    \* the connections <<a, b>> that have broken
  writes

syncVars == <<blob, phantom, snap, net, reply, newest, broken, writes>>

\* Blob contents.
Absent == <<"absent">>
NewObject == <<"object">>
Empty == <<"empty">>
Body(ts) == <<"body", IF SameBody THEN 0 ELSE ts>>
Meta(ts, dead) == <<"meta", ts, dead>>
Patched(c, ts) == IF c[1] \in {"body", "meta"} THEN Append(c, ts) ELSE <<"fields", ts>>

hash_blob(c) == IF c = Absent THEN {} ELSE {c}
TsOf(meta) == IF meta[1] = "meta" THEN meta[2] ELSE 0
IsTombstone(meta) == meta[1] = "meta" /\ meta[3]

\* The Merkle leaves: in each bucket the XOR of its blobs' hashes, and of the
\* objects apply_del and apply_patch created for keys that were absent.
Leaves(n) ==
  [b \in Buckets |->
     LET here == {s \in Slots : BucketOf[s] = b}
         ghosts == Cardinality(here \cap phantom[n])
         Count(c) == Cardinality({s \in here : blob[n][s] = c})
                       + IF c = NewObject THEN ghosts ELSE 0
     IN  {c \in {blob[n][s] : s \in here} \cup {NewObject} :
            c # Absent /\ Count(c) % 2 = 1}]

\* get_merkle_node: inner levels as of the latest get_root_hash, leaves live.
Under(level, i) == {b \in Buckets : b \div Width[LeafLevel - level] = i}
TreeNode(n, level, i) ==
  IF level = LeafLevel THEN Leaves(n)[i]
  ELSE [b \in Under(level, i) |-> snap[n][b]]
Children(i) == {i * Fan + j : j \in 0 .. Fan - 1}

LaneOf(type) ==
  IF type \in {"REP_BUCKET", "GET_VAL", "PUT_VAL"} THEN "Heavy" ELSE "Control"

SyncInit ==
  /\ blob = [n \in Nodes |-> [s \in Slots |-> Absent]]
  /\ phantom = [n \in Nodes |-> {}]
  /\ snap = [n \in Nodes |-> [b \in Buckets |-> {}]]
  /\ net = [a \in Nodes |-> [b \in Nodes |-> <<>>]]
  /\ reply = [n \in Nodes |-> {}]
  /\ newest = [k \in Keys |-> Absent]
  /\ broken = {} /\ writes = 0
-----------------------------------------------------------------------------
\* The engine of n stores d and m for key k; fresh are the slots that must
\* not be absent.
Store(n, k, d, m, fresh) ==
  /\ blob' = [blob EXCEPT ![n] = [@ EXCEPT ![Data(k)] = d, ![MetaOf(k)] = m]]
  /\ phantom' = [phantom EXCEPT ![n] = @ \cup {s \in fresh : blob[n][s] = Absent}]

\* A client writes at node n: Engine::put, del, patch_int and patch_str.
Write(n, k, op) ==
  LET ts == writes + 1
      old == blob[n]
      d == CASE op = "put" -> Body(ts) [] op = "del" -> Empty
             [] op = "patch" -> Patched(old[Data(k)], ts)
      m == CASE op = "put" -> Meta(ts, FALSE) [] op = "del" -> Meta(ts, TRUE)
             [] op = "patch" -> Patched(old[MetaOf(k)], ts)
  IN
  /\ writes < MaxWrites /\ writes' = ts
  /\ Store(n, k, d, m, CASE op = "put" -> {} [] op = "del" -> {Data(k)}
                         [] op = "patch" -> {Data(k), MetaOf(k)})
  /\ newest' = [newest EXCEPT ![k] = d]
  /\ UNCHANGED <<snap, net, reply, broken>>

\* Messages and half-done answers between two nodes.
UnderWay(n, m) ==
  Len(net[n][m]) + Len(net[m][n])
    + Cardinality({r \in reply[n] : r.to = m} \cup {r \in reply[m] : r.to = n})

\* What mesh_.send() adds to the messages under way from a to b.
Sent(a, b, msgs) == IF <<a, b>> \in broken THEN <<>> ELSE msgs

\* trigger_gossip: get_root_hash() and SYNC_INIT.
Gossip(n, to) ==
  /\ to \in Peers[n] /\ UnderWay(n, to) < MaxSent
  /\ snap' = [snap EXCEPT ![n] = Leaves(n)]
  /\ net' = [net EXCEPT ![n][to] = @ \o Sent(n, to, <<[type |-> "INIT", root |-> Leaves(n)]>>)]
  /\ UNCHANGED <<blob, phantom, reply, newest, broken, writes>>

\* The messages that a handler sends, one for each element of S, in some order.
Listing(S) ==
  CHOOSE f \in [1 .. Cardinality(S) -> S] : \A i, j \in DOMAIN f : f[i] = f[j] => i = j
InOrder(S, Msg(_)) == [i \in 1 .. Cardinality(S) |-> Msg(Listing(S)[i])]
ReqNode(level, parent) == [type |-> "REQ_NODE", level |-> level, parent |-> parent]

\* The handler of message m at n takes it off the mesh and sends msgs back.
Answer(from, n, msgs) ==
  net' = [a \in Nodes |-> [b \in Nodes |->
            LET left == IF a = from /\ b = n THEN Tail(net[a][b]) ELSE net[a][b]
            IN  IF a = n /\ b = from THEN left \o Sent(a, b, msgs) ELSE left]]

on_sync_init(n, from, m) ==
  /\ snap' = [snap EXCEPT ![n] = Leaves(n)]
  /\ Answer(from, n, IF Leaves(n) = m.root THEN <<>> ELSE <<ReqNode(1, 0)>>)
  /\ UNCHANGED <<blob, phantom, reply>>

on_req_node(n, from, m) ==
  /\ Answer(from, n,
       <<[type |-> "REP_NODE", level |-> m.level, parent |-> m.parent,
          hashes |-> [i \in Children(m.parent) |-> TreeNode(n, m.level, i)]]>>)
  /\ UNCHANGED <<blob, phantom, snap, reply>>

\* Mutant: one level too deep.
IsLeafLate(level) == level > LeafLevel

IsLeaf(level) == level = LeafLevel

on_rep_node(n, from, m) ==
  LET differ == {i \in Children(m.parent) : TreeNode(n, m.level, i) # m.hashes[i]}
      Ask(i) == IF IsLeaf(m.level) THEN [type |-> "REQ_BUCKET", bucket |-> i]
                ELSE ReqNode(m.level + 1, i)
  IN
  /\ Answer(from, n, InOrder(differ, Ask))
  /\ UNCHANGED <<blob, phantom, snap, reply>>

\* The keys of the bucket with their hashes; ":meta" keys are left out.
on_req_bucket(n, from, m) ==
  LET keys == {k \in Keys : BucketOf[Data(k)] = m.bucket /\ blob[n][Data(k)] # Absent}
  IN
  /\ Answer(from, n, <<[type |-> "REP_BUCKET",
                        hashes |-> [k \in keys |-> hash_blob(blob[n][Data(k)])]]>>)
  /\ UNCHANGED <<blob, phantom, snap, reply>>

\* Mutant: only keys that this node has are asked for.
WantedKnown(mine, theirs) == mine # {} /\ mine # theirs

Wanted(mine, theirs) == mine # theirs

on_rep_bucket(n, from, m) ==
  LET Mine(k) == IF blob[n][Data(k)] = Empty THEN {} ELSE hash_blob(blob[n][Data(k)])
      Ask(k) == [type |-> "GET_VAL", key |-> k]
  IN
  /\ Answer(from, n, InOrder({k \in DOMAIN m.hashes : Wanted(Mine(k), m.hashes[k])}, Ask))
  /\ UNCHANGED <<blob, phantom, snap, reply>>

\* on_get_val reads the meta blob ...
on_get_val(n, from, m) ==
  LET meta == blob[n][MetaOf(m.key)] IN
  /\ reply' = IF meta = Absent THEN reply
              ELSE [reply EXCEPT ![n] = @ \cup {[to |-> from, key |-> m.key, meta |-> meta]}]
  /\ Answer(from, n, <<>>)
  /\ UNCHANGED <<blob, phantom, snap>>

\* ... and then, in a second locked section, the data.
SendVal(n) ==
  /\ \E r \in reply[n] :
       /\ net' = [net EXCEPT ![n][r.to] = @ \o Sent(n, r.to,
            <<[type |-> "PUT_VAL", key |-> r.key, meta |-> r.meta,
               val |-> blob[n][Data(r.key)]]>>)]
       /\ reply' = [reply EXCEPT ![n] = @ \ {r}]
  /\ UNCHANGED <<blob, phantom, snap, newest, broken, writes>>

\* Mutant: every mutation is applied.
NeverStale(ts, local) == FALSE

\* m.timestamp <= local_ts.
Stale(ts, local) == ts <= local

\* on_put_val, parse_meta and Engine::apply_mutation.
on_put_val(n, from, m) ==
  LET ts == TsOf(m.meta)
      dead == IsTombstone(m.meta)
      bytes == IF m.val = Absent THEN Empty ELSE m.val
  IN
  /\ IF Stale(ts, TsOf(blob[n][MetaOf(m.key)])) THEN UNCHANGED <<blob, phantom>>
     ELSE Store(n, m.key, IF dead THEN Empty ELSE bytes, Meta(ts, dead),
                IF dead THEN {Data(m.key)} ELSE {})
  /\ Answer(from, n, <<>>)
  /\ UNCHANGED <<snap, reply>>

\* handle_message, behind the filter of the mesh callback.  A connection's
\* next message waits for the handler of the one before.
handle_message(n, from) ==
  LET m == Head(net[from][n]) IN
  /\ net[from][n] # <<>> /\ \A r \in reply[n] : r.to # from
  /\ IF LaneOf(m.type) \notin Lanes
     THEN Answer(from, n, <<>>) /\ UNCHANGED <<blob, phantom, snap, reply>>
     ELSE CASE m.type = "INIT" -> on_sync_init(n, from, m)
            [] m.type = "REQ_NODE" -> on_req_node(n, from, m)
            [] m.type = "REP_NODE" -> on_rep_node(n, from, m)
            [] m.type = "REQ_BUCKET" -> on_req_bucket(n, from, m)
            [] m.type = "REP_BUCKET" -> on_rep_bucket(n, from, m)
            [] m.type = "GET_VAL" -> on_get_val(n, from, m)
            [] m.type = "PUT_VAL" -> on_put_val(n, from, m)
  /\ UNCHANGED <<newest, broken, writes>>

\* A connection breaks and takes with it what is under way; do_write() leaves
\* later messages in the outbox.
Break(a, b) ==
  /\ a # b /\ <<a, b>> \notin broken /\ Cardinality(broken) < MaxBreaks
  /\ broken' = broken \cup {<<a, b>>}
  /\ net' = [net EXCEPT ![a][b] = <<>>]
  /\ UNCHANGED <<blob, phantom, snap, reply, newest, writes>>

SyncNext ==
  \/ \E n \in Nodes, k \in Keys, op \in ClientOps : Write(n, k, op)
  \/ \E n, m \in Nodes : Gossip(n, m) \/ handle_message(n, m) \/ Break(n, m)
  \/ \E n \in Nodes : SendVal(n)

SyncSpec == SyncInit /\ [][SyncNext]_syncVars

\* Messages that are delivered are handled, calls that have begun end, and
\* the loop that draws a random peer every two seconds draws each of them
\* again and again.
Fairness ==
  /\ \A n, m \in Nodes : WF_syncVars(handle_message(n, m)) /\ SF_syncVars(Gossip(n, m))
  /\ \A n \in Nodes : WF_syncVars(SendVal(n))

FairSpec == SyncSpec /\ Fairness
-----------------------------------------------------------------------------
\* Requests stay inside the tree: get_merkle_node reads its arrays unchecked.
SyncTypeOK ==
  /\ \A n \in Nodes : DOMAIN blob[n] = Slots /\ phantom[n] \subseteq Slots
                       /\ DOMAIN snap[n] = Buckets
  /\ \A a, b \in Nodes : \A i \in DOMAIN net[a][b] :
       LET m == net[a][b][i] IN
       /\ m.type \in {"REQ_NODE", "REP_NODE"} =>
            /\ m.level \in 1 .. LeafLevel
            /\ Children(m.parent) \subseteq 0 .. Width[m.level] - 1
       /\ m.type = "REQ_BUCKET" => m.bucket \in Buckets
       /\ m.type \in {"GET_VAL", "PUT_VAL"} => m.key \in Keys

IsPut(c) == c[1] = "body"

\* Of two nodes, neither goes back from what a put has left to an older put,
\* although answers of several rounds arrive late and overlap with writes
\* and connections break.  (A third node may receive a new value with an old
\* timestamp from the two reads of on_get_val, and then does.)
NeverOlder ==
  [][\A n \in Nodes, k \in Keys :
       LET old == blob[n][Data(k)]  new == blob'[n][Data(k)] IN
       IsPut(old) /\ IsPut(new) => old[2] <= new[2]]_syncVars

Shown(c) == IF c = Absent THEN Empty ELSE c

\* Once clients stop writing, every node shows what the latest write of each
\* key left, for good, unless a connection breaks.
Converges ==
  [](broken = {}) =>
    <>[](\A n \in Nodes, k \in Keys : Shown(blob[n][Data(k)]) = Shown(newest[k]))

\* ... and the trees of the nodes agree, so that no more keys are requested.
TreesAgree == <>[](\A n, m \in Nodes : Leaves(n) = Leaves(m))
=============================================================================
