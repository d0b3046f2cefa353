---------------------------- MODULE MCSyncManager ---------------------------
(***************************************************************************)
(* SyncManager with a tree of four buckets in two subtrees.                *)
(***************************************************************************)
EXTENDS SyncManager, TLC

CONSTANTS n1, n2, n3, k1, k2

TwoNodes == {n1, n2}
ThreeNodes == {n1, n2, n3}
ToFirst == [n \in Nodes |-> {n1} \ {n}]
Others == [n \in Nodes |-> Nodes \ {n}]
OneKey == {k1}
TwoKeys == {k1, k2}
\* The data of all keys share a bucket, their meta blobs another.
SharedBucket == [s \in Slots |-> IF s[2] = "data" THEN 0 ELSE Width[LeafLevel] - 1]
AllLanes == {"Control", "Heavy"}
ControlOnly == {"Control"}
PutDel == {"put", "del"}
PutOnly == {"put"}
PutPatch == {"put", "patch"}
=============================================================================
