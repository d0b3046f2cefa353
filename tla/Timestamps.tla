----------------------------- MODULE Timestamps -----------------------------
(***************************************************************************)
(* struct Timestamp of src/engine/clock.hpp: the version every write of    *)
(* the store carries, and its order.                                       *)
(***************************************************************************)
EXTENDS Naturals

Timestamp == [wall_time : Nat, logical : Nat, node_id : Nat]

Ts(w, l, n) == [wall_time |-> w, logical |-> l, node_id |-> n]

\* operator<: lexicographic on wall_time, logical, node_id.
Before(a, b) ==
  \/ a.wall_time < b.wall_time
  \/ a.wall_time = b.wall_time /\ a.logical < b.logical
  \/ /\ a.wall_time = b.wall_time
     /\ a.logical = b.logical
     /\ a.node_id < b.node_id

\* {0, 0, 0}: what apply_mutation and parse_meta use for "no timestamp".
ZeroTs == Ts(0, 0, 0)
=============================================================================
