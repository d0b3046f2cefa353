------------------------------- MODULE Channel ------------------------------
(***************************************************************************)
(* What SyncManager takes for granted of the mesh: the messages from one   *)
(* node to another arrive unaltered, once at most and in the order they    *)
(* were sent; a break may lose the ones under way.                         *)
(***************************************************************************)
EXTENDS Naturals, Sequences

CONSTANTS Pairs, Messages

VARIABLES
  net,   \* net[p]: messages under way from p[1] to p[2]
  got    \* got[p]: messages handed to the callback of p[2]

vars == <<net, got>>

Init == net = [p \in Pairs |-> <<>>] /\ got = [p \in Pairs |-> <<>>]

Send(p, m) == net' = [net EXCEPT ![p] = Append(@, m)] /\ UNCHANGED got

Deliver(p) ==
  /\ net[p] # <<>>
  /\ net' = [net EXCEPT ![p] = Tail(@)]
  /\ got' = [got EXCEPT ![p] = Append(@, Head(net[p]))]

\* Connections break, and what was under way on them is lost.
Break(broken) ==
  /\ net' = [p \in Pairs |-> IF p \in broken THEN <<>> ELSE net[p]]
  /\ UNCHANGED got

Next ==
  \/ \E p \in Pairs : Deliver(p) \/ \E m \in Messages : Send(p, m)
  \/ \E broken \in SUBSET Pairs : Break(broken)

Spec == Init /\ [][Next]_vars
=============================================================================
