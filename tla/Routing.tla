------------------------------- MODULE Routing ------------------------------
(***************************************************************************)
(* Sharded mode: main.cpp puts a node and the peers of its configuration   *)
(* on a consistent hash ring, and the sharding checks of handle_request()  *)
(* answer a request for a key of another node with a redirect to it.  A    *)
(* client follows redirects for one key.                                   *)
(*                                                                         *)
(* The ring is code of lite3.  Of it the model takes what makes hashing    *)
(* consistent: the owner on a ring is a node of the ring, and stays the    *)
(* owner on every smaller ring it is on.                                   *)
(***************************************************************************)
CONSTANT Nodes

Rings == (SUBSET Nodes) \ {{}}

VARIABLES
  peers,     \* peers[n]: the nodes in the configuration of n
  get_node,  \* get_node[r]: the owner of the key on ring r
  at,        \* the node the client asks
  visited,   \* the nodes it has asked for this request
  served     \* has the request been served?

routeVars == <<peers, get_node, at, visited, served>>

Consistent ==
  {g \in [Rings -> Nodes] :
     \A r \in Rings : g[r] \in r /\ \A s \in (SUBSET r) \ {{}} : g[r] \in s => g[s] = g[r]}

RouteInit ==
  /\ peers \in [Nodes -> SUBSET Nodes]
  /\ get_node \in Consistent
  /\ at \in Nodes /\ visited = {at} /\ served = FALSE

\* Mutant: a ring of peers only.
RingOfPeers(n) == IF peers[n] = {} THEN {n} ELSE peers[n]

Ring(n) == {n} \cup peers[n]
owner == get_node[Ring(at)]

\* Mutant: each key goes to the peer that follows.
PassOn ==
  /\ ~served /\ \E n \in Ring(at) \ {at} : at' = n
  /\ visited' = visited \cup {at'}
  /\ UNCHANGED <<peers, get_node, served>>

\* redirect_to_owner answers 307 to the owner; the client asks it.
FollowRedirect ==
  /\ ~served /\ owner # at
  /\ at' = owner /\ visited' = visited \cup {owner}
  /\ UNCHANGED <<peers, get_node, served>>

\* The node owns the key and answers.
Serve ==
  /\ ~served /\ owner = at /\ served' = TRUE
  /\ UNCHANGED <<peers, get_node, at, visited>>

\* The next request for the key, at any node.
Enter(n) ==
  /\ served /\ served' = FALSE /\ at' = n /\ visited' = {n}
  /\ UNCHANGED <<peers, get_node>>

RouteNext == FollowRedirect \/ Serve \/ \E n \in Nodes : Enter(n)

RouteSpec == RouteInit /\ [][RouteNext]_routeVars

\* The client follows redirects and nodes answer.
FairRouteSpec == RouteSpec /\ WF_routeVars(FollowRedirect) /\ WF_routeVars(Serve)
-----------------------------------------------------------------------------
\* Configuration, ring and client have their types.
RouteTypeOK ==
  /\ peers \in [Nodes -> SUBSET Nodes] /\ get_node \in Consistent
  /\ at \in Nodes /\ visited \in SUBSET Nodes /\ at \in visited
  /\ served \in BOOLEAN

\* Whatever peers the nodes are configured with, redirects never lead back
\* to a node that was asked before (redirect_to_owner).
NeverBack == [][~served /\ at' # at => at' \notin visited]_routeVars

\* Every request is served by some node.
Served == ~served ~> served
=============================================================================
