------------------------------- MODULE MCMesh -------------------------------
(***************************************************************************)
(* Mesh of two nodes.  In the larger runs only the first has the other as  *)
(* a peer: the connections of two directions share nothing but the         *)
(* acceptor.                                                               *)
(***************************************************************************)
EXTENDS Mesh

MCNodes == {1, 2}
MCOneWay == [n \in MCNodes |-> IF n = 1 THEN {2} ELSE {}]
MCMutual == [n \in MCNodes |-> MCNodes \ {n}]
=============================================================================
