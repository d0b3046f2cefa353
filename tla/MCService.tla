------------------------------ MODULE MCService -----------------------------
(***************************************************************************)
(* Service with one or two connections.                                    *)
(***************************************************************************)
EXTENDS Service

CONSTANTS c1, c2
MCConns == {c1, c2}
MCConn == {c1}
MCOwner == [k \in {"here", "elsewhere"} |-> IF k = "here" THEN 1 ELSE 2]
MCPeers == {2}

Req(method, target, key, body, close) ==
  [method |-> method, target |-> target, key |-> key, body |-> body, close |-> close]

MCRequests ==
  {Req("PUT", "kv", "here", "good", TRUE), Req("POST", "kv", "here", "bad", FALSE),
   Req("GET", "kv", "elsewhere", "good", TRUE)}
MCWrites == {Req("PUT", "kv", "here", "good", FALSE)}
=============================================================================
