----------------------------- MODULE HttpServer -----------------------------
(***************************************************************************)
(* The accept loop and the sessions of src/http/http_server.cpp, on the    *)
(* threads of ThreadPool.  A session reads a request, handles it on a      *)
(* thread inside ioc_.run(), writes the response and then reads on or      *)
(* closes.                                                                 *)
(*                                                                         *)
(* A request is what the branches of handle_request() tell apart.  The     *)
(* store is reduced to its log: how many writes it has taken and how many  *)
(* of them are on disk.                                                    *)
(***************************************************************************)
EXTENDS ThreadPool, FiniteSets

CONSTANTS
  Conns,       \* client connections
  Requests,    \* the requests clients send
  Owner,       \* Owner[k]: ring_->get_node(k), or 0 without a ring
  Self, Peers, \* self_node_id_ and the nodes of peers_
  MaxWrites    \* bound on the writes that clients send

\* method and target of the request line, the key, what the handler makes of
\* the rest ("bad": put() throws, when it has logged the write, or the
\* parsing of the value does; "missing" and "unknown": the parameters or the
\* op of a POST), and whether the client, which speaks HTTP/1.1, asks to
\* close the connection.
RequestType ==
  [method : {"GET", "PUT", "POST", "DELETE"}, target : {"page", "stat", "kv", "other"},
   key : DOMAIN Owner, body : {"good", "bad", "missing", "unknown"}, close : BOOLEAN]

ASSUME HttpAssumption ==
  IsFiniteSet(Conns) /\ Requests \subseteq RequestType /\ MaxWrites \in Nat

VARIABLES
  acceptor,    \* is an async_accept pending?
  session,     \* session[c]: where the connection stands
  request,     \* its latest request
  keep_alive,  \* keep_alive() of its latest response
  thread,      \* the thread that handles its request: "main", "pool" or "none"
  active,      \* active_connections of the metrics
  logged,      \* writes the log has taken
  durable,     \* how many of them are on disk
  acked,       \* how many it had taken when a write was last answered with 200
  failed       \* has the log reported an error?

poolVars == vars
sessionVars == <<acceptor, session, request, keep_alive, thread, active>>
storeVars == <<logged, durable, acked, failed>>
httpVars == <<poolVars, sessionVars, storeVars>>

NoRequest == [method |-> "none"]
Pooled == {c \in Conns : thread[c] = "pool"}

HttpInit ==
  /\ Init
  /\ acceptor = "pending"
  /\ session = [c \in Conns |-> "closed"]
  /\ request = [c \in Conns |-> NoRequest]
  /\ keep_alive = [c \in Conns |-> TRUE]
  /\ thread = [c \in Conns |-> "none"]
  /\ active = 0
  /\ logged = 0 /\ durable = 0 /\ acked = 0 /\ failed = FALSE
-----------------------------------------------------------------------------
\* What handle_request() makes of a request: the status (200 stands for a 404
\* to a GET too), whether the store is written, and whether the response takes
\* the keep-alive of the request.
Reply(status, writes, copies) == [status |-> status, writes |-> writes, copies |-> copies]

BadRequest == Reply(400, FALSE, FALSE)
Throws == Reply(0, FALSE, FALSE)
\* /dashboard and /cluster/map; /metrics, /kv/health and /kv/metrics.
Page == Reply(200, FALSE, FALSE)
Stats == Reply(200, FALSE, TRUE)
redirect_to_owner(k) == Reply(IF Owner[k] \in Peers THEN 307 ELSE 503, FALSE, FALSE)

handle_request(r) ==
  IF r.target # "kv" THEN
    CASE r.method # "GET" \/ r.target = "other" -> BadRequest
      [] r.method = "GET" /\ r.target = "page" -> Page
      [] r.method = "GET" /\ r.target = "stat" -> Stats
  ELSE IF r.method = "POST" /\ r.body = "missing" THEN BadRequest
  ELSE IF Owner[r.key] \notin {Self, 0} THEN redirect_to_owner(r.key)
  ELSE IF r.method = "GET" THEN Reply(200, FALSE, TRUE)
  ELSE IF r.method = "POST" /\ r.body = "unknown" THEN BadRequest
  ELSE IF r.method = "POST" /\ r.body = "bad" THEN Throws
  ELSE IF r.method = "PUT" /\ r.body = "bad" THEN Reply(400, TRUE, FALSE)
  ELSE Reply(200, TRUE, TRUE)

\* A client connects, sends a request when it is its turn, or hangs up.
Connect(c) ==
  /\ session[c] = "closed"
  /\ session' = [session EXCEPT ![c] = "backlog"]
  /\ UNCHANGED <<poolVars, acceptor, request, keep_alive, thread, active, storeVars>>

Send(c, r) ==
  /\ session[c] = "reading"
  /\ logged + Cardinality({d \in Conns : session[d] \in {"arrived", "handling"}}) < MaxWrites
  /\ session' = [session EXCEPT ![c] = "arrived"]
  /\ request' = [request EXCEPT ![c] = r]
  /\ UNCHANGED <<poolVars, acceptor, keep_alive, thread, active, storeVars>>

\* do_read() clears the request.
do_read(c) ==
  /\ session' = [session EXCEPT ![c] = "reading"]
  /\ request' = [request EXCEPT ![c] = NoRequest]
  /\ keep_alive' = [keep_alive EXCEPT ![c] = TRUE]

\* session() and its run().
Create(c) == do_read(c) /\ active' = active + 1

\* on_accept(): the session starts to read, and the next accept is pending.
on_accept(c) ==
  /\ Serving /\ acceptor = "pending" /\ session[c] = "backlog"
  /\ Create(c)
  /\ UNCHANGED <<poolVars, acceptor, thread, storeVars>>

\* on_accept() with an error returns without another do_accept().
AcceptError ==
  /\ Serving /\ acceptor = "pending" /\ acceptor' = "none"
  /\ UNCHANGED <<poolVars, session, request, keep_alive, thread, active, storeVars>>

\* The last reference to the session goes: ~session().
Destroy(c) ==
  /\ session' = [session EXCEPT ![c] = "closed"] /\ active' = active - 1
  /\ request' = [request EXCEPT ![c] = NoRequest]
  /\ keep_alive' = [keep_alive EXCEPT ![c] = TRUE]

\* on_read() with an error or the end of the stream.
ReadEnds(c) ==
  /\ Serving /\ session[c] = "reading" /\ Destroy(c)
  /\ UNCHANGED <<poolVars, acceptor, thread, storeVars>>

\* Threads inside ioc_.run() that are not inside a handler.
IdleMain == main = "run" /\ \A c \in Conns : thread[c] # "main"
IdlePool == workers > Cardinality(Pooled)

\* Mutant: sessions are served by the main thread alone.
ReadOnMain(c) ==
  /\ ~stopped /\ session[c] = "arrived"
  /\ session' = [session EXCEPT ![c] = "handling"]
  /\ IdleMain /\ thread' = [thread EXCEPT ![c] = "main"]
  /\ UNCHANGED <<poolVars, acceptor, request, keep_alive, active, storeVars>>

\* A thread takes on_read() of a session.
on_read(c) ==
  /\ ~stopped /\ session[c] = "arrived"
  /\ session' = [session EXCEPT ![c] = "handling"]
  /\ \/ IdleMain /\ thread' = [thread EXCEPT ![c] = "main"]
     \/ IdlePool /\ thread' = [thread EXCEPT ![c] = "pool"]
  /\ UNCHANGED <<poolVars, acceptor, request, keep_alive, active, storeVars>>

\* append(): the log takes the write, or refuses it with a message and no
\* more.
LogWrite ==
  \/ logged' = logged + 1 /\ UNCHANGED failed
  \/ failed' = TRUE /\ UNCHANGED logged

\* The end of handle_request(): the store is written, then send_response()
\* gives the response to the socket.
send_response(c) ==
  LET reply == handle_request(request[c]) IN
  /\ session[c] = "handling" /\ reply # Throws
  /\ session' = [session EXCEPT ![c] = "writing"]
  /\ thread' = [thread EXCEPT ![c] = "none"]
  /\ keep_alive' = [keep_alive EXCEPT ![c] = ~(reply.copies /\ request[c].close)]
  /\ IF reply.writes
     THEN LogWrite /\ acked' = IF reply.status = 200 THEN logged' ELSE acked
     ELSE UNCHANGED <<logged, acked, failed>>
  /\ UNCHANGED <<poolVars, acceptor, request, active, durable>>

\* Mutant: a session that ends here is not uncounted.
WriteUncounted(c) ==
  /\ Serving /\ session[c] = "writing"
  /\ \/ keep_alive[c] /\ do_read(c)
     \/ /\ session' = [session EXCEPT ![c] = "closed"]
        /\ UNCHANGED <<request, keep_alive>>
  /\ UNCHANGED <<poolVars, acceptor, thread, active, storeVars>>

\* on_write(): read on, or do_close(); after an error the session goes.
on_write(c) ==
  /\ Serving /\ session[c] = "writing"
  /\ \/ keep_alive[c] /\ do_read(c) /\ UNCHANGED active
     \/ Destroy(c)
  /\ UNCHANGED <<poolVars, acceptor, thread, storeVars>>

\* The conveyor writes out what the log has buffered.
Drain ==
  /\ durable < logged /\ durable' = durable + 1
  /\ UNCHANGED <<poolVars, sessionVars, logged, acked, failed>>

\* A step of the pool; only a thread that is not in a handler can leave.
PoolStep(A) ==
  /\ A
  /\ workers' < workers => IdlePool
  /\ main = "run" /\ main' # main => IdleMain
  /\ UNCHANGED <<sessionVars, storeVars>>

ClientStep(c) == Connect(c) \/ \E r \in Requests : Send(c, r)
SessionStep(c) == on_accept(c) \/ ReadEnds(c) \/ on_read(c) \/ send_response(c) \/ on_write(c)
=============================================================================
