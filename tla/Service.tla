------------------------------- MODULE Service ------------------------------
(***************************************************************************)
(* main() of src/main.cpp: the HTTP server beside the mesh threads that    *)
(* apply replicated mutations, and the way down after server.run() has     *)
(* returned: stop the gossip thread, stop and join the mesh threads, flush *)
(* the log, destroy the server and the store.                              *)
(***************************************************************************)
EXTENDS HttpServer

VARIABLES
  phase,      \* how far main() is
  applying,   \* mutations that mesh threads are applying
  late        \* were pool threads started after the join loop of run() began?

serviceVars == <<phase, applying, late>>
allVars == <<httpVars, serviceVars>>

CONSTANTS MeshThreads   \* mesh_threads

ASSUME ServiceAssumption == MeshThreads \in Nat

Alive == phase \notin {"exited", "aborted"}

ServiceInit == HttpInit /\ phase = "serving" /\ applying = 0 /\ late = FALSE

\* Threads the manager starts while run() already joins are never joined.
Pool(A) ==
  /\ Alive /\ PoolStep(A)
  /\ late' = (late \/ (main \in {"join", "done"} /\ workers' > workers))
  /\ UNCHANGED <<phase, applying>>

Http(A) == Alive /\ A /\ UNCHANGED serviceVars

\* An exception other than ThreadExit leaves ioc_.run() and the thread, and
\* the process is terminated.
Terminate(c) ==
  /\ Alive /\ session[c] = "handling" /\ handle_request(request[c]) = Throws
  /\ phase' = "aborted"
  /\ UNCHANGED <<httpVars, applying, late>>
-----------------------------------------------------------------------------
\* A mesh thread takes a PUT_VAL, and has applied it.
MeshTakes ==
  /\ phase \in {"serving", "sync stopped"}
  /\ applying < MeshThreads /\ logged + applying < MaxWrites
  /\ applying' = applying + 1
  /\ UNCHANGED <<httpVars, phase, late>>

MeshApplies ==
  /\ Alive /\ applying > 0 /\ applying' = applying - 1
  /\ LogWrite
  /\ UNCHANGED <<poolVars, sessionVars, durable, acked, phase, late>>

\* main() after server.run(): sync.stop(), io_context.stop().
SyncStops ==
  /\ phase = "serving" /\ main = "done" /\ phase' = "sync stopped"
  /\ UNCHANGED <<httpVars, applying, late>>

MeshStops ==
  /\ phase = "sync stopped" /\ phase' = "mesh stopped"
  /\ UNCHANGED <<httpVars, applying, late>>

\* All that is buffered goes to disk, or less with an error.
FlushLog ==
  \/ durable' = logged /\ UNCHANGED failed
  \/ failed' = TRUE /\ durable' \in durable .. logged

\* Mutant: the log is flushed before the mesh threads are joined.
FlushFirst ==
  /\ phase = "mesh stopped" /\ phase' = "flushed" /\ FlushLog
  /\ UNCHANGED <<poolVars, sessionVars, logged, acked, applying, late>>

\* The mesh threads are joined; db.flush().
Flush ==
  /\ phase = "mesh stopped" /\ applying = 0 /\ phase' = "flushed"
  /\ FlushLog
  /\ UNCHANGED <<poolVars, sessionVars, logged, acked, applying, late>>

\* The end of main(): the destructor of a thread that was not joined
\* terminates the process; otherwise the log writes out the rest and closes.
Exit ==
  /\ phase = "flushed"
  /\ \/ late /\ phase' = "aborted" /\ UNCHANGED <<durable, failed>>
     \/ ~late /\ phase' = "exited" /\ FlushLog
  /\ UNCHANGED <<poolVars, sessionVars, logged, acked, applying, late>>

MainStep == SyncStops \/ MeshStops \/ Flush \/ Exit

ServiceNext ==
  \/ Pool(run) \/ Pool(Cooldown) \/ Pool(TakePill) \/ Pool(Signal) \/ Pool(stop)
  \/ Pool(RunReturns) \/ Pool(Joined)
  \/ \E required \in 0 .. MaxRequired : Pool(manager_loop(required))
  \/ Http(AcceptError) \/ Http(Drain)
  \/ \E c \in Conns : Http(ClientStep(c)) \/ Http(SessionStep(c)) \/ Terminate(c)
  \/ MeshTakes \/ MeshApplies \/ MainStep

ServiceSpec == ServiceInit /\ [][ServiceNext]_allVars

\* Threads go on; ioc_ hands its handlers out first in, first out, so that a
\* session whose turn comes again and again is served.  Clients, signals,
\* ticks of the manager and the network owe nothing.
ServiceFairSpec ==
  /\ ServiceSpec
  /\ WF_allVars(Pool(run)) /\ WF_allVars(Pool(stop))
  /\ SF_allVars(Pool(TakePill)) /\ SF_allVars(Pool(RunReturns))
  /\ WF_allVars(Pool(Joined)) /\ WF_allVars(MeshApplies) /\ WF_allVars(MainStep)
  /\ \A c \in Conns :
       /\ WF_allVars(Http(on_accept(c))) /\ SF_allVars(Http(on_read(c)))
       /\ WF_allVars(Http(send_response(c)) \/ Terminate(c)) /\ WF_allVars(Http(on_write(c)))
-----------------------------------------------------------------------------
\* Sessions, threads and the log have the values the code gives them.
ServiceTypeOK ==
  /\ TypeOK
  /\ acceptor \in {"pending", "none"}
  /\ session \in [Conns -> {"closed", "backlog", "reading", "arrived", "handling", "writing"}]
  /\ request \in [Conns -> Requests \cup {NoRequest}]
  /\ keep_alive \in [Conns -> BOOLEAN]
  /\ thread \in [Conns -> {"none", "main", "pool"}]
  /\ active \in Nat /\ logged \in Nat /\ durable \in 0 .. logged
  /\ acked \in 0 .. logged /\ failed \in BOOLEAN
  /\ phase \in {"serving", "sync stopped", "mesh stopped", "flushed", "exited", "aborted"}
  /\ applying \in 0 .. MeshThreads /\ late \in BOOLEAN

\* active_connections, from which the manager predicts the load, counts the
\* session objects, however their connections ended (session, ~session).
ConnectionsCounted ==
  active = Cardinality({c \in Conns : session[c] \notin {"closed", "backlog"}})

\* When the log is flushed and the store then destroyed, no thread can touch
\* them any more, if run() has joined all threads of the pool (run, main);
\* and unless the log has reported an error, every write that was answered
\* with 200 is on disk.
QuietShutdown ==
  phase \in {"flushed", "exited"} /\ ~late =>
    /\ workers = 0 /\ applying = 0 /\ \A c \in Conns : session[c] # "handling"
    /\ ~failed => durable = logged /\ acked <= durable

\* A request that has been read is answered, and a client that connects is
\* taken, unless the server is stopped, fails to accept, or dies; resizing
\* the pool never leaves it waiting.
Answered ==
  \A c \in Conns :
    /\ session[c] \in {"arrived", "handling"} ~>
         session[c] \notin {"arrived", "handling"} \/ stopped \/ ~Alive
    /\ session[c] = "backlog" ~>
         session[c] # "backlog" \/ stopped \/ ~Alive \/ acceptor = "none"

\* Whatever requests are being handled and whatever the pool is doing, a
\* signal ends the process.
SignalEndsProcess == signal = "raised" ~> ~Alive

\* Wherever main() stands, the end of the process after a signal takes no
\* write that was answered with 200 (README: graceful shutdown).
GracefulKeepsWrites ==
  [][stopped /\ Exit /\ ~failed' => acked <= durable']_allVars

\* A client that asks to close its connection gets no further turn on it.
CloseHonoured ==
  [][\A c \in Conns : Http(on_write(c)) /\ request[c].close => session'[c] # "reading"]_allVars
=============================================================================
