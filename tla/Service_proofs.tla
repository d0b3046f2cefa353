--------------------------- MODULE Service_proofs ---------------------------
(***************************************************************************)
(* For every configuration, every set of connections and every load.       *)
(*                                                                         *)
(* First the pool alone: n_threads_ and the pills account for the threads  *)
(* inside ioc_.run(), and pills never empty the pool.  Accounted is        *)
(* inductive together with the type invariant (n_threads_ is at least 1)   *)
(* and what holds before run() (StartInv).                                 *)
(*                                                                         *)
(* Then the service: the server runs its pool as ThreadPool says,          *)
(* active_connections counts the sessions, and once the log has been       *)
(* flushed no thread of the process touches the store any more if run()    *)
(* has joined its threads.                                                 *)
(*                                                                         *)
(* QuietShutdown needs to know what main() has waited for: the threads of  *)
(* the pool that serve (ThreadInv), those the join loop left (JoinInv),    *)
(* and the mesh threads (PhaseInv).                                        *)
(*                                                                         *)
(* Last, sharded mode: redirects never lead back, for any nodes,           *)
(* configurations and ring.  The invariant is that the node asked is the   *)
(* owner among all nodes asked (BestSoFar): a redirect leads to a node     *)
(* that beats the present one, and so all.                                 *)
(***************************************************************************)
EXTENDS Service, Routing, FiniteSetTheorems, TLAPS

\* Nothing runs before run().
StartInv == main = "start" => workers = 0 /\ awaited = 0 /\ pills = 0 /\ ~stopped

Inv == TypeOK /\ Accounted /\ StartInv

USE PoolAssumption DEF stopped
-----------------------------------------------------------------------------
\* The constructor leaves 1 <= min_threads_ <= max_threads_.
LEMMA Bounds ==
  /\ MinThreads \in Nat /\ MaxThreads \in Nat
  /\ 1 <= MinThreads /\ MinThreads <= MaxThreads
  BY DEF MinThreads, MaxThreads

\* The manager aims at a size between the two bounds.
LEMMA TargetType ==
  ASSUME NEW required \in Nat, n_threads \in Nat
  PROVE  Target(required) \in MinThreads .. MaxThreads
  BY Bounds DEF Target, Clamped

\* Resizing keeps the balance of threads, n_threads_ and pills.
LEMMA Resize ==
  ASSUME NEW target \in MinThreads .. MaxThreads, n_threads \in Nat, n_threads >= 1,
         workers \in Nat, pills \in Nat, adjust_pool_size(target)
  PROVE  /\ n_threads' = target /\ workers' \in Nat /\ workers' >= workers /\ pills' \in Nat
         /\ workers' - n_threads' - pills' = workers - n_threads - pills
  BY Bounds DEF adjust_pool_size

LEMMA InitInv == Init => Inv
<1>1. Init => recent \in BOOLEAN
  BY Zenon DEF Init
<1> QED
  BY <1>1 DEF Init, Inv, TypeOK, Accounted, StartInv

LEMMA NextInv == Inv /\ [Next]_vars => Inv'
<1> SUFFICES ASSUME Inv, [Next]_vars PROVE Inv'
  OBVIOUS
<1> USE DEF Inv, TypeOK, Accounted, StartInv, InRun
<1>1. CASE run
  <2>1. MinThreads \in MinThreads .. MaxThreads
    BY Bounds
  <2>2. /\ n_threads' = MinThreads /\ workers' \in Nat /\ workers' >= workers /\ pills' \in Nat
        /\ workers' - n_threads' - pills' = workers - n_threads - pills
    BY <1>1, <2>1, Resize DEF run
  <2> QED
    BY <1>1, <2>1, <2>2 DEF run
<1>2. ASSUME NEW required \in 0 .. MaxRequired, manager_loop(required) PROVE Inv'
  <2>1. main # "start" /\ n_threads \in Nat /\ n_threads >= 1
    BY <1>2, Bounds DEF manager_loop, Serving
  <2>2. Target(required) \in MinThreads .. MaxThreads
    BY <2>1, TargetType
  <2>3. /\ n_threads' = Target(required) /\ workers' \in Nat /\ workers' >= workers /\ pills' \in Nat
        /\ workers' - n_threads' - pills' = workers - n_threads - pills
    BY <1>2, <2>1, <2>2, Resize DEF manager_loop
  <2> QED
    BY <1>2, <2>1, <2>2, <2>3, Bounds DEF manager_loop
<1>3. CASE Cooldown
  BY <1>3 DEF Cooldown
<1>4. CASE TakePill
  BY <1>4 DEF TakePill, Leave
<1>5. CASE Signal
  BY <1>5 DEF Signal
<1>6. CASE stop
  BY <1>6 DEF stop
<1>7. CASE RunReturns
  BY <1>7 DEF RunReturns, Leave
<1>8. CASE Joined
  BY <1>8, Bounds DEF Joined
<1>9. CASE UNCHANGED vars
  BY <1>9 DEF vars
<1> QED
  BY <1>1, <1>2, <1>3, <1>4, <1>5, <1>6, <1>7, <1>8, <1>9 DEF Next

LEMMA AlwaysInv == Spec => []Inv
  BY InitInv, NextInv, PTL DEF Spec

\* n_threads_ stays between the corrected bounds of the configuration.
THEOREM PoolTypeCorrect == Spec => []TypeOK
<1>1. Inv => TypeOK
  BY DEF Inv
<1> QED
  BY <1>1, AlwaysInv, PTL

\* adjust_pool_size keeps its count right whichever threads take the pills.
THEOREM ThreadsAreAccounted == Spec => []Accounted
<1>1. Inv => Accounted
  BY DEF Inv
<1> QED
  BY <1>1, AlwaysInv, PTL

\* Until a signal is handled some thread is there to run handlers.
THEOREM PoolStaysUp == Spec => []StaysUp
<1>1. Inv => StaysUp
  BY Bounds DEF Inv, TypeOK, Accounted, StaysUp
<1> QED
  BY <1>1, AlwaysInv, PTL

HIDE PoolAssumption DEF stopped
-----------------------------------------------------------------------------

Open == {c \in Conns : session[c] \notin {"closed", "backlog"}}

\* A session is in a handler exactly while a thread is; that thread is still
\* inside ioc_.run().
ThreadInv ==
  /\ \A c \in Conns : session[c] = "handling" <=> thread[c] # "none"
  /\ \A c \in Conns : thread[c] = "main" => main = "run"
  /\ Cardinality(Pooled) <= workers

\* The join loop waits for every pool thread that was not started late.
JoinInv ==
  /\ main \in {"join", "done"} /\ ~late => workers = awaited
  /\ main = "done" => awaited = 0

Down == {"flushed", "exited"}

PhaseInv ==
  /\ phase \notin {"serving", "aborted"} => main = "done"
  /\ phase \in Down => applying = 0
  /\ phase \in Down /\ ~late /\ ~failed => durable = logged

SInv == ServiceTypeOK /\ ThreadInv /\ JoinInv /\ PhaseInv /\ ConnectionsCounted
-----------------------------------------------------------------------------
\* What the sessions add to the pool only removes behaviours of it.
THEOREM ServiceRunsPool == ServiceSpec => Spec
<1>1. ServiceInit => Init
  BY DEF ServiceInit, HttpInit
<1>2. [ServiceNext]_allVars => [Next]_vars
  <2> SUFFICES ASSUME [ServiceNext]_allVars PROVE [Next]_vars
    OBVIOUS
  <2>1. ASSUME NEW c \in Conns, Http(ClientStep(c)) \/ Http(SessionStep(c)) \/ Terminate(c)
        PROVE  UNCHANGED vars
    BY <2>1 DEF Http, ClientStep, SessionStep, Terminate, httpVars, poolVars, Connect, Send,
         on_accept, Create, ReadEnds, on_read, send_response, on_write
  <2>2. ASSUME Http(AcceptError) \/ Http(Drain) PROVE UNCHANGED vars
    BY <2>2 DEF Http, AcceptError, Drain, poolVars
  <2>3. ASSUME MeshTakes \/ MeshApplies \/ MainStep PROVE UNCHANGED vars
    BY <2>3 DEF MeshTakes, MeshApplies, MainStep, SyncStops, MeshStops, Flush, Exit,
         httpVars, poolVars
  <2>4. ASSUME NEW required \in 0 .. MaxRequired, Pool(manager_loop(required)) PROVE Next
    BY <2>4 DEF Pool, PoolStep, Next
  <2>5. ASSUME \/ Pool(run) \/ Pool(Cooldown) \/ Pool(TakePill) \/ Pool(Signal)
               \/ Pool(stop) \/ Pool(RunReturns) \/ Pool(Joined)
        PROVE  Next
    BY <2>5 DEF Pool, PoolStep, Next
  <2>6. CASE UNCHANGED allVars
    BY <2>6 DEF allVars, httpVars, poolVars
  <2> QED
    BY <2>1, <2>2, <2>3, <2>4, <2>5, <2>6 DEF ServiceNext
<1> QED
  BY <1>1, <1>2, PTL DEF ServiceSpec, Spec

LEMMA PoolInv == ServiceSpec => []Inv
  BY ServiceRunsPool, AlwaysInv, PTL
-----------------------------------------------------------------------------
LEMMA Counts ==
  /\ IsFiniteSet(Pooled) /\ Cardinality(Pooled) \in Nat
  /\ IsFiniteSet(Open) /\ Cardinality(Open) \in Nat
<1>1. Pooled \in SUBSET Conns /\ Open \in SUBSET Conns
  BY DEF Pooled, Open
<1> QED
  BY <1>1, HttpAssumption, FS_Subset, FS_CardinalityType

\* The counters of the store as numbers.
LEMMA Numbers ==
  ASSUME ServiceTypeOK
  PROVE  /\ logged \in Nat /\ durable \in Nat /\ acked \in Nat /\ applying \in Nat
         /\ durable <= logged /\ acked <= logged /\ applying <= MeshThreads
<1>1. /\ logged \in Nat /\ durable \in 0 .. logged /\ acked \in 0 .. logged
      /\ applying \in 0 .. MeshThreads
  BY DEF ServiceTypeOK
<1> QED
  BY <1>1, ServiceAssumption

LEMMA InitSInv == ServiceInit => SInv
<1> SUFFICES ASSUME ServiceInit PROVE SInv
  OBVIOUS
<1>1. Inv
  BY InitInv DEF ServiceInit, HttpInit
<1>2. Pooled = {} /\ Open = {}
  BY DEF ServiceInit, HttpInit, Pooled, Open
<1>3. keep_alive \in [Conns -> BOOLEAN] /\ late \in BOOLEAN /\ failed \in BOOLEAN
  BY Zenon DEF ServiceInit, HttpInit
<1>4. ServiceTypeOK
  BY <1>1, <1>3, ServiceAssumption DEF ServiceInit, HttpInit, ServiceTypeOK, Inv
<1>5. ThreadInv /\ ConnectionsCounted
  BY <1>1, <1>2, FS_EmptySet DEF ServiceInit, HttpInit, ThreadInv, ConnectionsCounted, Open, Inv, TypeOK
<1>6. JoinInv /\ PhaseInv
  BY DEF ServiceInit, HttpInit, Init, JoinInv, PhaseInv, Down
<1> QED
  BY <1>4, <1>5, <1>6 DEF SInv

\* What a step of the pool does to the threads that are left.
LEMMA PoolEffect ==
  ASSUME Inv, Inv', JoinInv, Next,
         ~late' => ~late /\ ~(main \in {"join", "done"} /\ workers' > workers)
  PROVE  workers' >= workers - 1 /\ JoinInv' /\ (main = "done" => main' = "done")
<1> USE DEF Inv, TypeOK, JoinInv
<1>1. CASE run
  <2>1. main = "start" /\ main' = "run" /\ workers' >= workers
    BY <1>1, Bounds DEF run, adjust_pool_size, StartInv
  <2> QED
    BY <2>1
<1>2. ASSUME NEW required \in 0 .. MaxRequired, manager_loop(required)
      PROVE  workers' >= workers - 1 /\ JoinInv' /\ (main = "done" => main' = "done")
  <2>1. main' = main /\ awaited' = awaited /\ workers' >= workers
    <3>1. n_threads \in Nat /\ n_threads >= 1
      BY Bounds
    <3>2. Target(required) \in MinThreads .. MaxThreads
      BY <3>1, TargetType
    <3> QED
      BY <1>2, <3>1, <3>2, Resize DEF manager_loop
  <2>2. workers' = workers \/ workers' > workers
    BY <2>1
  <2> QED
    BY <2>1, <2>2
<1>3. CASE TakePill \/ RunReturns
  BY <1>3 DEF TakePill, RunReturns, Leave
<1>4. CASE Joined
  BY <1>4 DEF Joined
<1>5. CASE Cooldown \/ Signal \/ stop
  BY <1>5 DEF Cooldown, Signal, stop
<1> QED
  BY <1>1, <1>2, <1>3, <1>4, <1>5 DEF Next

LEMMA PoolKeeps ==
  ASSUME Inv, Inv', SInv, Next,
         workers' < workers => IdlePool, main = "run" /\ main' # main => IdleMain,
         UNCHANGED <<sessionVars, storeVars, phase, applying>>,
         late' = (late \/ (main \in {"join", "done"} /\ workers' > workers))
  PROVE  SInv'
<1>1. workers' >= workers - 1 /\ JoinInv' /\ (main = "done" => main' = "done")
  <2>1. ~late' => ~late /\ ~(main \in {"join", "done"} /\ workers' > workers)
    BY Zenon
  <2> QED
    BY <2>1, PoolEffect DEF SInv
<1>2. workers \in Nat /\ workers' \in Nat
  BY DEF Inv, TypeOK
<1>3. session' = session /\ thread' = thread /\ active' = active
  BY DEF sessionVars
<1>4. ServiceTypeOK'
  <2>1. late' \in BOOLEAN
    BY Zenon
  <2> QED
    BY <2>1 DEF SInv, ServiceTypeOK, sessionVars, storeVars, Inv
<1>5. ThreadInv'
  <2>1. Pooled' = Pooled
    BY <1>3 DEF Pooled
  <2>2. Cardinality(Pooled) <= workers'
    BY <1>1, <1>2, Counts DEF IdlePool, SInv, ThreadInv
  <2>3. \A c \in Conns : thread[c] = "main" => main' = "run"
    BY DEF IdleMain, SInv, ThreadInv
  <2> QED
    BY <1>3, <2>1, <2>2, <2>3 DEF SInv, ThreadInv
<1>6. PhaseInv'
  BY <1>1 DEF SInv, PhaseInv, storeVars
<1>7. ConnectionsCounted'
  BY <1>3 DEF SInv, ConnectionsCounted
<1> QED
  BY <1>1, <1>4, <1>5, <1>6, <1>7 DEF SInv

\* A session that is in no handler and moves without a thread: the threads,
\* the phase and the store are as before.
LEMMA QuietKeeps ==
  ASSUME Inv, Inv', SInv, NEW c \in Conns, NEW st, st # "handling",
         session[c] # "handling", session' = [session EXCEPT ![c] = st],
         UNCHANGED <<vars, thread, storeVars, serviceVars>>
  PROVE  ThreadInv' /\ JoinInv' /\ PhaseInv'
<1>1. ThreadInv'
  <2>1. Pooled' = Pooled
    BY DEF Pooled
  <2>2. \A d \in Conns : session'[d] = "handling" <=> session[d] = "handling"
    BY DEF SInv, ServiceTypeOK
  <2> QED
    BY <2>1, <2>2 DEF SInv, ThreadInv, vars
<1> QED
  BY <1>1 DEF SInv, JoinInv, PhaseInv, vars, storeVars, serviceVars

\* A session is counted when it begins and uncounted when it ends.
LEMMA CountKeeps ==
  ASSUME SInv, NEW c \in Conns, NEW st, session' = [session EXCEPT ![c] = st]
  PROVE  /\ c \notin Open /\ st \notin {"closed", "backlog"} =>
              Cardinality(Open') = Cardinality(Open) + 1
         /\ c \in Open /\ st \in {"closed", "backlog"} =>
              Cardinality(Open') = Cardinality(Open) - 1
         /\ c \in Open /\ st \notin {"closed", "backlog"} => Open' = Open
         /\ c \notin Open /\ st \in {"closed", "backlog"} => Open' = Open
<1>1. st \notin {"closed", "backlog"} => Open' = Open \cup {c}
  BY DEF Open, SInv, ServiceTypeOK
<1>2. st \in {"closed", "backlog"} => Open' = Open \ {c}
  BY DEF Open, SInv, ServiceTypeOK
<1>3. c \notin Open => Cardinality(Open \cup {c}) = Cardinality(Open) + 1
  BY Counts, FS_AddElement
<1>4. c \in Open => Cardinality(Open \ {c}) = Cardinality(Open) - 1
  BY Counts, FS_RemoveElement
<1>5. (c \in Open => Open \cup {c} = Open) /\ (c \notin Open => Open \ {c} = Open)
  BY Zenon
<1> HIDE DEF Open
<1> QED
  BY <1>1, <1>2, <1>3, <1>4, <1>5

\* Connect, Send, on_accept, ReadEnds and on_write.
LEMMA SessionKeeps ==
  ASSUME Inv, Inv', SInv, NEW c \in Conns, UNCHANGED serviceVars,
         \/ Connect(c) \/ \E r \in Requests : Send(c, r)
         \/ on_accept(c) \/ ReadEnds(c) \/ on_write(c)
  PROVE  SInv'
<1> DEFINE Shut == {"closed", "backlog"}
<1>1. ConnectionsCounted => active = Cardinality(Open)
  BY DEF ConnectionsCounted, Open
<1>2. active' = Cardinality(Open') => ConnectionsCounted'
  BY DEF ConnectionsCounted, Open
<1>3. PICK st \in {"closed", "backlog", "reading", "arrived"} :
        /\ session[c] # "handling" /\ session' = [session EXCEPT ![c] = st]
        /\ UNCHANGED <<vars, thread, storeVars>>
        /\ \/ c \notin Open /\ st \notin Shut /\ active' = active + 1
           \/ c \in Open /\ st \in Shut /\ active' = active - 1
           \/ (c \in Open <=> st \notin Shut) /\ active' = active
  <2>1. CASE Connect(c)
    BY <2>1 DEF Connect, Open, poolVars
  <2>2. CASE \E r \in Requests : Send(c, r)
    BY <2>2 DEF Send, Open, poolVars
  <2>3. CASE on_accept(c)
    BY <2>3 DEF on_accept, Create, do_read, Open, poolVars
  <2>4. CASE ReadEnds(c)
    BY <2>4 DEF ReadEnds, Destroy, Open, poolVars
  <2>5. CASE on_write(c) /\ do_read(c) /\ UNCHANGED active
    BY <2>5 DEF on_write, do_read, Open, poolVars
  <2>6. CASE on_write(c) /\ Destroy(c)
    BY <2>6 DEF on_write, Destroy, Open, poolVars
  <2> QED
    BY <2>1, <2>2, <2>3, <2>4, <2>5, <2>6 DEF on_write
<1>4. active' = Cardinality(Open') /\ active' \in Nat
  <2> HIDE DEF Open
  <2>1. active = Cardinality(Open)
    BY <1>1 DEF SInv
  <2>2. CASE c \notin Open /\ st \notin Shut /\ active' = active + 1
    <3>1. Cardinality(Open') = Cardinality(Open) + 1
      BY <1>3, <2>2, CountKeeps
    <3> QED
      BY <2>1, <2>2, <3>1, Counts
  <2>3. CASE c \in Open /\ st \in Shut /\ active' = active - 1
    <3>1. Cardinality(Open) # 0
      BY <2>3, Counts, FS_EmptySet
    <3>2. Cardinality(Open') = Cardinality(Open) - 1
      BY <1>3, <2>3, CountKeeps
    <3> QED
      BY <2>1, <2>3, <3>1, <3>2, Counts
  <2>4. CASE (c \in Open <=> st \notin Shut) /\ active' = active
    BY <1>3, <2>1, <2>4, CountKeeps, Counts
  <2> QED
    BY <1>3, <2>2, <2>3, <2>4
<1>5. ThreadInv' /\ JoinInv' /\ PhaseInv'
  BY <1>3, QuietKeeps
<1>6. ServiceTypeOK'
  <2>1. /\ acceptor' = acceptor /\ thread' = thread
        /\ UNCHANGED <<logged, durable, acked, failed, phase, applying, late>>
    BY DEF Connect, Send, on_accept, Create, ReadEnds, on_write, storeVars, serviceVars
  <2>2. request' \in [Conns -> Requests \cup {NoRequest}]
    BY DEF Connect, Send, on_accept, Create, ReadEnds, on_write, do_read, Destroy, SInv, ServiceTypeOK
  <2>3. keep_alive' \in [Conns -> BOOLEAN]
    <3>1. keep_alive' = keep_alive \/ keep_alive' = [keep_alive EXCEPT ![c] = TRUE]
      BY DEF Connect, Send, on_accept, Create, ReadEnds, on_write, do_read, Destroy
    <3> QED
      BY <3>1, Zenon DEF SInv, ServiceTypeOK
  <2> QED
    BY <1>3, <1>4, <2>1, <2>2, <2>3 DEF SInv, ServiceTypeOK, Inv
<1> QED
  BY <1>2, <1>4, <1>5, <1>6 DEF SInv

\* Once the log is flushed no thread is left in a handler, if all were joined.
LEMMA NobodyLeft ==
  ASSUME Inv, SInv, phase \in Down, ~late
  PROVE  workers = 0 /\ applying = 0 /\ \A c \in Conns : session[c] # "handling"
<1>1. main = "done" /\ workers = 0 /\ applying = 0
  BY DEF SInv, PhaseInv, JoinInv, Down, Inv, TypeOK
<1>2. Pooled = {}
  BY <1>1, Counts, FS_EmptySet, SMTT(30) DEF SInv, ThreadInv
<1>3. \A c \in Conns : thread[c] = "none"
  BY <1>1, <1>2 DEF Pooled, SInv, ThreadInv, ServiceTypeOK
<1> QED
  BY <1>1, <1>3 DEF SInv, ThreadInv

\* A thread enters a handler.
LEMMA ReadKeeps ==
  ASSUME Inv, Inv', SInv, NEW c \in Conns, UNCHANGED serviceVars, on_read(c)
  PROVE  SInv'
<1>1. /\ session[c] = "arrived" /\ session' = [session EXCEPT ![c] = "handling"]
      /\ UNCHANGED <<n_threads, workers, main, awaited, pills, signal, recent>>
      /\ UNCHANGED <<acceptor, request, keep_alive, active, logged, durable, acked, failed>>
      /\ UNCHANGED <<phase, applying, late>>
  BY DEF on_read, poolVars, vars, storeVars, serviceVars
<1>2. \/ IdleMain /\ thread' = [thread EXCEPT ![c] = "main"]
      \/ IdlePool /\ thread' = [thread EXCEPT ![c] = "pool"]
  BY DEF on_read
<1>3. ThreadInv'
  <2>1. thread[c] = "none"
    BY <1>1 DEF SInv, ThreadInv
  <2>2. \A d \in Conns : session'[d] = "handling" <=> thread'[d] # "none"
    BY <1>1, <1>2 DEF SInv, ThreadInv, ServiceTypeOK
  <2>3. \A d \in Conns : thread'[d] = "main" => main' = "run"
    BY <1>1, <1>2 DEF SInv, ThreadInv, ServiceTypeOK, IdleMain
  <2>4. Cardinality(Pooled') <= workers'
    <3>1. CASE IdleMain /\ thread' = [thread EXCEPT ![c] = "main"]
      <4>1. Pooled' = Pooled
        BY <2>1, <3>1 DEF Pooled, SInv, ServiceTypeOK
      <4> QED
        BY <1>1, <4>1 DEF SInv, ThreadInv
    <3>2. CASE IdlePool /\ thread' = [thread EXCEPT ![c] = "pool"]
      <4>1. Pooled' = Pooled \cup {c} /\ c \notin Pooled
        BY <2>1, <3>2 DEF Pooled, SInv, ServiceTypeOK
      <4>2. Cardinality(Pooled \cup {c}) = Cardinality(Pooled) + 1
        BY <4>1, Counts, FS_AddElement
      <4> QED
        BY <1>1, <3>2, <4>1, <4>2, Counts DEF IdlePool, Inv, TypeOK
    <3> QED
      BY <1>2, <3>1, <3>2
  <2> QED
    BY <2>2, <2>3, <2>4 DEF ThreadInv
<1>4. ConnectionsCounted'
  <2>1. Open' = Open
    BY <1>1 DEF Open, SInv, ServiceTypeOK
  <2> QED
    BY <1>1, <2>1 DEF SInv, ConnectionsCounted, Open
<1>5. ServiceTypeOK'
  BY <1>1, <1>2 DEF SInv, ServiceTypeOK, Inv
<1>6. JoinInv' /\ PhaseInv'
  BY <1>1 DEF SInv, JoinInv, PhaseInv
<1> QED
  BY <1>3, <1>4, <1>5, <1>6 DEF SInv

\* The handler ends; if it has written to the store, the log is not yet
\* flushed for good.
LEMMA ResponseKeeps ==
  ASSUME Inv, Inv', SInv, NEW c \in Conns, UNCHANGED serviceVars, send_response(c)
  PROVE  SInv'
<1>1. /\ session[c] = "handling" /\ session' = [session EXCEPT ![c] = "writing"]
      /\ thread' = [thread EXCEPT ![c] = "none"]
      /\ UNCHANGED <<n_threads, workers, main, awaited, pills, signal, recent>>
      /\ UNCHANGED <<acceptor, request, active, durable, phase, applying, late>>
  BY DEF send_response, poolVars, vars, serviceVars
<1>2. /\ logged' = logged \/ logged' = logged + 1
      /\ acked' = acked \/ acked' = logged'
  BY DEF send_response, LogWrite
<1>3. ThreadInv'
  <2>1. \A d \in Conns : session'[d] = "handling" <=> thread'[d] # "none"
    BY <1>1 DEF SInv, ThreadInv, ServiceTypeOK
  <2>2. Pooled' = Pooled \ {c}
    BY <1>1 DEF Pooled, SInv, ServiceTypeOK
  <2>3. Cardinality(Pooled \ {c}) <= Cardinality(Pooled) /\ Cardinality(Pooled \ {c}) \in Nat
    <3>1. Pooled \ {c} \in SUBSET Pooled
      OBVIOUS
    <3> QED
      BY <3>1, Counts, FS_Subset, FS_CardinalityType
  <2>4. Cardinality(Pooled') <= workers'
    BY <1>1, <2>2, <2>3, Counts DEF SInv, ThreadInv, Inv, TypeOK
  <2> QED
    BY <1>1, <2>1, <2>4 DEF SInv, ThreadInv, ServiceTypeOK
<1>4. ConnectionsCounted'
  <2>1. Open' = Open
    BY <1>1 DEF Open, SInv, ServiceTypeOK
  <2> QED
    BY <1>1, <2>1 DEF SInv, ConnectionsCounted, Open
<1>5. ServiceTypeOK'
  <2>1. keep_alive' \in [Conns -> BOOLEAN]
    <3>1. PICK b \in BOOLEAN : keep_alive' = [keep_alive EXCEPT ![c] = b]
      BY Zenon DEF send_response
    <3> QED
      BY <3>1 DEF SInv, ServiceTypeOK
  <2>2. logged' \in Nat /\ durable' \in 0 .. logged' /\ acked' \in 0 .. logged'
    BY <1>1, <1>2, Numbers DEF SInv
  <2>3. /\ session' \in [Conns -> {"closed", "backlog", "reading", "arrived", "handling", "writing"}]
        /\ thread' \in [Conns -> {"none", "main", "pool"}]
    BY <1>1 DEF SInv, ServiceTypeOK
  <2>4. failed' \in BOOLEAN
    <3>1. failed' = failed \/ failed' = TRUE
      BY DEF send_response, LogWrite
    <3> QED
      BY <3>1, Zenon DEF SInv, ServiceTypeOK
  <2> QED
    BY <1>1, <2>1, <2>2, <2>3, <2>4 DEF SInv, ServiceTypeOK, Inv
<1>6. JoinInv' /\ PhaseInv'
  <2>1. ~(phase \in Down /\ ~late)
    BY <1>1, NobodyLeft
  <2> QED
    BY <1>1, <2>1 DEF SInv, JoinInv, PhaseInv
<1> QED
  BY <1>3, <1>4, <1>5, <1>6 DEF SInv

\* The steps of main(), the mesh threads and the conveyor.
Background ==
  \/ (AcceptError \/ Drain) /\ UNCHANGED serviceVars
  \/ MeshTakes \/ MeshApplies \/ MainStep
  \/ \E c \in Conns : Terminate(c)

LEMMA MainKeeps ==
  ASSUME Inv, Inv', SInv, UNCHANGED vars, UNCHANGED <<session, thread, active>>, Background
  PROVE  SInv'
<1>1. ThreadInv' /\ ConnectionsCounted'
  BY DEF SInv, ThreadInv, ConnectionsCounted, Pooled, vars
<1>2. late' = late /\ JoinInv'
  BY DEF SInv, JoinInv, vars, Background, AcceptError, Drain, MeshTakes, MeshApplies, MainStep, SyncStops,
       MeshStops, Flush, Exit, Terminate, serviceVars
<1>3. UNCHANGED <<request, keep_alive>> /\ acceptor' \in {"pending", "none"}
  BY DEF SInv, ServiceTypeOK, Background, AcceptError, Drain, MeshTakes, MeshApplies, MainStep, SyncStops,
       MeshStops, Flush, Exit, Terminate, httpVars, sessionVars
<1>4. main' = main
  BY DEF vars
<1> DEFINE Phases == {"serving", "sync stopped", "mesh stopped", "flushed", "exited", "aborted"}
<1>5. phase \in Phases
  BY DEF SInv, ServiceTypeOK
<1>6. /\ logged \in Nat /\ durable \in Nat /\ acked \in Nat /\ applying \in Nat
      /\ durable <= logged /\ acked <= logged /\ applying <= MeshThreads
      /\ MeshThreads \in Nat
  BY Numbers, ServiceAssumption DEF SInv
<1>7. PhaseInv /\ (~late' => ~late)
  BY <1>2 DEF SInv
<1>8. logged' \in Nat /\ durable' \in 0 .. logged' /\ acked' \in 0 .. logged'
  <2>1. \/ UNCHANGED <<logged, durable, acked>>
        \/ durable < logged /\ durable' = durable + 1 /\ UNCHANGED <<logged, acked>>
        \/ logged' = logged + 1 /\ UNCHANGED <<durable, acked>>
        \/ durable' \in durable .. logged /\ UNCHANGED <<logged, acked>>
        \/ durable' = logged /\ UNCHANGED <<logged, acked>>
    BY DEF Background, AcceptError, Drain, MeshTakes, MeshApplies, MainStep, SyncStops, MeshStops,
         Flush, Exit, LogWrite, FlushLog, Terminate, httpVars, storeVars
  <2>2. logged' \in Nat /\ durable' \in Nat /\ durable' <= logged'
    BY <1>6, <2>1
  <2>3. acked' \in Nat /\ acked' <= logged'
    BY <1>6, <2>1
  <2>4. durable' \in 0 .. logged'
    BY <2>2
  <2>5. acked' \in 0 .. logged'
    BY <2>2, <2>3
  <2> QED
    BY <2>2, <2>4, <2>5
<1>9. applying' \in 0 .. MeshThreads
  <2>1. \/ applying' = applying
        \/ applying < MeshThreads /\ applying' = applying + 1
        \/ applying > 0 /\ applying' = applying - 1
    BY DEF Background, MeshTakes, MeshApplies, MainStep, SyncStops, MeshStops, Flush, Exit, Terminate,
         serviceVars
  <2> QED
    BY <1>6, <2>1
<1>10. (durable < logged => durable # logged) /\ (applying > 0 => applying # 0)
  BY <1>6
<1>11. phase' \in Phases /\ PhaseInv'
  <2> USE <1>4, <1>5, <1>7 DEF PhaseInv, Down
  <2>1. CASE AcceptError /\ UNCHANGED serviceVars
    BY <2>1 DEF AcceptError, storeVars, serviceVars
  <2>2. CASE Drain /\ UNCHANGED serviceVars
    <3>1. durable # logged
      BY <1>10, <2>2 DEF Drain
    <3>2. UNCHANGED <<phase, applying, late, failed>>
      BY <2>2 DEF Drain, serviceVars
    <3> QED
      BY <3>1, <3>2
  <2>3. CASE MeshTakes
    BY <2>3 DEF MeshTakes, httpVars, storeVars
  <2>4. CASE MeshApplies
    <3>1. applying # 0
      BY <1>10, <2>4 DEF MeshApplies
    <3>2. phase' = phase
      BY <2>4 DEF MeshApplies
    <3> QED
      BY <3>1, <3>2
  <2>5. CASE SyncStops \/ MeshStops
    BY <2>5 DEF SyncStops, MeshStops, httpVars, storeVars
  <2>6. CASE Flush
    BY <2>6 DEF Flush, FlushLog
  <2>7. CASE Exit
    BY <2>7 DEF Exit, FlushLog
  <2>8. CASE \E c \in Conns : Terminate(c)
    BY <2>8 DEF Terminate, httpVars, storeVars
  <2> QED
    BY <2>1, <2>2, <2>3, <2>4, <2>5, <2>6, <2>7, <2>8 DEF Background, MainStep
<1>12. failed' \in BOOLEAN
  <2>1. failed' = failed \/ failed' = TRUE
    BY DEF Background, AcceptError, Drain, MeshTakes, MeshApplies, MainStep, SyncStops, MeshStops,
         Flush, Exit, LogWrite, FlushLog, Terminate, httpVars, storeVars
  <2> QED
    BY <2>1, Zenon DEF SInv, ServiceTypeOK
<1>13. ServiceTypeOK'
  BY <1>2, <1>3, <1>8, <1>9, <1>11, <1>12 DEF SInv, ServiceTypeOK, Inv
<1> QED
  BY <1>1, <1>2, <1>11, <1>13 DEF SInv

LEMMA NextSInv == Inv /\ Inv' /\ SInv /\ [ServiceNext]_allVars => SInv'
<1> SUFFICES ASSUME Inv, Inv', SInv, [ServiceNext]_allVars PROVE SInv'
  OBVIOUS
<1>1. ASSUME NEW required \in 0 .. MaxRequired, Pool(manager_loop(required)) PROVE SInv'
  BY <1>1, PoolKeeps DEF Pool, PoolStep, Next
<1>2. ASSUME \/ Pool(run) \/ Pool(Cooldown) \/ Pool(TakePill) \/ Pool(Signal)
             \/ Pool(stop) \/ Pool(RunReturns) \/ Pool(Joined)
      PROVE  SInv'
  BY <1>2, PoolKeeps DEF Pool, PoolStep, Next
<1>3. ASSUME NEW c \in Conns, Http(ClientStep(c)) \/ Http(SessionStep(c)) PROVE SInv'
  BY <1>3, SessionKeeps, ReadKeeps, ResponseKeeps DEF Http, ClientStep, SessionStep
<1>4. ASSUME \/ Http(AcceptError) \/ Http(Drain) \/ MeshTakes \/ MeshApplies \/ MainStep
             \/ \E c \in Conns : Terminate(c)
      PROVE  SInv'
  <2>1. UNCHANGED <<vars, session, thread, active>>
    BY <1>4 DEF Http, AcceptError, Drain, MeshTakes, MeshApplies, MainStep, SyncStops, MeshStops,
         Flush, Exit, Terminate, httpVars, poolVars, sessionVars
  <2> QED
    BY <1>4, <2>1, MainKeeps DEF Http, Background
<1>5. CASE UNCHANGED allVars
  BY <1>5 DEF allVars, httpVars, poolVars, vars, sessionVars, storeVars, serviceVars, SInv,
       ServiceTypeOK, Inv, ThreadInv, JoinInv, PhaseInv, ConnectionsCounted, Pooled
<1> QED
  BY <1>1, <1>2, <1>3, <1>4, <1>5 DEF ServiceNext

LEMMA AlwaysSInv == ServiceSpec => []SInv
  BY InitSInv, NextSInv, PoolInv, PTL DEF ServiceSpec
-----------------------------------------------------------------------------
\* Sessions, threads and the log keep to their types.
THEOREM ServiceTypeCorrect == ServiceSpec => []ServiceTypeOK
<1>1. SInv => ServiceTypeOK
  BY DEF SInv
<1> QED
  BY <1>1, AlwaysSInv, PTL

\* active_connections counts the session objects, however they end.
THEOREM SessionsAreCounted == ServiceSpec => []ConnectionsCounted
<1>1. SInv => ConnectionsCounted
  BY DEF SInv
<1> QED
  BY <1>1, AlwaysSInv, PTL

\* main() flushes and destroys the store when nothing uses it any more, if
\* run() has joined all its threads; and with every answered write on disk,
\* unless the log has reported an error.
THEOREM ShutdownIsQuiet == ServiceSpec => []QuietShutdown
<1>1. Inv /\ SInv => QuietShutdown
  <2> SUFFICES ASSUME Inv, SInv, phase \in Down, ~late
               PROVE  /\ workers = 0 /\ applying = 0
                      /\ \A c \in Conns : session[c] # "handling"
                      /\ ~failed => durable = logged /\ acked <= durable
    BY DEF QuietShutdown, Down
  <2>1. workers = 0 /\ applying = 0 /\ \A c \in Conns : session[c] # "handling"
    BY NobodyLeft
  <2>2. ~failed => durable = logged /\ acked <= durable
    BY Numbers DEF SInv, PhaseInv
  <2> QED
    BY <2>1, <2>2
<1> QED
  BY <1>1, AlwaysSInv, PoolInv, PTL

\* The threads stay accounted for, and some thread stays, whatever the
\* sessions do.
THEOREM PoolServes == ServiceSpec => [](Accounted /\ StaysUp)
  BY ServiceRunsPool, ThreadsAreAccounted, PoolStaysUp, PTL
-----------------------------------------------------------------------------
\* The node asked is the owner among all nodes asked.
BestSoFar == at = get_node[visited]
RouteInv == RouteTypeOK /\ BestSoFar

\* The owner on a ring owns every smaller ring it is on.
LEMMA Smaller ==
  ASSUME NEW g \in Consistent, NEW r \in Rings, NEW s \in SUBSET r, g[r] \in s
  PROVE  g[s] = g[r] /\ g[r] \in r
BY DEF Consistent, Rings

\* A node that owns a ring with the best of some nodes on it beats them all.
LEMMA Beats ==
  ASSUME NEW g \in Consistent, NEW v \in Rings, NEW r \in Rings,
         g[v] \in r, g[r] # g[v]
  PROVE  g[r] \notin v /\ g[v \cup {g[r]}] = g[r]
<1> DEFINE n == g[v]  m == g[r]  u == v \cup {m}
<1>1. m \in r /\ n \in v BY DEF Consistent, Rings
<1>2. {n, m} \in Rings /\ u \in Rings BY <1>1 DEF Rings
<1>3. g[{n, m}] = m BY <1>1, Smaller
<1>4. m \notin v
  <2> SUFFICES ASSUME m \in v PROVE FALSE OBVIOUS
  <2>1. {n, m} \in SUBSET v BY <1>1
  <2>2. g[{n, m}] = n BY <2>1, Smaller
  <2> QED BY <2>2, <1>3
<1>5. g[u] \in u BY <1>2 DEF Consistent
<1>6. g[u] = m
  <2> SUFFICES ASSUME g[u] # m PROVE FALSE OBVIOUS
  <2>1. g[u] \in v BY <1>5
  <2>2. g[v] = g[u] BY <2>1, <1>2, Smaller
  <2>3. {n, m} \in SUBSET u /\ g[u] \in {n, m} BY <1>1, <2>2
  <2>4. g[{n, m}] = g[u] BY <2>3, <1>2, Smaller
  <2> QED BY <2>4, <1>3
<1> QED BY <1>4, <1>6

LEMMA RouteInitInv == RouteInit => RouteInv
<1> SUFFICES ASSUME RouteInit PROVE RouteInv OBVIOUS
<1>1. {at} \in Rings BY DEF RouteInit, Rings
<1>2. get_node[{at}] = at BY <1>1 DEF RouteInit, Consistent
<1> QED BY <1>1, <1>2 DEF RouteInit, RouteInv, RouteTypeOK, BestSoFar

\* What a redirect does, given that the present node is the best so far.
LEMMA RedirectStep ==
  ASSUME RouteInv, FollowRedirect
  PROVE  at' \in Nodes /\ at' \notin visited /\ get_node[visited'] = at'
<1>1. visited \in Rings /\ Ring(at) \in Rings /\ at \in Ring(at)
  BY DEF RouteInv, RouteTypeOK, Rings, Ring
<1>2. get_node \in Consistent /\ get_node[visited] = at BY DEF RouteInv, RouteTypeOK, BestSoFar
<1>3. get_node[Ring(at)] # get_node[visited] BY <1>2 DEF FollowRedirect, owner
<1>4. get_node[Ring(at)] \notin visited
      /\ get_node[visited \cup {get_node[Ring(at)]}] = get_node[Ring(at)]
  BY <1>1, <1>2, <1>3, Beats
<1>5. get_node[Ring(at)] \in Nodes BY <1>1, <1>2 DEF Consistent
<1> QED BY <1>4, <1>5 DEF FollowRedirect, owner

LEMMA RouteStepInv == RouteInv /\ [RouteNext]_routeVars => RouteInv'
<1> SUFFICES ASSUME RouteInv, [RouteNext]_routeVars PROVE RouteInv' OBVIOUS
<1> USE DEF RouteInv
<1>1. ASSUME FollowRedirect PROVE RouteInv'
  <2>1. at' \in Nodes /\ get_node[visited'] = at' BY <1>1, RedirectStep
  <2>2. RouteTypeOK' BY <1>1, <2>1 DEF RouteTypeOK, FollowRedirect
  <2>3. BestSoFar' BY <1>1, <2>1 DEF BestSoFar, FollowRedirect
  <2> QED BY <2>2, <2>3
<1>2. ASSUME Serve PROVE RouteInv'
  BY <1>2 DEF RouteTypeOK, BestSoFar, Serve
<1>3. ASSUME NEW n \in Nodes, Enter(n) PROVE RouteInv'
  <2>1. {n} \in Rings BY DEF Rings
  <2>2. get_node[{n}] = n BY <2>1 DEF RouteTypeOK, Consistent
  <2>3. RouteTypeOK' BY <1>3 DEF RouteTypeOK, Enter
  <2>4. BestSoFar' BY <1>3, <2>2 DEF BestSoFar, Enter
  <2> QED BY <2>3, <2>4
<1>4. ASSUME UNCHANGED routeVars PROVE RouteInv'
  BY <1>4 DEF routeVars, RouteTypeOK, BestSoFar
<1> QED BY <1>1, <1>2, <1>3, <1>4 DEF RouteNext

\* The inductive invariant holds in every reachable state.
THEOREM RouteInvariance == RouteSpec => []RouteInv
BY RouteInitInv, RouteStepInv, PTL DEF RouteSpec

\* Redirects never lead to a node that was asked before, whatever peers the
\* nodes are configured with, so that they end on any finite cluster.
THEOREM RedirectsNeverGoBack == RouteSpec => NeverBack
<1>1. RouteInv /\ [RouteNext]_routeVars => [~served /\ at' # at => at' \notin visited]_routeVars
  <2> SUFFICES ASSUME RouteInv, [RouteNext]_routeVars, ~served, at' # at PROVE at' \notin visited
    OBVIOUS
  <2>1. FollowRedirect BY DEF RouteNext, Serve, Enter, routeVars
  <2> QED BY <2>1, RedirectStep
<1> QED BY <1>1, RouteInvariance, PTL DEF RouteSpec, NeverBack
=============================================================================
