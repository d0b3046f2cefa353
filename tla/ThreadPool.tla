----------------------------- MODULE ThreadPool -----------------------------
(***************************************************************************)
(* The dynamic thread pool of src/http/http_server.cpp: the threads inside *)
(* ioc_.run(), the manager that runs on one of them at every tick and      *)
(* resizes the pool, and the end of run() after a signal.                  *)
(*                                                                         *)
(* A thread is told to leave by a posted handler that throws ThreadExit (a *)
(* pill); whichever thread takes the handler leaves.  The load predicted   *)
(* by the Kalman filter is an input.                                       *)
(***************************************************************************)
EXTENDS Integers

CONSTANTS
  min_threads, max_threads,   \* as configured
  MaxRequired,     \* bound on the threads the predicted load asks for
  MaxPills         \* bound on the pills that wait in the queue of ioc_

ASSUME PoolAssumption ==
  min_threads \in Int /\ max_threads \in Int /\ MaxRequired \in Nat /\ MaxPills \in Nat

VARIABLES
  n_threads,   \* n_threads_
  workers,     \* pool threads inside ioc_.run()
  main,        \* the main thread: before, in or after its ioc_.run()
  awaited,     \* pool threads that the join loop of run() still waits for
  pills,       \* ThreadExit handlers in the queue
  signal,      \* SIGINT or SIGTERM: "none", "raised", "handled"
  recent       \* was the pool resized in the last two seconds?

vars == <<n_threads, workers, main, awaited, pills, signal, recent>>

\* The bounds as the constructor corrects them.
MinThreads == IF min_threads < 1 THEN 1 ELSE min_threads
MaxThreads == IF max_threads < MinThreads THEN MinThreads ELSE max_threads

Init ==
  /\ n_threads = 1 /\ workers = 0 /\ main = "start" /\ awaited = 0
  /\ pills = 0 /\ signal = "none" /\ recent = FALSE

stopped == signal = "handled"
InRun == workers + IF main = "run" THEN 1 ELSE 0
Serving == InRun > 0 /\ ~stopped

\* Mutant: two pills for every thread.
PostTwice(target) ==
  LET current == n_threads - 1 IN
  \/ /\ target - 1 >= current
     /\ workers' = workers + (target - 1 - current) /\ n_threads' = target
     /\ UNCHANGED pills
  \/ /\ target - 1 < current
     /\ pills' = pills + 2 * (current - (target - 1)) /\ n_threads' = target
     /\ UNCHANGED workers

\* Growing starts threads, shrinking posts pills.
adjust_pool_size(target) ==
  LET managed == IF target < 1 THEN 0 ELSE target - 1
      current == n_threads - 1
  IN
  \/ /\ managed >= current
     /\ workers' = workers + (managed - current)
     /\ n_threads' = n_threads + (managed - current)
     /\ UNCHANGED pills
  \/ /\ managed < current
     /\ pills' = pills + (current - managed)
     /\ n_threads' = n_threads - (current - managed)
     /\ UNCHANGED workers

\* run(): the main thread fills the pool and enters ioc_.run().
run ==
  /\ main = "start" /\ main' = "run"
  /\ adjust_pool_size(MinThreads)
  /\ UNCHANGED <<awaited, signal, recent>>

\* Mutant: no upper bound.
ClampedBelow(t) == IF t < MinThreads THEN MinThreads ELSE t

Clamped(t) ==
  LET low == IF t > MaxThreads THEN MaxThreads ELSE t IN
  IF low < MinThreads THEN MinThreads ELSE low

Target(required) ==
  Clamped(IF required > n_threads THEN required
          ELSE IF required + 2 < n_threads THEN n_threads - 1 ELSE n_threads)

\* One tick of the manager, on a thread inside ioc_.run().
manager_loop(required) ==
  /\ Serving /\ ~recent
  /\ Target(required) # n_threads
  /\ pills + n_threads - Target(required) <= MaxPills
  /\ adjust_pool_size(Target(required))
  /\ recent' = TRUE
  /\ UNCHANGED <<main, awaited, signal>>

\* Two seconds pass.
Cooldown ==
  /\ recent /\ recent' = FALSE
  /\ UNCHANGED <<n_threads, workers, main, awaited, pills, signal>>

\* A thread leaves ioc_.run().  The main thread goes on to join the threads
\* that are in thread_pool_ when its loop begins; the loop does not see the
\* ones that the manager adds later.
Leave ==
  \/ /\ workers > awaited /\ workers' = workers - 1
     /\ UNCHANGED <<main, awaited>>
  \/ /\ awaited > 0 /\ awaited' = awaited - 1 /\ workers' = workers - 1
     /\ UNCHANGED main
  \/ /\ main = "run" /\ main' = "join" /\ awaited' = workers
     /\ UNCHANGED workers

\* Mutant: a thread that leaves is counted once more.
TakePillCounted ==
  /\ pills > 0 /\ ~stopped /\ pills' = pills - 1 /\ Leave
  /\ n_threads' = n_threads - 1
  /\ UNCHANGED <<signal, recent>>

\* A thread takes a pill and leaves ioc_.run().
TakePill ==
  /\ pills > 0 /\ ~stopped /\ pills' = pills - 1 /\ Leave
  /\ UNCHANGED <<n_threads, signal, recent>>

Signal ==
  /\ signal = "none" /\ signal' = "raised"
  /\ UNCHANGED <<n_threads, workers, main, awaited, pills, recent>>

\* Mutant: the signal makes one thread leave.
StopOne ==
  /\ signal = "raised" /\ InRun > 0 /\ signal' = "none"
  /\ pills < MaxPills /\ pills' = pills + 1
  /\ UNCHANGED <<n_threads, workers, main, awaited, recent>>

\* The signal handler, on a thread inside ioc_.run(): ioc_.stop().
stop ==
  /\ signal = "raised" /\ InRun > 0 /\ signal' = "handled"
  /\ UNCHANGED <<n_threads, workers, main, awaited, pills, recent>>

\* ioc_.run() returns to a thread.
RunReturns ==
  /\ stopped /\ Leave
  /\ UNCHANGED <<n_threads, pills, signal, recent>>

\* The join loop has ended: run() returns, and main() shuts the store down.
Joined ==
  /\ main = "join" /\ awaited = 0 /\ main' = "done"
  /\ UNCHANGED <<n_threads, workers, awaited, pills, signal, recent>>

Next ==
  \/ run \/ Cooldown \/ TakePill \/ Signal \/ stop \/ RunReturns \/ Joined
  \/ \E required \in 0 .. MaxRequired : manager_loop(required)

Spec == Init /\ [][Next]_vars

\* Threads inside ioc_.run() go on to take its handlers, and threads that
\* are started or told to leave do.
FairSpec ==
  Spec /\ WF_vars(run) /\ WF_vars(TakePill) /\ WF_vars(stop)
       /\ WF_vars(RunReturns) /\ WF_vars(Joined)
-----------------------------------------------------------------------------
\* n_threads_ stays between the corrected bounds once the pool has started.
TypeOK ==
  /\ workers \in Nat /\ awaited \in 0 .. workers /\ pills \in Nat /\ recent \in BOOLEAN
  /\ main \in {"start", "run", "join", "done"}
  /\ signal \in {"none", "raised", "handled"}
  /\ IF main = "start" THEN n_threads = 1 ELSE n_threads \in MinThreads .. MaxThreads

\* n_threads_ counts the threads inside ioc_.run() that no pill waits for,
\* whichever threads have taken the pills so far.
Accounted == main # "start" /\ ~stopped => InRun = n_threads + pills

\* Pills never empty the pool: until a signal is handled, some thread is
\* there to serve requests and to handle it.
StaysUp == main # "start" /\ ~stopped => InRun > 0

\* Wherever resizing stands, a signal makes run() return, so that main()
\* goes on to flush the log.
SignalEndsRun == signal = "raised" ~> main = "done"

\* run() returns, and main() flushes and destroys the store, only when the
\* server has been stopped.
MainStays == main = "done" => stopped
=============================================================================
