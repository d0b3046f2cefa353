---------------------------- MODULE ClockHistory ----------------------------
(***************************************************************************)
(* HybridClock with two history variables, to say what the cached batches  *)
(* of ThreadLocalClock may hand out: they are used without a look at the   *)
(* global clock, however much it has learnt since they were reserved.      *)
(***************************************************************************)
EXTENDS HybridClock

VARIABLES
  stepped,   \* has the system clock been set back?
  known      \* known[t]: what update() had merged when t reserved its batch

HistoryInit == Init /\ stepped = FALSE /\ known = [t \in Batched |-> {}]

Reserves(t) == pc[t] = "refill" /\ pc'[t] = "idle"

HistoryNext ==
  /\ OrderlyNext
  /\ stepped' = (stepped \/ phys' < phys)
  /\ known' = [t \in Batched |-> IF Reserves(t) THEN seen ELSE known[t]]

HistorySpec == HistoryInit /\ [][HistoryNext]_<<vars, stepped, known>>
-----------------------------------------------------------------------------
\* Each thread sees its own timestamps increase, from batches, refills and
\* the fallback to now() alike, until the system clock is first set back
\* (ThreadLocalClock::now).
ForwardMonotonic ==
  [][~stepped' => \A t \in Threads : Returns(t) => Before(last[t], last'[t])]_vars

\* However old a batch is, what it hands out is later than every remote
\* timestamp that was merged before it was reserved, also when the system
\* clock was set back and the batch is used again (reserve_logical).
CausalUpToBatch ==
  [][\A t \in Batched : Returns(t) => \A ts \in known'[t] : Before(ts, last'[t])]_vars
=============================================================================
