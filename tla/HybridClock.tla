---------------------------- MODULE HybridClock -----------------------------
(***************************************************************************)
(* src/engine/clock.hpp, clock.cpp: one HybridLogicalClock shared by the   *)
(* threads of a node, some of which reach it through a ThreadLocalClock    *)
(* that reserves batches of logical ticks.                                 *)
(*                                                                         *)
(* A call under mx_ is one step, except now() in its overflow wait, which  *)
(* keeps mx_ (holder) while the physical clock moves.  ThreadLocalClock    *)
(* takes no lock between its steps.                                        *)
(***************************************************************************)
EXTENDS Timestamps, FiniteSets

CONSTANTS
  Direct,     \* threads that call HybridLogicalClock::now() themselves
  Batched,    \* threads that own a ThreadLocalClock
  NoThread,   \* nobody waits inside mx_
  NodeId,
  UintMax,    \* UINT32_MAX
  BatchSize,  \* BATCH_SIZE
  Incoming,   \* timestamps that update() may receive
  StepsBack,  \* may the system clock be set back?
  MaxPhys, MaxCalls   \* bounds: system time, number of timestamps issued

Threads == Direct \cup Batched

ASSUME ClockAssumption ==
  /\ Direct \cap Batched = {}
  /\ NoThread \notin Threads
  /\ NodeId \in Nat
  /\ UintMax \in Nat \ {0}
  /\ BatchSize \in Nat \ {0}
  /\ Incoming \subseteq Timestamp
  /\ \A ts \in Incoming : ts.logical <= UintMax
  /\ StepsBack \in BOOLEAN
  /\ MaxPhys \in Nat /\ MaxCalls \in Nat

VARIABLES
  phys,           \* get_physical_time(): system_clock, in ticks
  max_wall_time, max_logical,
  holder,         \* the thread waiting inside mx_, or NoThread
  cache,          \* per ThreadLocalClock: [time, next, end]
  pc,             \* where each thread stands in its call
  arg,            \* the phys_now of each ThreadLocalClock::now() call
  issued,         \* timestamps returned so far
  calls,          \* how many were returned
  last,           \* the latest timestamp returned to each thread
  seen            \* timestamps given to update()

hlc == <<max_wall_time, max_logical>>
history == <<issued, calls, last>>
vars == <<phys, hlc, holder, cache, pc, arg, history, seen>>

PC == {"idle", "refill", "retry", "fallback", "overflow", "reread"}
EmptyCache == [time |-> 0, next |-> 0, end |-> 0]

Init ==
  /\ phys = 1
  /\ max_wall_time = 0 /\ max_logical = 0
  /\ holder = NoThread
  /\ cache = [t \in Batched |-> EmptyCache]
  /\ pc = [t \in Threads |-> "idle"]
  /\ arg = [t \in Threads |-> 0]
  /\ issued = {} /\ calls = 0
  /\ last = [t \in Threads |-> ZeroTs]
  /\ seen = {}

\* The call of thread t returns {w, l, node_id_}.
Return(t, w, l) ==
  LET ts == Ts(w, l, NodeId) IN
  /\ calls < MaxCalls
  /\ calls' = calls + 1
  /\ issued' = issued \cup {ts}
  /\ last' = [last EXCEPT ![t] = ts]
  /\ pc' = [pc EXCEPT ![t] = "idle"]

\* System time passes, or is set back by an administrator or NTP.
Tick ==
  /\ phys < MaxPhys /\ phys' = phys + 1
  /\ UNCHANGED <<hlc, holder, cache, pc, arg, history, seen>>

StepBack ==
  /\ StepsBack /\ phys > 1 /\ phys' = phys - 1
  /\ UNCHANGED <<hlc, holder, cache, pc, arg, history, seen>>

\* Mutant: now() without overflow protection.
FullNever == FALSE

Full == max_logical = UintMax

\* HybridLogicalClock::now() up to its return or its overflow wait.
GlobalNow(t) ==
  /\ holder = NoThread
  /\ \/ /\ phys > max_wall_time
        /\ max_wall_time' = phys /\ max_logical' = 0
        /\ Return(t, phys, 0)
        /\ UNCHANGED holder
     \/ /\ phys <= max_wall_time /\ ~Full
        /\ max_logical' = max_logical + 1
        /\ Return(t, max_wall_time, max_logical + 1)
        /\ UNCHANGED <<max_wall_time, holder>>
     \/ /\ phys <= max_wall_time /\ Full
        /\ holder' = t
        /\ pc' = [pc EXCEPT ![t] = "overflow"]
        /\ UNCHANGED <<hlc, history>>
  /\ UNCHANGED <<phys, cache, arg, seen>>

Now(t) == t \in Direct /\ pc[t] = "idle" /\ GlobalNow(t)

\* Mutant: the overflow does not wait.
OverflowNoSpin(t) ==
  /\ pc[t] = "overflow"
  /\ pc' = [pc EXCEPT ![t] = "reread"]
  /\ UNCHANGED <<phys, hlc, holder, cache, arg, history, seen>>

\* while (get_physical_time() <= max_wall_time_) yield();
OverflowSpin(t) ==
  /\ pc[t] = "overflow" /\ phys > max_wall_time
  /\ pc' = [pc EXCEPT ![t] = "reread"]
  /\ UNCHANGED <<phys, hlc, holder, cache, arg, history, seen>>

\* auto new_phys = get_physical_time(): a second, later reading.
OverflowReread(t) ==
  /\ pc[t] = "reread"
  /\ max_wall_time' = phys /\ max_logical' = 0
  /\ Return(t, phys, 0)
  /\ holder' = NoThread
  /\ UNCHANGED <<phys, cache, arg, seen>>

MaxOf(a, b) == IF a > b THEN a ELSE b

\* The logical counter update() computes, before it is stored in 32 bits.
MergedLogical(incoming, wall) ==
  LET mine == wall = max_wall_time
      theirs == wall = incoming.wall_time
  IN  CASE mine /\ theirs  -> MaxOf(max_logical, incoming.logical) + 1
        [] mine /\ ~theirs -> max_logical + 1
        [] ~mine /\ theirs -> incoming.logical + 1
        [] OTHER           -> 0

\* Mutant: the remote wall time is not merged.
LocalWall(incoming) == MaxOf(max_wall_time, phys)

MergedWall(incoming) == MaxOf(MaxOf(max_wall_time, incoming.wall_time), phys)

Update(incoming) ==
  LET wall == MergedWall(incoming) IN
  /\ holder = NoThread
  /\ max_wall_time' = wall
  /\ max_logical' = MergedLogical(incoming, wall) % (UintMax + 1)
  /\ seen' = seen \cup {incoming}
  /\ UNCHANGED <<phys, holder, cache, pc, arg, history>>

\* ThreadLocalClock::now(): serve from the batch, or go and refill it.
BatchNow(t) ==
  /\ t \in Batched /\ pc[t] = "idle"
  /\ \/ /\ phys = cache[t].time /\ cache[t].next < cache[t].end
        /\ cache' = [cache EXCEPT ![t].next = @ + 1]
        /\ Return(t, cache[t].time, cache[t].next)
        /\ UNCHANGED arg
     \/ /\ ~(phys = cache[t].time /\ cache[t].next < cache[t].end)
        /\ cache' = IF phys > cache[t].time
                    THEN [cache EXCEPT ![t] = [time |-> phys, next |-> 0, end |-> 0]]
                    ELSE cache
        /\ arg' = [arg EXCEPT ![t] = phys]
        /\ pc' = [pc EXCEPT ![t] = "refill"]
        /\ UNCHANGED history
  /\ UNCHANGED <<phys, hlc, holder, seen>>

\* Mutant: one tick less is reserved than the batch hands out.
ReservedShort(logical) == logical + BatchSize - 1

ReserveUpTo(logical) == logical + BatchSize

\* reserve_logical(phys_now, BATCH_SIZE), and the new batch if it succeeds.
\* An overflowing reservation fails after it has advanced the wall time.
Reserve(t) ==
  LET advance == arg[t] > max_wall_time
      logical == IF advance THEN 0 ELSE max_logical
      fits == UintMax - logical >= BatchSize
  IN
  /\ t \in Batched /\ pc[t] = "refill" /\ holder = NoThread
  /\ \/ /\ arg[t] < MaxOf(phys, max_wall_time)
        /\ pc' = [pc EXCEPT ![t] = "retry"]
        /\ UNCHANGED <<hlc, cache, history>>
     \/ /\ arg[t] >= MaxOf(phys, max_wall_time)
        /\ max_wall_time' = arg[t]
        /\ \/ /\ fits
              /\ max_logical' = ReserveUpTo(logical)
              /\ cache' = [cache EXCEPT ![t] =
                   [time |-> arg[t],
                    next |-> (logical + 2) % (UintMax + 1),
                    end  |-> (logical + 1 + BatchSize) % (UintMax + 1)]]
              /\ Return(t, arg[t], logical + 1)
           \/ /\ ~fits
              /\ max_logical' = logical
              /\ pc' = [pc EXCEPT ![t] = "retry"]
              /\ UNCHANGED <<cache, history>>
  /\ UNCHANGED <<phys, holder, arg, seen>>

\* The reservation failed: read the time again, and fall back to now() if
\* it has not moved.
Retry(t) ==
  /\ pc[t] = "retry"
  /\ arg' = [arg EXCEPT ![t] = phys]
  /\ pc' = [pc EXCEPT ![t] = IF phys = arg[t] THEN "fallback" ELSE "refill"]
  /\ UNCHANGED <<phys, hlc, holder, cache, history, seen>>

Fallback(t) == pc[t] = "fallback" /\ GlobalNow(t)

Step(t) ==
  \/ Now(t) \/ OverflowSpin(t) \/ OverflowReread(t)
  \/ BatchNow(t) \/ Reserve(t) \/ Retry(t) \/ Fallback(t)

Next ==
  \/ Tick \/ StepBack
  \/ \E ts \in Incoming : Update(ts)
  \/ \E t \in Threads : Step(t)

Spec == Init /\ [][Next]_vars

(***************************************************************************)
(* The two events the code does not guard against: update() overflowing    *)
(* the 32-bit counter, and the system clock being set back between the two *)
(* readings of the overflow wait.  OrderlySpec is the clock without them.  *)
(***************************************************************************)
Merged(incoming) ==
  MergedLogical(incoming, MergedWall(incoming))

Rereading == \E t \in Threads : pc[t] = "reread"

OrderlyNext ==
  \/ Tick
  \/ ~Rereading /\ StepBack
  \/ \E ts \in Incoming : Merged(ts) <= UintMax /\ Update(ts)
  \/ \E t \in Threads : Step(t)

OrderlySpec == Init /\ [][OrderlyNext]_vars
-----------------------------------------------------------------------------
\* The counters of the clock and of every batch stay within 32 bits: no call
\* returns a wrapped logical time.
TypeOK ==
  /\ phys \in Nat /\ max_wall_time \in Nat /\ max_logical \in 0..UintMax
  /\ holder \in Threads \cup {NoThread}
  /\ cache \in [Batched -> [time : Nat, next : 0..UintMax, end : 0..UintMax]]
  /\ pc \in [Threads -> PC] /\ arg \in [Threads -> Nat]
  /\ issued \subseteq Timestamp /\ calls \in Nat
  /\ last \in [Threads -> Timestamp] /\ seen \subseteq Timestamp

\* Thread t's call returns; GlobalReturn(t): from HybridLogicalClock::now()
\* or with the first tick of a new batch.
Returns(t) == calls' # calls /\ Step(t)
GlobalReturn(t) ==
  calls' # calls /\ (Now(t) \/ OverflowReread(t) \/ Fallback(t) \/ Reserve(t))

\* No two calls, on whatever threads and through whichever of the two
\* classes, return the same timestamp, although batches are handed out
\* without a lock long after they were reserved.
FreshTimestamps == Cardinality(issued) = calls

\* What HybridLogicalClock::now() returns, and where a batch begins, is later
\* than everything the node has issued before, the rest of other batches
\* included, even when system time has been set back or the logical counter
\* has run full.
NowIsLatest ==
  [][\A t \in Threads : GlobalReturn(t) =>
       \A ts \in issued : Before(ts, last'[t])]_vars

\* ... and later than every remote timestamp merged with update().
NowIsCausal ==
  [][\A t \in Threads : GlobalReturn(t) =>
       \A ts \in seen : Before(ts, last'[t])]_vars

\* Every timestamp, one served from a batch too, is later than the remote
\* timestamps merged before the call.
EveryReturnIsCausal ==
  [][\A t \in Threads : Returns(t) =>
       \A ts \in seen : Before(ts, last'[t])]_vars

\* Each thread sees its own timestamps increase.
ThreadMonotonic ==
  [][\A t \in Threads : Returns(t) => Before(last[t], last'[t])]_vars
=============================================================================
