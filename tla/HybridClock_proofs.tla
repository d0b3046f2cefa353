------------------------ MODULE HybridClock_proofs --------------------------
(***************************************************************************)
(* For every number of threads, counter width and batch size, and with the *)
(* system clock free to step back: the timestamps of a node are unique,    *)
(* and now() is later than everything issued or merged before it.          *)
(*                                                                         *)
(* The argument: (max_wall_time, max_logical) bounds from above every      *)
(* timestamp issued, merged, or reserved in some thread's batch, and the   *)
(* reserved ranges are disjoint from each other and from what was issued.  *)
(***************************************************************************)
EXTENDS ClockHistory, FiniteSetTheorems, TLAPS

\* ts lies at or below the clock's (max_wall_time_, max_logical_).
UpTo(ts) ==
  \/ ts.wall_time < max_wall_time
  \/ ts.wall_time = max_wall_time /\ ts.logical <= max_logical

\* ts comes before the tick l of wall time w.
Below(ts, w, l) == ts.wall_time < w \/ (ts.wall_time = w /\ ts.logical < l)

\* Logical tick l of wall time w is still in thread t's batch.
Reserved(t, w, l) ==
  w = cache[t].time /\ cache[t].next <= l /\ l < cache[t].end

\* Batches lie below the clock, hold nothing issued, and do not overlap.
BatchInv ==
  \A t \in Batched : \A w, l \in Nat : Reserved(t, w, l) =>
    /\ w < max_wall_time \/ (w = max_wall_time /\ l <= max_logical)
    /\ Ts(w, l, NodeId) \notin issued
    /\ \A u \in Batched \ {t} : ~Reserved(u, w, l)

\* Only the thread inside mx_ is in the overflow wait.
HolderInv ==
  \A t \in Threads :
    /\ pc[t] \in {"overflow", "reread"} => holder = t
    /\ pc[t] = "reread" => phys > max_wall_time

Inv ==
  /\ TypeOK
  /\ \A ts \in issued : UpTo(ts)
  /\ \A ts \in seen : UpTo(ts)
  /\ BatchInv
  /\ HolderInv
  /\ IsFiniteSet(issued)
  /\ FreshTimestamps
-----------------------------------------------------------------------------
USE DEF Full, MergedWall, ReserveUpTo

LEMMA ModSmall == ASSUME NEW a \in Nat, NEW b \in Nat, a < b PROVE a % b = a
  BY SMT

LEMMA ModSelf == ASSUME NEW b \in Nat, b > 0 PROVE b % b = 0
  BY SMT

LEMMA TsType ==
  ASSUME NEW w \in Nat, NEW l \in Nat
  PROVE  /\ Ts(w, l, NodeId) \in Timestamp
         /\ Ts(w, l, NodeId).wall_time = w
         /\ Ts(w, l, NodeId).logical = l
  BY ClockAssumption DEF Ts, Timestamp

LEMMA BelowIsBefore ==
  ASSUME NEW ts, NEW w \in Nat, NEW l \in Nat, Below(ts, w, l),
         ts.wall_time \in Nat, ts.logical \in Nat
  PROVE  Before(ts, Ts(w, l, NodeId))
<1> DEFINE tick == Ts(w, l, NodeId)
<1>1. tick.wall_time = w /\ tick.logical = l
  BY DEF Ts
<1> HIDE DEF tick
<1>2. Before(ts, tick)
  BY <1>1 DEF Below, Before
<1> QED
  BY <1>2 DEF tick

LEMMA NextTickBelow ==
  ASSUME NEW w \in Nat, NEW l \in Nat
  PROVE  Below(Ts(w, l + 1, NodeId), w, l + 2)
<1>1. Ts(w, l + 1, NodeId).wall_time = w /\ Ts(w, l + 1, NodeId).logical = l + 1
  BY DEF Ts
<1>2. l + 1 < l + 2
  OBVIOUS
<1> QED
  BY <1>1, <1>2 DEF Below

\* A tick above the clock is above what the clock bounds.
LEMMA ClockBelow ==
  ASSUME NEW ts, UpTo(ts), ts.wall_time \in Nat, ts.logical \in Nat,
         max_wall_time \in Nat, max_logical \in Nat, NEW w \in Nat, NEW l \in Nat,
         w > max_wall_time \/ (w = max_wall_time /\ l > max_logical)
  PROVE  Below(ts, w, l)
<1>1. CASE ts.wall_time < max_wall_time
  <2>1. ts.wall_time < w
    BY <1>1
  <2> QED
    BY <2>1 DEF Below
<1>2. CASE ts.wall_time = max_wall_time /\ ts.logical <= max_logical
  <2>1. ts.wall_time < w \/ (ts.wall_time = w /\ ts.logical < l)
    BY <1>2
  <2> QED
    BY <2>1 DEF Below
<1> QED
  BY <1>1, <1>2 DEF UpTo

\* The ends of a new batch in 32 bits: it is whole, or found used up.
LEMMA BatchEnds ==
  ASSUME NEW l \in Nat, UintMax - l >= BatchSize
  PROVE  /\ (l + 2) % (UintMax + 1) \in 0..UintMax
         /\ (l + 1 + BatchSize) % (UintMax + 1) \in 0..UintMax
         /\ \/ (l + 1 + BatchSize) % (UintMax + 1) = 0
            \/ /\ (l + 1 + BatchSize) % (UintMax + 1) = l + 1 + BatchSize
               /\ (l + 2) % (UintMax + 1) = l + 2
<1> DEFINE width == UintMax + 1
           end == l + 1 + BatchSize
           next == l + 2
<1>1. /\ width \in Nat /\ width > 0 /\ end \in Nat /\ next \in Nat
      /\ end <= width /\ next <= end /\ \A x \in 0 .. width - 1 : x \in 0..UintMax
      /\ 0 \in 0..UintMax
  BY ClockAssumption
<1> HIDE DEF width, end, next
<1>2. /\ end < width => end % width = end
      /\ next < width => next % width = next
      /\ width % width = 0
  BY <1>1, ModSmall, ModSelf
<1>3. CASE end = width
  <2>1. CASE next = width
    BY <1>1, <1>2, <1>3, <2>1 DEF width, end, next
  <2>2. CASE next < width
    <3>1. next % width = next /\ next \in 0 .. width - 1
      BY <1>1, <1>2, <2>2
    <3> QED
      BY <1>1, <1>2, <1>3, <3>1 DEF width, end, next
  <2> QED
    BY <1>1, <1>3, <2>1, <2>2
<1>4. CASE end < width
  <2>1. next % width = next /\ end % width = end
    BY <1>1, <1>2, <1>4
  <2>2. next \in 0 .. width - 1 /\ end \in 0 .. width - 1
    BY <1>1, <1>4
  <2> QED
    BY <1>1, <2>1, <2>2 DEF width, end, next
<1> QED
  BY <1>1, <1>3, <1>4

LEMMA InitInv == Init => Inv
<1> SUFFICES ASSUME Init PROVE Inv
  OBVIOUS
<1> USE ClockAssumption DEF Init
<1>1. TypeOK
  <2>1. ZeroTs \in Timestamp
    BY DEF ZeroTs, Ts, Timestamp
  <2> QED
    BY <2>1 DEF TypeOK, PC, EmptyCache
<1>2. BatchInv
  BY DEF BatchInv, Reserved, EmptyCache
<1>3. IsFiniteSet(issued) /\ FreshTimestamps
  BY FS_EmptySet DEF FreshTimestamps
<1> QED
  BY <1>1, <1>2, <1>3 DEF Inv, HolderInv

\* A pair above the clock is later than all that was issued or merged.
LEMMA AboveClock ==
  ASSUME Inv, NEW w \in Nat, NEW l \in Nat,
         w > max_wall_time \/ (w = max_wall_time /\ l > max_logical)
  PROVE  /\ \A ts \in issued \cup seen : Before(ts, Ts(w, l, NodeId))
         /\ Ts(w, l, NodeId) \notin issued
<1>1. ASSUME NEW ts \in issued \cup seen PROVE Before(ts, Ts(w, l, NodeId))
  BY <1>1, ClockAssumption DEF Inv, TypeOK, UpTo, Before, Timestamp, Ts
<1>2. ~Before(Ts(w, l, NodeId), Ts(w, l, NodeId))
  BY ClockAssumption DEF Before, Ts
<1> QED
  BY <1>1, <1>2

\* What returning a timestamp that was not issued does to the history.
LEMMA ReturnStep ==
  ASSUME TypeOK, IsFiniteSet(issued), FreshTimestamps,
         NEW t \in Threads, NEW w \in Nat, NEW l \in Nat,
         Return(t, w, l), Ts(w, l, NodeId) \notin issued
  PROVE  /\ issued' = issued \cup {Ts(w, l, NodeId)}
         /\ issued' \subseteq Timestamp /\ calls' \in Nat
         /\ last' \in [Threads -> Timestamp] /\ last'[t] = Ts(w, l, NodeId)
         /\ pc' \in [Threads -> PC] /\ pc' = [pc EXCEPT ![t] = "idle"]
         /\ IsFiniteSet(issued') /\ FreshTimestamps'
<1> USE DEF Return
<1>1. Cardinality(issued') = Cardinality(issued) + 1 /\ IsFiniteSet(issued')
  BY FS_AddElement
<1> QED
  BY <1>1, TsType DEF TypeOK, PC, FreshTimestamps

\* Raising the clock and issuing a pair above it leaves the batches intact.
LEMMA BatchKept ==
  ASSUME Inv, TypeOK', cache' = cache,
         NEW w0 \in Nat, NEW l0 \in Nat,
         w0 > max_wall_time \/ (w0 = max_wall_time /\ l0 > max_logical),
         max_wall_time' = w0, max_logical' = l0,
         issued' = issued \cup {Ts(w0, l0, NodeId)}
  PROVE  BatchInv'
<1> USE ClockAssumption
<1> SUFFICES ASSUME NEW t \in Batched, NEW w \in Nat, NEW l \in Nat,
                    Reserved(t, w, l)'
             PROVE  /\ w < w0 \/ (w = w0 /\ l <= l0)
                    /\ Ts(w, l, NodeId) \notin issued'
                    /\ \A u \in Batched \ {t} : ~Reserved(u, w, l)'
  BY DEF BatchInv
<1>1. Reserved(t, w, l)
  BY DEF Reserved
<1>2. /\ w < max_wall_time \/ (w = max_wall_time /\ l <= max_logical)
      /\ Ts(w, l, NodeId) \notin issued
      /\ \A u \in Batched \ {t} : ~Reserved(u, w, l)
  BY <1>1 DEF Inv, BatchInv
<1>3. max_wall_time \in Nat /\ max_logical \in Nat
  BY DEF Inv, TypeOK
<1>4. w # w0 \/ l # l0
  BY <1>2, <1>3
<1>5. Ts(w, l, NodeId) # Ts(w0, l0, NodeId)
  BY <1>4 DEF Ts
<1> QED
  BY <1>2, <1>3, <1>5 DEF Reserved

LEMMA GlobalNowInv ==
  ASSUME Inv, NEW t \in Threads, GlobalNow(t)
  PROVE  Inv'
<1> USE DEF Inv
<1>1. CASE /\ phys > max_wall_time
           /\ max_wall_time' = phys /\ max_logical' = 0
           /\ Return(t, phys, 0)
           /\ UNCHANGED holder
  <2>1. phys \in Nat /\ Ts(phys, 0, NodeId) \notin issued
    BY <1>1, AboveClock DEF TypeOK
  <2>2. /\ issued' = issued \cup {Ts(phys, 0, NodeId)}
        /\ issued' \subseteq Timestamp /\ calls' \in Nat
        /\ last' \in [Threads -> Timestamp]
        /\ pc' \in [Threads -> PC] /\ pc' = [pc EXCEPT ![t] = "idle"]
        /\ IsFiniteSet(issued') /\ FreshTimestamps'
    BY <1>1, <2>1, ReturnStep
  <2>3. TypeOK'
    BY <1>1, <2>2, ClockAssumption DEF TypeOK, GlobalNow
  <2>4. \A ts \in issued' : UpTo(ts)'
    BY <1>1, <2>1, <2>2, ClockAssumption DEF UpTo, TypeOK, Timestamp, Ts
  <2>5. \A ts \in seen' : UpTo(ts)'
    BY <1>1 DEF UpTo, TypeOK, Timestamp, GlobalNow
  <2>6. BatchInv'
    BY <1>1, <2>1, <2>2, <2>3, BatchKept DEF TypeOK, GlobalNow
  <2>7. HolderInv'
    BY <1>1, <2>2, ClockAssumption DEF HolderInv, TypeOK, GlobalNow
  <2> QED
    BY <2>2, <2>3, <2>4, <2>5, <2>6, <2>7
<1>2. CASE /\ phys <= max_wall_time /\ max_logical # UintMax
           /\ max_logical' = max_logical + 1
           /\ Return(t, max_wall_time, max_logical + 1)
           /\ UNCHANGED <<max_wall_time, holder>>
  <2>1. /\ max_wall_time \in Nat /\ max_logical + 1 \in Nat
        /\ Ts(max_wall_time, max_logical + 1, NodeId) \notin issued
    BY AboveClock DEF TypeOK
  <2>2. /\ issued' = issued \cup {Ts(max_wall_time, max_logical + 1, NodeId)}
        /\ issued' \subseteq Timestamp /\ calls' \in Nat
        /\ last' \in [Threads -> Timestamp]
        /\ pc' \in [Threads -> PC] /\ pc' = [pc EXCEPT ![t] = "idle"]
        /\ IsFiniteSet(issued') /\ FreshTimestamps'
    BY <1>2, <2>1, ReturnStep
  <2>3. TypeOK'
    BY <1>2, <2>2, ClockAssumption DEF TypeOK, GlobalNow
  <2>4. \A ts \in issued' : UpTo(ts)'
    BY <1>2, <2>1, <2>2, ClockAssumption DEF UpTo, TypeOK, Timestamp, Ts
  <2>5. \A ts \in seen' : UpTo(ts)'
    BY <1>2 DEF UpTo, TypeOK, Timestamp, GlobalNow
  <2>6. BatchInv'
    BY <1>2, <2>1, <2>2, <2>3, BatchKept DEF TypeOK, GlobalNow
  <2>7. HolderInv'
    BY <1>2, <2>2, ClockAssumption DEF HolderInv, TypeOK, GlobalNow
  <2> QED
    BY <2>2, <2>3, <2>4, <2>5, <2>6, <2>7
<1>3. CASE /\ phys <= max_wall_time /\ max_logical = UintMax
           /\ holder' = t
           /\ pc' = [pc EXCEPT ![t] = "overflow"]
           /\ UNCHANGED <<hlc, history>>
  <2>1. TypeOK'
    BY <1>3 DEF TypeOK, GlobalNow, hlc, history, PC
  <2>2. BatchInv' /\ \A ts \in issued' \cup seen' : UpTo(ts)'
    BY <1>3 DEF BatchInv, Reserved, UpTo, GlobalNow, hlc, history
  <2>3. HolderInv'
    BY <1>3, ClockAssumption DEF HolderInv, TypeOK, GlobalNow, hlc
  <2>4. IsFiniteSet(issued') /\ FreshTimestamps'
    BY <1>3 DEF FreshTimestamps, history
  <2> QED
    BY <2>1, <2>2, <2>3, <2>4
<1> QED
  BY <1>1, <1>2, <1>3 DEF GlobalNow

LEMMA OverflowRereadInv ==
  ASSUME Inv, NEW t \in Threads, OverflowReread(t)
  PROVE  Inv'
<1> USE ClockAssumption DEF Inv
<1>1. phys \in Nat /\ phys > max_wall_time /\ holder = t
  BY DEF TypeOK, HolderInv, OverflowReread
<1>2. Ts(phys, 0, NodeId) \notin issued
  BY <1>1, AboveClock
<1>3. /\ issued' = issued \cup {Ts(phys, 0, NodeId)}
      /\ issued' \subseteq Timestamp /\ calls' \in Nat
      /\ last' \in [Threads -> Timestamp]
      /\ pc' \in [Threads -> PC] /\ pc' = [pc EXCEPT ![t] = "idle"]
      /\ IsFiniteSet(issued') /\ FreshTimestamps'
  BY <1>1, <1>2, ReturnStep DEF OverflowReread
<1>4. TypeOK'
  BY <1>3 DEF TypeOK, OverflowReread
<1>0. max_wall_time' = phys /\ max_logical' = 0 /\ seen' = seen
  BY DEF OverflowReread
<1>5. ASSUME NEW ts \in issued' PROVE UpTo(ts)'
  <2>1. CASE ts \in issued
    <3>1. ts.wall_time \in Nat /\ max_wall_time \in Nat
      BY <2>1 DEF TypeOK, Timestamp
    <3>2. ts.wall_time <= max_wall_time
      BY <2>1, <3>1 DEF UpTo
    <3> QED
      BY <1>0, <1>1, <3>1, <3>2 DEF UpTo
  <2>2. CASE ts = Ts(phys, 0, NodeId)
    <3>1. ts.wall_time = phys /\ ts.logical = 0
      BY <1>1, <2>2, TsType
    <3> QED
      BY <1>0, <3>1 DEF UpTo
  <2> QED
    BY <1>3, <2>1, <2>2
<1>6. \A ts \in seen' : UpTo(ts)'
  BY <1>0, <1>1 DEF UpTo, TypeOK, Timestamp
<1>7. BatchInv'
  BY <1>1, <1>3, <1>4, BatchKept DEF OverflowReread
<1>8. HolderInv'
  BY <1>1, <1>3 DEF HolderInv, TypeOK, OverflowReread
<1> QED
  BY <1>3, <1>4, <1>5, <1>6, <1>7, <1>8

\* Steps that change neither the clock, the batches nor the history.
LEMMA QuietInv ==
  ASSUME Inv, TypeOK', HolderInv', UNCHANGED <<hlc, cache, history, seen>>
  PROVE  Inv'
  BY DEF Inv, BatchInv, Reserved, UpTo, FreshTimestamps, hlc, history

LEMMA OverflowSpinInv ==
  ASSUME Inv, NEW t \in Threads, OverflowSpin(t)
  PROVE  Inv'
<1>1. TypeOK' /\ HolderInv'
  BY DEF Inv, TypeOK, HolderInv, OverflowSpin, PC, hlc, history
<1> QED
  BY <1>1, QuietInv DEF OverflowSpin

LEMMA RetryInv ==
  ASSUME Inv, NEW t \in Threads, Retry(t)
  PROVE  Inv'
<1>1. TypeOK' /\ HolderInv'
  BY DEF Inv, TypeOK, HolderInv, Retry, PC, hlc, history
<1> QED
  BY <1>1, QuietInv DEF Retry

LEMMA TickInv ==
  ASSUME Inv, Tick \/ (~Rereading /\ StepBack)
  PROVE  Inv'
<1>1. TypeOK'
  BY DEF Inv, TypeOK, Tick, StepBack, hlc, history
<1>2. HolderInv'
  BY DEF Inv, TypeOK, HolderInv, Rereading, Tick, StepBack, hlc
<1> QED
  BY <1>1, <1>2, QuietInv DEF Tick, StepBack

LEMMA UpdateInv ==
  ASSUME Inv, NEW incoming \in Incoming, Merged(incoming) <= UintMax,
         Update(incoming)
  PROVE  Inv'
<1> USE ClockAssumption DEF Inv
<1> DEFINE wall == MaxOf(MaxOf(max_wall_time, incoming.wall_time), phys)
<1>1. /\ incoming \in Timestamp /\ incoming.wall_time \in Nat
      /\ incoming.logical \in Nat
      /\ max_wall_time \in Nat /\ max_logical \in Nat /\ phys \in Nat
  BY DEF Timestamp, TypeOK
<1>2. /\ wall \in Nat /\ wall >= max_wall_time
      /\ wall >= incoming.wall_time
  BY <1>1 DEF MaxOf
<1>3. /\ MergedLogical(incoming, wall) \in Nat
      /\ wall = max_wall_time => MergedLogical(incoming, wall) > max_logical
      /\ wall = incoming.wall_time
           => MergedLogical(incoming, wall) > incoming.logical
  BY <1>1, <1>2 DEF MergedLogical, MaxOf
<1>4. max_wall_time' = wall /\ max_logical' = MergedLogical(incoming, wall)
  BY <1>1, <1>3, ModSmall DEF Update, Merged
<1> HIDE DEF wall
<1>5. TypeOK'
  BY <1>1, <1>2, <1>3, <1>4 DEF TypeOK, Update, history, Merged, wall
<1>6. \A ts \in issued' \cup seen' : UpTo(ts)'
  <2> SUFFICES ASSUME NEW ts \in issued \cup seen \cup {incoming}
               PROVE  UpTo(ts)'
    BY DEF Update, history
  <2>1. ts.wall_time \in Nat /\ ts.logical \in Nat
    BY <1>1 DEF TypeOK, Timestamp
  <2>2. UpTo(ts) \/ ts = incoming
    OBVIOUS
  <2> QED
    BY <1>1, <1>2, <1>3, <1>4, <2>1, <2>2 DEF UpTo
<1>7. BatchInv'
  <2> SUFFICES ASSUME NEW t \in Batched, NEW w \in Nat, NEW l \in Nat,
                      Reserved(t, w, l)'
               PROVE  /\ w < wall \/ (w = wall /\ l <= max_logical')
                      /\ Ts(w, l, NodeId) \notin issued'
                      /\ \A u \in Batched \ {t} : ~Reserved(u, w, l)'
    BY <1>4 DEF BatchInv
  <2>1. Reserved(t, w, l)
    BY DEF Reserved, Update
  <2> QED
    BY <1>1, <1>2, <1>3, <1>4, <2>1
    DEF BatchInv, Reserved, Update, history
<1>8. HolderInv'
  BY DEF HolderInv, Update, TypeOK
<1> QED
  BY <1>5, <1>6, <1>7, <1>8 DEF Update, history, FreshTimestamps

\* Giving ticks back, or dropping them, cannot make batches collide.
LEMMA BatchShrinks ==
  ASSUME Inv, UNCHANGED <<hlc, issued>>,
         \A t \in Batched : \A w, l \in Nat :
           Reserved(t, w, l)' => Reserved(t, w, l)
  PROVE  BatchInv'
  BY DEF Inv, BatchInv, hlc

LEMMA BatchNowInv ==
  ASSUME Inv, NEW t \in Threads, BatchNow(t)
  PROVE  Inv'
<1> USE ClockAssumption DEF Inv
<1>1. CASE /\ phys = cache[t].time /\ cache[t].next < cache[t].end
           /\ cache' = [cache EXCEPT ![t].next = @ + 1]
           /\ Return(t, cache[t].time, cache[t].next)
           /\ UNCHANGED arg
  <2> DEFINE w0 == cache[t].time
             l0 == cache[t].next
  <2>1. /\ t \in Batched /\ w0 \in Nat /\ l0 \in Nat /\ Reserved(t, w0, l0)
        /\ l0 + 1 \in 0..UintMax
    BY <1>1 DEF BatchNow, Reserved, TypeOK
  <2>2. /\ w0 < max_wall_time \/ (w0 = max_wall_time /\ l0 <= max_logical)
        /\ Ts(w0, l0, NodeId) \notin issued
        /\ \A u \in Batched \ {t} : ~Reserved(u, w0, l0)
    BY <2>1 DEF BatchInv
  <2>3. /\ issued' = issued \cup {Ts(w0, l0, NodeId)}
        /\ issued' \subseteq Timestamp /\ calls' \in Nat
        /\ last' \in [Threads -> Timestamp]
        /\ pc' \in [Threads -> PC] /\ pc' = [pc EXCEPT ![t] = "idle"]
        /\ IsFiniteSet(issued') /\ FreshTimestamps'
    BY <1>1, <2>1, <2>2, ReturnStep
  <2>4. TypeOK'
    BY <1>1, <2>1, <2>3 DEF TypeOK, BatchNow, hlc
  <2>5. \A ts \in issued' \cup seen' : UpTo(ts)'
    BY <2>1, <2>2, <2>3 DEF UpTo, BatchNow, hlc, Ts
  <2>6. BatchInv'
    <3> SUFFICES ASSUME NEW u \in Batched, NEW w \in Nat, NEW l \in Nat,
                        Reserved(u, w, l)'
                 PROVE  /\ \/ w < max_wall_time'
                           \/ w = max_wall_time' /\ l <= max_logical'
                        /\ Ts(w, l, NodeId) \notin issued'
                        /\ \A v \in Batched \ {u} : ~Reserved(v, w, l)'
      BY DEF BatchInv
    <3>1. \A v \in Batched : Reserved(v, w, l)' => Reserved(v, w, l)
      BY <1>1, <2>1 DEF Reserved, TypeOK
    <3>2. w # w0 \/ l # l0
      <4>1. CASE u = t
        BY <1>1, <2>1, <4>1 DEF Reserved, TypeOK
      <4>2. CASE u # t
        BY <2>2, <3>1, <4>2
      <4> QED
        BY <4>1, <4>2
    <3>3. Ts(w, l, NodeId) # Ts(w0, l0, NodeId)
      BY <3>2 DEF Ts
    <3> QED
      BY <2>3, <3>1, <3>3 DEF BatchInv, BatchNow, hlc
  <2>7. HolderInv'
    BY <2>3 DEF HolderInv, TypeOK, BatchNow, hlc
  <2> QED
    BY <2>3, <2>4, <2>5, <2>6, <2>7
<1>2. CASE /\ cache' = IF phys > cache[t].time
                       THEN [cache EXCEPT ![t] = [time |-> phys, next |-> 0, end |-> 0]]
                       ELSE cache
           /\ arg' = [arg EXCEPT ![t] = phys]
           /\ pc' = [pc EXCEPT ![t] = "refill"]
           /\ UNCHANGED history
  <2>1. TypeOK'
    BY <1>2 DEF TypeOK, BatchNow, PC, hlc, history
  <2>2. HolderInv'
    BY <1>2 DEF HolderInv, TypeOK, BatchNow, hlc
  <2>3. BatchInv'
    <3>1. \A u \in Batched : \A w, l \in Nat :
            Reserved(u, w, l)' => Reserved(u, w, l)
      BY <1>2 DEF Reserved, TypeOK, BatchNow
    <3> QED
      BY <1>2, <3>1, BatchShrinks DEF BatchNow, history
  <2>4. \A ts \in issued' \cup seen' : UpTo(ts)'
    BY <1>2 DEF UpTo, BatchNow, hlc, history
  <2> QED
    BY <1>2, <2>1, <2>2, <2>3, <2>4 DEF history, FreshTimestamps
<1> QED
  BY <1>1, <1>2 DEF BatchNow

\* A batch is reserved above the clock, so it meets nothing handed out so far.
LEMMA ReserveInv ==
  ASSUME Inv, NEW t \in Threads, Reserve(t)
  PROVE  Inv'
<1> USE ClockAssumption DEF Inv
<1> DEFINE logical == IF arg[t] > max_wall_time THEN 0 ELSE max_logical
           l0 == logical + 1
<1>0. t \in Batched
  BY DEF Reserve
<1>1. /\ arg[t] \in Nat /\ phys \in Nat /\ max_wall_time \in Nat
      /\ max_logical \in Nat /\ logical \in 0..UintMax /\ l0 \in Nat
  BY DEF TypeOK
<1> USE <1>0
<1>2. CASE /\ arg[t] < MaxOf(phys, max_wall_time)
           /\ pc' = [pc EXCEPT ![t] = "retry"]
           /\ UNCHANGED <<hlc, cache, history>>
  <2>1. TypeOK' /\ HolderInv'
    BY <1>2 DEF TypeOK, HolderInv, Reserve, PC, hlc, history
  <2> QED
    BY <1>2, <2>1, QuietInv DEF Reserve
<1>3. CASE arg[t] >= MaxOf(phys, max_wall_time) /\ max_wall_time' = arg[t]
  <2> HIDE DEF logical
  <2>1. arg[t] >= max_wall_time
    BY <1>1, <1>3 DEF MaxOf
  <2>2. arg[t] > max_wall_time \/ (arg[t] = max_wall_time /\ l0 > max_logical)
    BY <1>1, <2>1 DEF logical
  <2>3. \A ts \in issued \cup seen : ts.wall_time \in Nat /\ ts.logical \in Nat
    BY DEF TypeOK, Timestamp
  <2>4. CASE /\ UintMax - logical >= BatchSize
             /\ max_logical' = logical + BatchSize
             /\ cache' = [cache EXCEPT ![t] =
                  [time |-> arg[t],
                   next |-> (logical + 2) % (UintMax + 1),
                   end  |-> (logical + 1 + BatchSize) % (UintMax + 1)]]
             /\ Return(t, arg[t], logical + 1)
    <3>1. Ts(arg[t], l0, NodeId) \notin issued
      BY <1>1, <2>2, AboveClock
    <3>2. /\ issued' = issued \cup {Ts(arg[t], l0, NodeId)}
          /\ issued' \subseteq Timestamp /\ calls' \in Nat
          /\ last' \in [Threads -> Timestamp]
          /\ pc' \in [Threads -> PC] /\ pc' = [pc EXCEPT ![t] = "idle"]
          /\ IsFiniteSet(issued') /\ FreshTimestamps'
      BY <1>1, <2>4, <3>1, ReturnStep, SMTT(30)
    <3>3. /\ cache'[t].time = arg[t]
          /\ cache'[t].next \in 0..UintMax /\ cache'[t].end \in 0..UintMax
          /\ \/ cache'[t].end = 0
             \/ /\ cache'[t].end = logical + 1 + BatchSize
                /\ cache'[t].next = logical + 2
          /\ \A u \in Batched \ {t} : cache'[u] = cache[u]
          /\ cache' \in [Batched -> [time : Nat, next : 0..UintMax, end : 0..UintMax]]
      <4> DEFINE next == (logical + 2) % (UintMax + 1)
                 end == (logical + 1 + BatchSize) % (UintMax + 1)
      <4>1. /\ next \in 0..UintMax /\ end \in 0..UintMax
            /\ end = 0 \/ (end = logical + 1 + BatchSize /\ next = logical + 2)
        <5>1. logical \in Nat /\ UintMax - logical >= BatchSize
          BY <1>1, <2>4
        <5> QED
          BY <5>1, BatchEnds
      <4>2. cache' = [cache EXCEPT ![t] = [time |-> arg[t], next |-> next, end |-> end]]
        BY <2>4
      <4> HIDE DEF next, end
      <4>3. [time |-> arg[t], next |-> next, end |-> end]
              \in [time : Nat, next : 0..UintMax, end : 0..UintMax]
        BY <1>1, <4>1
      <4>4. cache \in [Batched -> [time : Nat, next : 0..UintMax, end : 0..UintMax]]
        BY DEF TypeOK
      <4> HIDE ClockAssumption DEF Inv
      <4>5. /\ cache' \in [Batched -> [time : Nat, next : 0..UintMax, end : 0..UintMax]]
            /\ cache'[t] = [time |-> arg[t], next |-> next, end |-> end]
            /\ \A u \in Batched \ {t} : cache'[u] = cache[u]
        BY <4>2, <4>3, <4>4
      <4>6. cache'[t].time = arg[t] /\ cache'[t].next = next /\ cache'[t].end = end
        BY <4>5
      <4> QED
        BY <4>1, <4>5, <4>6
    <3>4. TypeOK'
      <4>1. max_logical' \in 0..UintMax /\ max_wall_time' \in Nat
        BY <1>1, <1>3, <2>4
      <4>2. TypeOK /\ UNCHANGED <<phys, holder, arg, seen>>
        BY DEF Reserve
      <4> HIDE ClockAssumption DEF Inv
      <4> QED
        BY <3>2, <3>3, <4>1, <4>2 DEF TypeOK
    <3>5. \A ts \in issued' \cup seen' : UpTo(ts)'
      <4> SUFFICES ASSUME NEW ts \in issued \cup seen \cup {Ts(arg[t], l0, NodeId)}
                   PROVE  UpTo(ts)'
        BY <3>2 DEF Reserve
      <4>1. CASE ts \in issued \cup seen
        BY <1>1, <1>3, <2>1, <2>3, <2>4, <4>1 DEF UpTo, logical
      <4>2. CASE ts = Ts(arg[t], l0, NodeId)
        BY <1>1, <1>3, <2>4, <4>2 DEF UpTo, Ts
      <4> QED
        BY <4>1, <4>2
    <3>6. BatchInv'
      <4> SUFFICES ASSUME NEW u \in Batched, NEW w \in Nat, NEW l \in Nat,
                          Reserved(u, w, l)'
                   PROVE  /\ \/ w < max_wall_time'
                             \/ w = max_wall_time' /\ l <= max_logical'
                          /\ Ts(w, l, NodeId) \notin issued'
                          /\ \A v \in Batched \ {u} : ~Reserved(v, w, l)'
        BY DEF BatchInv
      <4>1. \A v \in Batched \ {t} : Reserved(v, w, l)' =>
              /\ Reserved(v, w, l)
              /\ w < max_wall_time \/ (w = max_wall_time /\ l <= max_logical)
        <5>1. \A v \in Batched \ {t} : Reserved(v, w, l)' => Reserved(v, w, l)
          BY <3>3 DEF Reserved
        <5> QED
          BY <5>1 DEF BatchInv
      <4>2. CASE u = t
        <5>1. w = arg[t] /\ logical + 2 <= l /\ l < logical + 1 + BatchSize
          BY <1>1, <3>3, <4>2 DEF Reserved
        <5>2. w > max_wall_time \/ (w = max_wall_time /\ l > max_logical)
          BY <1>1, <2>2, <5>1
        <5>3. Ts(w, l, NodeId) \notin issued
          BY <5>2, AboveClock
        <5>4. Ts(w, l, NodeId) # Ts(arg[t], l0, NodeId)
          BY <1>1, <5>1 DEF Ts
        <5>5. \A v \in Batched \ {u} : ~Reserved(v, w, l)'
          BY <1>1, <4>1, <4>2, <5>2
        <5> QED
          BY <1>1, <1>3, <2>4, <3>2, <5>1, <5>3, <5>4, <5>5, SMTT(30)
      <4>3. CASE u # t
        <5>1. /\ Reserved(u, w, l)
              /\ w < max_wall_time \/ (w = max_wall_time /\ l <= max_logical)
          BY <4>1, <4>3
        <5>2. Ts(w, l, NodeId) \notin issued
              /\ \A v \in Batched \ {u} : ~Reserved(v, w, l)
          BY <5>1 DEF BatchInv
        <5>3. w # arg[t] \/ l < l0
          BY <1>1, <2>2, <5>1
        <5>4. Ts(w, l, NodeId) # Ts(arg[t], l0, NodeId)
          BY <1>1, <5>3 DEF Ts
        <5>5. ~Reserved(t, w, l)'
          BY <1>1, <3>3, <5>3 DEF Reserved
        <5>6. \A v \in Batched \ {u} : ~Reserved(v, w, l)'
          BY <4>1, <5>2, <5>5
        <5>7. w < arg[t] \/ (w = arg[t] /\ l <= logical + BatchSize)
          BY <1>1, <2>1, <5>1, <5>3, SMTT(30)
        <5> QED
          BY <1>3, <2>4, <3>2, <5>2, <5>4, <5>6, <5>7
      <4> QED
        BY <4>2, <4>3
    <3>7. HolderInv'
      BY <2>4, <3>2 DEF HolderInv, TypeOK, Reserve
    <3> QED
      BY <3>2, <3>4, <3>5, <3>6, <3>7
  <2>5. CASE /\ max_logical' = logical
             /\ pc' = [pc EXCEPT ![t] = "retry"]
             /\ UNCHANGED <<cache, history>>
    <3>1. TypeOK'
      BY <1>1, <1>3, <2>5 DEF TypeOK, Reserve, PC, history
    <3>2. HolderInv'
      <4>1. /\ holder = NoThread /\ holder' = holder /\ pc \in [Threads -> PC]
            /\ \A u \in Threads : pc[u] \notin {"overflow", "reread"}
        BY DEF Reserve, TypeOK, HolderInv
      <4>2. \A u \in Threads : pc'[u] \notin {"overflow", "reread"}
        BY <2>5, <4>1
      <4> QED
        BY <4>2 DEF HolderInv
    <3>3. \A ts \in issued' \cup seen' : UpTo(ts)'
      <4>1. issued' = issued /\ seen' = seen
        BY <2>5 DEF Reserve, history
      <4>2. \/ max_wall_time < max_wall_time'
            \/ max_wall_time' = max_wall_time /\ max_logical' = max_logical
        BY <1>1, <1>3, <2>1, <2>5 DEF logical
      <4>3. max_wall_time' \in Nat
        BY <1>1, <1>3
      <4>4. ASSUME NEW ts \in issued \cup seen PROVE UpTo(ts)'
        <5>1. UpTo(ts) /\ ts.wall_time \in Nat /\ ts.logical \in Nat
          BY <2>3
        <5> HIDE ClockAssumption DEF Inv
        <5> QED
          BY <1>1, <4>2, <4>3, <5>1 DEF UpTo
      <4> QED
        BY <4>1, <4>4
    <3>4. BatchInv'
      <4>1. \A u \in Batched : \A w, l \in Nat :
              w < max_wall_time \/ (w = max_wall_time /\ l <= max_logical)
              => w < max_wall_time' \/ (w = max_wall_time' /\ l <= max_logical')
        BY <1>1, <1>3, <2>1, <2>5 DEF logical
      <4> QED
        BY <2>5, <4>1 DEF BatchInv, Reserved, history
    <3> QED
      BY <2>5, <3>1, <3>2, <3>3, <3>4, SMTT(30) DEF history, FreshTimestamps
  <2> QED
    BY <1>1, <1>3, <2>4, <2>5 DEF Reserve, logical, MaxOf
<1> QED
  BY <1>2, <1>3 DEF Reserve

LEMMA NextInv == Inv /\ [OrderlyNext]_vars => Inv'
<1> SUFFICES ASSUME Inv, [OrderlyNext]_vars PROVE Inv'
  OBVIOUS
<1>1. CASE Tick \/ (~Rereading /\ StepBack)
  BY <1>1, TickInv
<1>2. CASE \E ts \in Incoming : Merged(ts) <= UintMax /\ Update(ts)
  BY <1>2, UpdateInv
<1>3. CASE \E t \in Threads : Step(t)
  <2> PICK t \in Threads : Step(t)
    BY <1>3
  <2>1. CASE Now(t) \/ Fallback(t)
    BY <2>1, GlobalNowInv DEF Now, Fallback
  <2>2. CASE OverflowSpin(t)
    BY <2>2, OverflowSpinInv
  <2>3. CASE OverflowReread(t)
    BY <2>3, OverflowRereadInv
  <2>4. CASE BatchNow(t)
    BY <2>4, BatchNowInv
  <2>5. CASE Reserve(t)
    BY <2>5, ReserveInv
  <2>6. CASE Retry(t)
    BY <2>6, RetryInv
  <2> QED
    BY <2>1, <2>2, <2>3, <2>4, <2>5, <2>6 DEF Step
<1>4. CASE UNCHANGED vars
  <2>1. TypeOK' /\ HolderInv'
    BY <1>4 DEF Inv, TypeOK, HolderInv, vars, hlc, history
  <2> QED
    BY <1>4, <2>1, QuietInv DEF vars
<1> QED
  BY <1>1, <1>2, <1>3, <1>4 DEF OrderlyNext

LEMMA AlwaysInv == OrderlySpec => []Inv
  BY InitInv, NextInv, PTL DEF OrderlySpec

\* The clock's state and every thread's batch stay within their types; the
\* 32-bit counter never leaves its range.
THEOREM TypeCorrect == OrderlySpec => []TypeOK
<1>1. Inv => TypeOK
  BY DEF Inv
<1> QED
  BY AlwaysInv, <1>1, PTL

\* The timestamps now() and the thread-local batches return are pairwise
\* distinct, for any number of threads, any counter width and batch size,
\* and any movement of the system clock outside the overflow re-read.
THEOREM TimestampsAreFresh == OrderlySpec => []FreshTimestamps
<1>1. Inv => FreshTimestamps
  BY DEF Inv
<1> QED
  BY AlwaysInv, <1>1, PTL

\* What a returning HybridLogicalClock::now() hands out, and the first tick of
\* a batch, lie above the clock.
LEMMA ReturnIsAbove ==
  ASSUME Inv, NEW t \in Threads, GlobalReturn(t)
  PROVE  \A ts \in issued \cup seen : Before(ts, last'[t])
<1> USE ClockAssumption
<1> SUFFICES ASSUME NEW ts \in issued \cup seen PROVE Before(ts, last'[t])
  OBVIOUS
<1>1. UpTo(ts) /\ ts.wall_time \in Nat /\ ts.logical \in Nat
  BY DEF Inv, TypeOK, Timestamp
<1>2. /\ phys \in Nat /\ max_wall_time \in Nat /\ max_logical \in Nat
      /\ t \in DOMAIN last
  BY DEF Inv, TypeOK
<1>0. ASSUME NEW w \in Nat, NEW l \in Nat, Return(t, w, l),
             w > max_wall_time \/ (w = max_wall_time /\ l > max_logical)
      PROVE  Before(ts, last'[t])
  <2>1. last'[t] = Ts(w, l, NodeId)
    BY <1>0, <1>2 DEF Return
  <2>2. Below(ts, w, l)
    BY <1>0, <1>1, <1>2, ClockBelow
  <2>3. Before(ts, Ts(w, l, NodeId))
    BY <1>1, <2>2, BelowIsBefore
  <2> QED
    BY <2>1, <2>3
<1>3. CASE GlobalNow(t)
  <2>1. CASE phys > max_wall_time /\ Return(t, phys, 0)
    BY <1>2, <1>0, <2>1
  <2>2. CASE Return(t, max_wall_time, max_logical + 1)
    <3>1. max_logical + 1 \in Nat /\ max_logical + 1 > max_logical
      BY <1>2
    <3> QED
      BY <1>2, <1>0, <2>2, <3>1
  <2>3. CASE UNCHANGED history
    BY <2>3 DEF history, GlobalReturn
  <2> QED
    BY <1>3, <2>1, <2>2, <2>3 DEF GlobalNow
<1>4. CASE OverflowReread(t)
  <2>1. phys > max_wall_time /\ Return(t, phys, 0)
    BY <1>4 DEF Inv, HolderInv, OverflowReread
  <2> QED
    BY <1>2, <1>0, <2>1
<1>5. CASE Reserve(t)
  <2> DEFINE logical == IF arg[t] > max_wall_time THEN 0 ELSE max_logical
  <2>1. arg[t] \in Nat
    BY DEF Inv, TypeOK
  <2>2. arg[t] >= MaxOf(phys, max_wall_time) /\ Return(t, arg[t], logical + 1)
    BY <1>5 DEF Reserve, GlobalReturn, history
  <2>3. arg[t] > max_wall_time \/ (arg[t] = max_wall_time /\ logical = max_logical)
    <3>1. arg[t] >= max_wall_time
      BY <1>2, <2>1, <2>2 DEF MaxOf
    <3>2. arg[t] > max_wall_time \/ arg[t] = max_wall_time
      BY <1>2, <2>1, <3>1
    <3>3. ~(arg[t] > max_wall_time) => logical = max_logical
      OBVIOUS
    <3> HIDE DEF logical
    <3> QED
      BY <3>2, <3>3
  <2>4. logical \in Nat
    BY <1>2
  <2> HIDE DEF logical
  <2>5. /\ logical + 1 \in Nat
        /\ arg[t] > max_wall_time \/ (arg[t] = max_wall_time /\ logical + 1 > max_logical)
    BY <1>2, <2>3, <2>4
  <2> QED
    BY <1>0, <2>1, <2>2, <2>5
<1> QED
  BY <1>3, <1>4, <1>5 DEF GlobalReturn, Now, Fallback

\* HybridLogicalClock::now() returns, and a batch begins with, a timestamp later
\* than all the node has issued, also those other threads drew from batches.
THEOREM NowLatest == OrderlySpec => NowIsLatest
<1>1. Inv /\ [OrderlyNext]_vars =>
        [\A t \in Threads : GlobalReturn(t) =>
           \A ts \in issued : Before(ts, last'[t])]_vars
  BY ReturnIsAbove
<1> QED
  BY AlwaysInv, <1>1, PTL DEF OrderlySpec, NowIsLatest

\* ... and later than every remote timestamp given to update() before.
THEOREM NowCausal == OrderlySpec => NowIsCausal
<1>1. Inv /\ [OrderlyNext]_vars =>
        [\A t \in Threads : GlobalReturn(t) =>
           \A ts \in seen : Before(ts, last'[t])]_vars
  BY ReturnIsAbove
<1> QED
  BY AlwaysInv, <1>1, PTL DEF OrderlySpec, NowIsCausal
-----------------------------------------------------------------------------
(***************************************************************************)
(* The cached batches of ThreadLocalClock.  Until system time is set back, *)
(* a thread with an open batch is between two calls and its latest         *)
(* timestamp lies below the batch; whatever happens, so do the remote      *)
(* timestamps that were merged when it was reserved.                       *)
(***************************************************************************)
Open(t) == cache[t].next < cache[t].end

LastInv == phys >= 1 /\ \A t \in Threads : last[t] \in issued \cup {ZeroTs}

KnownInv ==
  \A t \in Batched :
    /\ known[t] \subseteq seen
    /\ Open(t) => \A ts \in known[t] : Below(ts, cache[t].time, cache[t].next)

ForwardInv ==
  ~stepped =>
    \A t \in Batched :
      /\ cache[t].time <= phys /\ arg[t] <= phys
      /\ Open(t) => pc[t] = "idle" /\ Below(last[t], cache[t].time, cache[t].next)

HInv == Inv /\ LastInv /\ KnownInv /\ ForwardInv

LEMMA HistoryInitInv == HistoryInit => HInv
<1> SUFFICES ASSUME HistoryInit PROVE HInv
  OBVIOUS
<1>1. Inv
  BY InitInv DEF HistoryInit
<1>2. LastInv
  BY DEF HistoryInit, Init, LastInv
<1>3. KnownInv
  BY DEF HistoryInit, Init, KnownInv, Open, EmptyCache
<1>4. ForwardInv
  BY DEF HistoryInit, Init, ForwardInv, Open, EmptyCache, Threads
<1> QED
  BY <1>1, <1>2, <1>3, <1>4 DEF HInv

\* What the history variables remember of a step.
LEMMA Remembered ==
  ASSUME HistoryNext
  PROVE  /\ ~stepped' => ~stepped /\ ~(phys' < phys)
         /\ \A t \in Batched : Reserves(t) => known'[t] = seen
         /\ \A t \in Batched : ~Reserves(t) => known'[t] = known[t]
<1>1. stepped' = (stepped \/ phys' < phys)
  BY DEF HistoryNext
<1>2. ~stepped' => ~stepped /\ ~(phys' < phys)
  BY <1>1, Zenon
<1>3. \A t \in Batched : known'[t] = IF Reserves(t) THEN seen ELSE known[t]
  BY DEF HistoryNext
<1> QED
  BY <1>2, <1>3

\* Steps that leave all batches as they are.
LEMMA BatchesKept ==
  ASSUME HInv, HistoryNext, NEW t \in Threads,
         UNCHANGED <<phys, cache, seen>>, t \in Direct \/ pc[t] # "idle", ~Reserves(t),
         arg'[t] \in {arg[t], phys}, last'[t] = last[t] \/ last'[t] \in issued',
         issued \subseteq issued',
         \A u \in Threads \ {t} : pc'[u] = pc[u] /\ last'[u] = last[u] /\ arg'[u] = arg[u]
  PROVE  LastInv' /\ KnownInv' /\ ForwardInv'
<1> USE DEF HInv
<1>1. Batched \subseteq Threads /\ Direct \cap Batched = {}
  BY ClockAssumption DEF Threads
<1>2. LastInv'
  BY DEF LastInv
<1>3. \A u \in Batched : ~Reserves(u)
  <2>1. \A u \in Threads \ {t} : ~Reserves(u)
    BY DEF Reserves
  <2> QED
    BY <1>1, <2>1
<1>4. KnownInv'
  BY <1>3, Remembered DEF KnownInv, Open
<1>5. ForwardInv'
  <2> SUFFICES ASSUME ~stepped', NEW u \in Batched
               PROVE  /\ cache'[u].time <= phys' /\ arg'[u] <= phys'
                      /\ Open(u)' => /\ pc'[u] = "idle"
                                     /\ Below(last'[u], cache'[u].time, cache'[u].next)
    BY DEF ForwardInv, Open, Below
  <2>1. /\ cache[u].time <= phys /\ arg[u] <= phys /\ phys <= phys
        /\ Open(u) => pc[u] = "idle" /\ Below(last[u], cache[u].time, cache[u].next)
    <3>1. ~stepped
      BY Remembered
    <3>2. phys <= phys
      <4>1. phys \in Nat
        BY DEF Inv, TypeOK
      <4> QED
        BY <4>1
    <3> QED
      BY <3>1, <3>2 DEF ForwardInv
  <2>2. CASE u # t
    BY <1>1, <2>1, <2>2 DEF Open
  <2>3. CASE u = t
    BY <1>1, <2>1, <2>3 DEF Open
  <2> QED
    BY <2>2, <2>3
<1> QED
  BY <1>2, <1>4, <1>5

\* A tick is taken from a batch, or the batch is found stale or used up.
LEMMA BatchNowHistory ==
  ASSUME HInv, HistoryNext, NEW t \in Batched, BatchNow(t)
  PROVE  LastInv' /\ KnownInv' /\ ForwardInv'
<1> USE DEF HInv
<1>1. /\ phys \in Nat /\ cache \in [Batched -> [time : Nat, next : 0..UintMax, end : 0..UintMax]]
      /\ t \in Threads /\ pc \in [Threads -> PC] /\ last \in [Threads -> Timestamp]
      /\ arg \in [Threads -> Nat] /\ Batched \subseteq Threads
  BY DEF Inv, TypeOK, Threads
<1>2. phys' = phys /\ seen' = seen /\ pc[t] = "idle"
  BY DEF BatchNow
<1>3. \A u \in Batched : known'[u] = known[u]
  <2>1. \A u \in Batched : ~Reserves(u)
    BY <1>1 DEF BatchNow, Return, Reserves
  <2> QED
    BY <2>1, Remembered
<1>4. CASE /\ phys = cache[t].time /\ cache[t].next < cache[t].end
           /\ cache' = [cache EXCEPT ![t].next = @ + 1]
           /\ Return(t, cache[t].time, cache[t].next) /\ UNCHANGED arg
  <2>1. last' = [last EXCEPT ![t] = Ts(cache[t].time, cache[t].next, NodeId)]
    BY <1>4 DEF Return
  <2>2. issued' = issued \cup {Ts(cache[t].time, cache[t].next, NodeId)}
    BY <1>4 DEF Return
  <2>3. LastInv'
    BY <1>1, <1>2, <2>1, <2>2 DEF LastInv
  <2>4. /\ cache'[t].time = cache[t].time /\ cache'[t].next = cache[t].next + 1
        /\ cache'[t].end = cache[t].end
    BY <1>1, <1>4
  <2>5. \A u \in Batched \ {t} : cache'[u] = cache[u] /\ last'[u] = last[u] /\ pc'[u] = pc[u]
    BY <1>1, <1>4, <2>1 DEF Return
  <2>6. cache[t].time \in Nat /\ cache[t].next \in Nat
    BY <1>1
  <2>7. KnownInv'
    <3> SUFFICES ASSUME NEW u \in Batched
                 PROVE  /\ known'[u] \subseteq seen'
                        /\ Open(u)' => \A ts \in known'[u] :
                             Below(ts, cache'[u].time, cache'[u].next)
      BY DEF KnownInv, Open, Below
    <3>1. CASE u # t
      BY <1>2, <1>3, <2>5, <3>1 DEF KnownInv, Open
    <3>2. CASE u = t
      <4>1. \A ts \in known[t] : Below(ts, cache[t].time, cache[t].next)
        BY <1>4 DEF KnownInv, Open
      <4>2. \A ts \in known[t] : ts.wall_time \in Nat /\ ts.logical \in Nat
        BY DEF KnownInv, Inv, TypeOK, Timestamp
      <4>3. \A ts \in known[t] : Below(ts, cache[t].time, cache[t].next + 1)
        BY <2>6, <4>1, <4>2 DEF Below
      <4> QED
        BY <1>2, <1>3, <2>4, <3>2, <4>3 DEF KnownInv
    <3> QED
      BY <3>1, <3>2
  <2>8. ForwardInv'
    <3> SUFFICES ASSUME ~stepped', NEW u \in Batched
                 PROVE  /\ cache'[u].time <= phys' /\ arg'[u] <= phys'
                        /\ Open(u)' => /\ pc'[u] = "idle"
                                       /\ Below(last'[u], cache'[u].time, cache'[u].next)
      BY DEF ForwardInv, Open, Below
    <3>1. /\ cache[u].time <= phys /\ arg[u] <= phys
          /\ Open(u) => pc[u] = "idle" /\ Below(last[u], cache[u].time, cache[u].next)
      BY Remembered DEF ForwardInv
    <3>2. CASE u # t
      BY <1>2, <1>4, <2>5, <3>1, <3>2 DEF Open
    <3>3. CASE u = t
      <4>1. pc'[t] = "idle" /\ last'[t] = Ts(cache[t].time, cache[t].next, NodeId)
        BY <1>1, <1>4, <2>1 DEF Return
      <4>2. Below(last'[t], cache[t].time, cache[t].next + 1)
        BY <2>6, <4>1 DEF Below, Ts
      <4> QED
        BY <1>2, <1>4, <2>4, <3>1, <3>3, <4>1, <4>2
    <3> QED
      BY <3>2, <3>3
  <2> QED
    BY <2>3, <2>7, <2>8
<1>5. CASE /\ ~(phys = cache[t].time /\ cache[t].next < cache[t].end)
           /\ cache' = IF phys > cache[t].time
                       THEN [cache EXCEPT ![t] = [time |-> phys, next |-> 0, end |-> 0]]
                       ELSE cache
           /\ arg' = [arg EXCEPT ![t] = phys] /\ pc' = [pc EXCEPT ![t] = "refill"]
           /\ UNCHANGED history
  <2>1. LastInv'
    BY <1>2, <1>5 DEF LastInv, history
  <2>2. \A u \in Batched \ {t} :
          cache'[u] = cache[u] /\ last'[u] = last[u] /\ pc'[u] = pc[u] /\ arg'[u] = arg[u]
    BY <1>1, <1>5 DEF history
  <2>3. cache'[t] = cache[t] \/ (cache'[t].time = phys /\ ~Open(t)')
    BY <1>1, <1>5 DEF Open
  <2>4. KnownInv'
    <3>1. \A u \in Batched : cache'[u] = cache[u] \/ ~Open(u)'
      BY <2>2, <2>3
    <3> QED
      BY <1>2, <1>3, <3>1 DEF KnownInv, Open
  <2>5. ForwardInv'
    <3> SUFFICES ASSUME ~stepped', NEW u \in Batched
                 PROVE  /\ cache'[u].time <= phys' /\ arg'[u] <= phys'
                        /\ Open(u)' => /\ pc'[u] = "idle"
                                       /\ Below(last'[u], cache'[u].time, cache'[u].next)
      BY DEF ForwardInv, Open, Below
    <3>1. /\ cache[u].time <= phys /\ arg[u] <= phys
          /\ Open(u) => pc[u] = "idle" /\ Below(last[u], cache[u].time, cache[u].next)
      BY Remembered DEF ForwardInv
    <3>2. CASE u # t
      BY <1>2, <2>2, <3>1, <3>2 DEF Open
    <3>3. CASE u = t
      <4>1. arg'[t] = phys /\ phys <= phys /\ cache[t].time \in Nat
        BY <1>1, <1>5
      <4>2. ~Open(t)'
        <5>1. CASE phys > cache[t].time
          BY <1>1, <1>5, <5>1 DEF Open
        <5>2. CASE ~(phys > cache[t].time)
          <6>1. phys = cache[t].time /\ cache' = cache
            BY <1>1, <1>5, <3>1, <3>3, <4>1, <5>2
          <6> QED
            BY <1>5, <6>1 DEF Open
        <5> QED
          BY <5>1, <5>2
      <4> QED
        BY <1>2, <2>3, <3>1, <3>3, <4>1, <4>2
    <3> QED
      BY <3>2, <3>3
  <2> QED
    BY <2>1, <2>4, <2>5
<1> QED
  BY <1>4, <1>5 DEF BatchNow

\* A new batch begins above all that was merged and issued.
LEMMA ReserveHistory ==
  ASSUME HInv, HistoryNext, NEW t \in Batched, Reserve(t)
  PROVE  LastInv' /\ KnownInv' /\ ForwardInv'
<1> USE DEF HInv
<1> DEFINE logical == IF arg[t] > max_wall_time THEN 0 ELSE max_logical
           fits == UintMax - logical >= BatchSize
           batch == [time |-> arg[t], next |-> (logical + 2) % (UintMax + 1),
                     end |-> (logical + 1 + BatchSize) % (UintMax + 1)]
<1>1. /\ phys \in Nat /\ cache \in [Batched -> [time : Nat, next : 0..UintMax, end : 0..UintMax]]
      /\ t \in Threads /\ pc \in [Threads -> PC] /\ last \in [Threads -> Timestamp]
      /\ arg \in [Threads -> Nat] /\ Batched \subseteq Threads
      /\ max_wall_time \in Nat /\ max_logical \in 0..UintMax
  BY DEF Inv, TypeOK, Threads
<1>2. phys' = phys /\ seen' = seen /\ arg' = arg /\ pc[t] = "refill"
  BY DEF Reserve
<1>3. CASE pc' = [pc EXCEPT ![t] = "retry"] /\ UNCHANGED <<cache, history>>
  <2>1. ~Reserves(t) /\ \A u \in Threads \ {t} : pc'[u] = pc[u]
    BY <1>1, <1>3 DEF Reserves
  <2> QED
    BY <1>1, <1>2, <1>3, <2>1, BatchesKept DEF history
<1>4. CASE /\ arg[t] >= MaxOf(phys, max_wall_time) /\ fits
           /\ cache' = [cache EXCEPT ![t] = batch] /\ Return(t, arg[t], logical + 1)
  <2>0. arg[t] >= MaxOf(phys, max_wall_time)
    BY <1>4
  <2>1. logical \in Nat /\ BatchSize \in Nat /\ UintMax \in Nat /\ arg[t] \in Nat /\ BatchSize > 0
    BY <1>1, ClockAssumption
  <2>2. /\ last' = [last EXCEPT ![t] = Ts(arg[t], logical + 1, NodeId)]
        /\ issued' = issued \cup {Ts(arg[t], logical + 1, NodeId)}
        /\ pc' = [pc EXCEPT ![t] = "idle"]
    BY <1>4 DEF Return
  <2>3. LastInv'
    BY <1>1, <1>2, <2>2 DEF LastInv
  <2>4. /\ \A u \in Batched \ {t} : cache'[u] = cache[u] /\ last'[u] = last[u] /\ pc'[u] = pc[u]
        /\ cache'[t] = batch /\ pc'[t] = "idle" /\ last'[t] = Ts(arg[t], logical + 1, NodeId)
    BY <1>1, <1>4, <2>2
  <2>5. known'[t] = seen /\ \A u \in Batched \ {t} : known'[u] = known[u]
    BY <1>2, <2>4, Remembered DEF Reserves
  <2>6. Open(t)' => batch.next = logical + 2
    <3>1. logical + 2 < UintMax + 1 => (logical + 2) % (UintMax + 1) = logical + 2
      BY <2>1, ModSmall
    <3>2. ~(logical + 2 < UintMax + 1) => logical + 1 + BatchSize = UintMax + 1
      <4> HIDE DEF logical
      <4> QED
        BY <1>4, <2>1
    <3>3. ~(logical + 2 < UintMax + 1) => batch.end = 0
      BY <2>1, <3>2, ModSelf
    <3>5. Open(t)' => batch.next < batch.end
      BY <2>4 DEF Open
    <3>6. batch.next \in Nat
      <4> HIDE DEF logical
      <4> QED
        BY <2>1
    <3>7. CASE logical + 2 < UintMax + 1
      BY <3>1, <3>7
    <3>8. CASE ~(logical + 2 < UintMax + 1)
      <4>1. batch.end = 0
        BY <3>3, <3>8
      <4> HIDE DEF batch
      <4> QED
        BY <3>5, <3>6, <4>1
    <3> QED
      BY <3>7, <3>8
  <2>9. cache'[t].time = arg[t] /\ (Open(t)' => cache'[t].next = logical + 2)
    <3>1. cache'[t] = batch /\ batch.time = arg[t]
      BY <2>4
    <3> HIDE DEF batch, logical
    <3> QED
      BY <2>6, <3>1
  <2>7. KnownInv'
    <3> SUFFICES ASSUME NEW u \in Batched
                 PROVE  /\ known'[u] \subseteq seen'
                        /\ Open(u)' => \A ts \in known'[u] :
                             Below(ts, cache'[u].time, cache'[u].next)
      BY DEF KnownInv, Open, Below
    <3>1. CASE u # t
      BY <1>2, <2>4, <2>5, <3>1 DEF KnownInv, Open
    <3>2. CASE u = t
      <4>1. ASSUME NEW ts \in seen PROVE Below(ts, arg[t], logical + 2)
        <5>1. UpTo(ts) /\ ts.wall_time \in Nat /\ ts.logical \in Nat
          BY DEF Inv, TypeOK, Timestamp
        <5>2. \/ arg[t] > max_wall_time
              \/ arg[t] = max_wall_time /\ logical = max_logical
          <6>1. arg[t] >= max_wall_time
            BY <1>1, <2>0, <2>1 DEF MaxOf
          <6>0. arg[t] \in Nat /\ max_wall_time \in Nat
            BY <1>1
          <6>2. ~(arg[t] > max_wall_time) => arg[t] = max_wall_time
            BY <6>0, <6>1
          <6>3. ~(arg[t] > max_wall_time) => logical = max_logical
            OBVIOUS
          <6> HIDE DEF logical
          <6> QED
            BY <6>2, <6>3
        <5> HIDE DEF logical
        <5>3. max_logical \in Nat
          BY <1>1, <2>1
        <5>4. /\ logical + 2 \in Nat
              /\ arg[t] > max_wall_time \/ (arg[t] = max_wall_time /\ logical + 2 > max_logical)
          BY <2>1, <5>2, <5>3
        <5> QED
          BY <1>1, <2>1, <5>1, <5>3, <5>4, ClockBelow
      <4>2. known'[u] = seen /\ seen' = seen
        BY <1>2, <2>5, <3>2
      <4> QED
        BY <2>9, <3>2, <4>1, <4>2
    <3> QED
      BY <3>1, <3>2
  <2>8. ForwardInv'
    <3> SUFFICES ASSUME ~stepped', NEW u \in Batched
                 PROVE  /\ cache'[u].time <= phys' /\ arg'[u] <= phys'
                        /\ Open(u)' => /\ pc'[u] = "idle"
                                       /\ Below(last'[u], cache'[u].time, cache'[u].next)
      BY DEF ForwardInv, Open, Below
    <3>1. /\ cache[u].time <= phys /\ arg[u] <= phys
          /\ Open(u) => pc[u] = "idle" /\ Below(last[u], cache[u].time, cache[u].next)
      BY Remembered DEF ForwardInv
    <3>2. CASE u # t
      BY <1>2, <2>4, <3>1, <3>2 DEF Open
    <3>3. CASE u = t
      <4>1. Below(Ts(arg[t], logical + 1, NodeId), arg[t], logical + 2)
        <5> HIDE DEF logical
        <5> QED
          BY <2>1, NextTickBelow
      <4>2. pc'[t] = "idle" /\ last'[t] = Ts(arg[t], logical + 1, NodeId)
        BY <2>4
      <4>3. cache'[t].time <= phys' /\ arg'[t] <= phys'
        BY <1>2, <2>9, <3>1, <3>3
      <4> HIDE DEF logical
      <4> QED
        BY <2>9, <3>3, <4>1, <4>2, <4>3
    <3> QED
      BY <3>2, <3>3
  <2> QED
    BY <2>3, <2>7, <2>8
<1> QED
  BY <1>3, <1>4 DEF Reserve

LEMMA HistoryNextInv ==
  ASSUME HInv, [HistoryNext]_<<vars, stepped, known>>
  PROVE  HInv'
<1>1. CASE UNCHANGED <<vars, stepped, known>>
  <2>1. Inv'
    BY <1>1, NextInv DEF HInv
  <2> QED
    BY <1>1, <2>1 DEF HInv, LastInv, KnownInv, ForwardInv, Open, Below, vars, hlc, history
<1>2. CASE HistoryNext
  <2>1. Inv'
    BY <1>2, NextInv DEF HInv, HistoryNext
  <2>2. Batched \subseteq Threads /\ Direct \cap Batched = {}
    BY ClockAssumption DEF Threads
  <2>3. /\ phys \in Nat /\ pc \in [Threads -> PC] /\ last \in [Threads -> Timestamp]
        /\ arg \in [Threads -> Nat] /\ cache \in [Batched -> [time : Nat, next : 0..UintMax, end : 0..UintMax]]
    BY DEF HInv, Inv, TypeOK
  <2>4. CASE Tick
    <3>1. phys' = phys + 1 /\ UNCHANGED <<cache, pc, arg, issued, last, seen>>
      BY <2>4 DEF Tick, history
    <3>2. LastInv'
      BY <2>3, <3>1 DEF HInv, LastInv
    <3>3. \A t \in Batched : known'[t] = known[t]
      BY <1>2, <3>1, Remembered DEF Reserves
    <3>4. KnownInv'
      BY <3>1, <3>3 DEF HInv, KnownInv, Open
    <3>5. ForwardInv'
      <4>1. ASSUME NEW t \in Batched PROVE
              /\ cache[t].time <= phys => cache[t].time <= phys + 1
              /\ arg[t] <= phys => arg[t] <= phys + 1
        <5>1. cache[t].time \in Nat /\ arg[t] \in Nat
          BY <2>2, <2>3
        <5> QED
          BY <2>3, <5>1
      <4> QED
        BY <1>2, <3>1, <4>1, Remembered DEF HInv, ForwardInv, Open, Below
    <3> QED
      BY <2>1, <3>2, <3>4, <3>5 DEF HInv
  <2>5. CASE StepBack
    <3>1. phys > 1 /\ phys' = phys - 1 /\ UNCHANGED <<cache, pc, arg, issued, last, seen>>
      BY <2>5 DEF StepBack, history
    <3>2. LastInv'
      BY <2>3, <3>1 DEF HInv, LastInv
    <3>3. \A t \in Batched : known'[t] = known[t]
      BY <1>2, <3>1, Remembered DEF Reserves
    <3>4. KnownInv'
      BY <3>1, <3>3 DEF HInv, KnownInv, Open
    <3>5. phys' < phys
      BY <2>3, <3>1
    <3>6. ForwardInv'
      BY <1>2, <3>5, Remembered DEF ForwardInv
    <3> QED
      BY <2>1, <3>2, <3>4, <3>6 DEF HInv
  <2>6. CASE \E ts \in Incoming : Update(ts)
    <3>1. UNCHANGED <<phys, cache, pc, arg, issued, last>> /\ seen \subseteq seen'
      BY <2>6 DEF Update, history
    <3>2. LastInv'
      BY <3>1 DEF HInv, LastInv
    <3>3. \A t \in Batched : known'[t] = known[t]
      BY <1>2, <3>1, Remembered DEF Reserves
    <3>4. KnownInv'
      BY <3>1, <3>3 DEF HInv, KnownInv, Open
    <3>5. ForwardInv'
      BY <1>2, <3>1, Remembered DEF HInv, ForwardInv, Open, Below
    <3> QED
      BY <2>1, <3>2, <3>4, <3>5 DEF HInv
  <2>7. ASSUME NEW t \in Threads, Step(t) PROVE HInv'
    <3>1. CASE BatchNow(t)
      BY <1>2, <2>1, <3>1, BatchNowHistory DEF HInv, BatchNow
    <3>2. CASE Reserve(t)
      BY <1>2, <2>1, <3>2, ReserveHistory DEF HInv, Reserve
    <3>3. CASE Now(t) \/ Fallback(t) \/ OverflowReread(t)
      <4>1. /\ UNCHANGED <<phys, cache, seen, arg>> /\ (t \in Direct \/ pc[t] # "idle")
            /\ pc[t] # "refill"
        BY <3>3 DEF Now, Fallback, GlobalNow, OverflowReread
      <4>2. CASE \E w, l : Return(t, w, l)
        <5>1. /\ pc' = [pc EXCEPT ![t] = "idle"] /\ issued \subseteq issued'
              /\ \E ts \in issued' : last' = [last EXCEPT ![t] = ts]
          BY <4>2 DEF Return
        <5>2. last'[t] \in issued' /\ ~Reserves(t)
          BY <2>3, <4>1, <5>1 DEF Reserves
        <5>3. \A u \in Threads \ {t} : pc'[u] = pc[u] /\ last'[u] = last[u] /\ arg'[u] = arg[u]
          BY <2>3, <4>1, <5>1
        <5>4. LastInv' /\ KnownInv' /\ ForwardInv'
          BY <1>2, <4>1, <5>1, <5>2, <5>3, BatchesKept
        <5> QED
          BY <2>1, <5>4 DEF HInv
      <4>3. CASE UNCHANGED history /\ pc' = [pc EXCEPT ![t] = "overflow"]
        <5>1. ~Reserves(t) /\ issued' = issued /\ last' = last
          BY <2>3, <4>1, <4>3 DEF Reserves, history
        <5>2. \A u \in Threads \ {t} : pc'[u] = pc[u] /\ last'[u] = last[u] /\ arg'[u] = arg[u]
          BY <2>3, <4>1, <4>3, <5>1
        <5>3. LastInv' /\ KnownInv' /\ ForwardInv'
          BY <1>2, <4>1, <5>1, <5>2, BatchesKept
        <5> QED
          BY <2>1, <5>3 DEF HInv
      <4> QED
        BY <3>3, <4>2, <4>3 DEF Now, Fallback, GlobalNow, OverflowReread
    <3>4. CASE OverflowSpin(t)
      <4>1. /\ UNCHANGED <<phys, cache, seen, arg, issued, last>> /\ pc[t] = "overflow"
            /\ pc' = [pc EXCEPT ![t] = "reread"]
        BY <3>4 DEF OverflowSpin, history
      <4> QED
        BY <1>2, <2>1, <2>3, <4>1, BatchesKept DEF HInv, Reserves
    <3>5. CASE Retry(t)
      <4>1. /\ UNCHANGED <<phys, cache, seen, issued, last>> /\ pc[t] = "retry"
            /\ arg' = [arg EXCEPT ![t] = phys]
            /\ \A u \in Threads \ {t} : pc'[u] = pc[u]
        BY <2>3, <3>5 DEF Retry, history
      <4> QED
        BY <1>2, <2>1, <2>3, <4>1, BatchesKept DEF HInv, Reserves
    <3> QED
      BY <2>7, <3>1, <3>2, <3>3, <3>4, <3>5 DEF Step
  <2> QED
    BY <1>2, <2>4, <2>5, <2>6, <2>7 DEF HistoryNext, OrderlyNext
<1> QED
  BY <1>1, <1>2

LEMMA AlwaysHInv == HistorySpec => []HInv
<1>1. HInv /\ [HistoryNext]_<<vars, stepped, known>> => HInv'
  BY HistoryNextInv
<1> QED
  BY HistoryInitInv, <1>1, PTL DEF HistorySpec

\* Physical time is at least 1, and so is the wall time that now() returns.
LEMMA ReturnIsPositive ==
  ASSUME HInv, NEW t \in Threads, GlobalReturn(t)
  PROVE  Before(ZeroTs, last'[t])
<1> SUFFICES \E w \in Nat, l \in Nat : w > 0 /\ Return(t, w, l)
  <2>1. last \in [Threads -> Timestamp]
    BY DEF HInv, Inv, TypeOK
  <2> QED
    BY <2>1, ClockAssumption DEF Return, Before, ZeroTs, Ts
<1>1. /\ phys \in Nat /\ max_wall_time \in Nat /\ max_logical \in Nat /\ phys > 0
  BY DEF HInv, Inv, TypeOK, LastInv
<1>2. CASE GlobalNow(t)
  <2>1. CASE phys > max_wall_time /\ Return(t, phys, 0)
    BY <1>1, <2>1
  <2>2. CASE phys <= max_wall_time /\ Return(t, max_wall_time, max_logical + 1)
    BY <1>1, <2>2
  <2>3. CASE UNCHANGED history
    BY <2>3 DEF history, GlobalReturn
  <2> QED
    BY <1>2, <2>1, <2>2, <2>3 DEF GlobalNow
<1>3. CASE OverflowReread(t)
  BY <1>1, <1>3 DEF OverflowReread
<1>4. CASE Reserve(t)
  <2> DEFINE logical == IF arg[t] > max_wall_time THEN 0 ELSE max_logical
  <2>1. arg[t] \in Nat /\ logical + 1 \in Nat
    BY <1>1 DEF HInv, Inv, TypeOK
  <2>2. arg[t] >= MaxOf(phys, max_wall_time) /\ Return(t, arg[t], logical + 1)
    BY <1>4 DEF Reserve, GlobalReturn, history
  <2>3. arg[t] > 0
    BY <1>1, <2>1, <2>2 DEF MaxOf
  <2> QED
    BY <2>1, <2>2, <2>3
<1> QED
  BY <1>2, <1>3, <1>4 DEF GlobalReturn, Now, Fallback

\* A call returns from the global clock, or with a tick of an open batch.
LEMMA HowCallsReturn ==
  ASSUME NEW t \in Threads, Returns(t)
  PROVE  \/ GlobalReturn(t)
         \/ /\ t \in Batched /\ Open(t) /\ ~Reserves(t)
            /\ Return(t, cache[t].time, cache[t].next)
<1>1. CASE BatchNow(t)
  BY <1>1 DEF BatchNow, Returns, history, Open, Reserves
<1>2. CASE OverflowSpin(t) \/ Retry(t)
  BY <1>2 DEF OverflowSpin, Retry, Returns, history
<1> QED
  BY <1>1, <1>2 DEF Returns, Step, GlobalReturn

\* Until the system clock is set back each thread sees its timestamps
\* increase, whether they come from a batch, a refill or now().
THEOREM ThreadsGoForward == HistorySpec => ForwardMonotonic
<1>1. ASSUME HInv, HistoryNext, ~stepped', NEW t \in Threads, Returns(t)
      PROVE  Before(last[t], last'[t])
  <2>1. CASE GlobalReturn(t)
    BY <1>1, <2>1, ReturnIsAbove, ReturnIsPositive DEF HInv, LastInv
  <2>2. CASE t \in Batched /\ Open(t) /\ Return(t, cache[t].time, cache[t].next)
    <3>1. Below(last[t], cache[t].time, cache[t].next)
      BY <1>1, <2>2, Remembered DEF HInv, ForwardInv
    <3>2. last'[t] = Ts(cache[t].time, cache[t].next, NodeId)
      BY <1>1, <2>2 DEF HInv, Inv, TypeOK, Return
    <3>3. /\ cache[t].time \in Nat /\ cache[t].next \in Nat
          /\ last[t].wall_time \in Nat /\ last[t].logical \in Nat
      <4>1. TypeOK
        BY <1>1 DEF HInv, Inv
      <4>2. last[t].wall_time \in Nat /\ last[t].logical \in Nat
        BY <4>1 DEF TypeOK, Timestamp
      <4>3. cache[t].time \in Nat /\ cache[t].next \in Nat
        BY <2>2, <4>1 DEF TypeOK
      <4> QED
        BY <4>2, <4>3
    <3>4. Before(last[t], Ts(cache[t].time, cache[t].next, NodeId))
      BY <3>1, <3>3, BelowIsBefore
    <3> QED
      BY <3>2, <3>4
  <2> QED
    BY <1>1, <2>1, <2>2, HowCallsReturn
<1>2. HInv /\ [HistoryNext]_<<vars, stepped, known>> =>
        [~stepped' => \A t \in Threads : Returns(t) => Before(last[t], last'[t])]_vars
  BY <1>1
<1> QED
  BY AlwaysHInv, <1>2, PTL DEF HistorySpec, ForwardMonotonic

\* A tick of a batch is later than every remote timestamp that was merged
\* before the batch was reserved, however late it is handed out.
THEOREM BatchesAreCausal == HistorySpec => CausalUpToBatch
<1>1. ASSUME HInv, HistoryNext, NEW t \in Batched, Returns(t), NEW ts \in known'[t]
      PROVE  Before(ts, last'[t])
  <2>0. t \in Threads
    BY DEF Threads
  <2>1. CASE GlobalReturn(t)
    <3>1. ts \in seen
      BY <1>1, Remembered DEF HInv, KnownInv
    <3> QED
      BY <1>1, <2>0, <2>1, <3>1, ReturnIsAbove DEF HInv
  <2>2. CASE Open(t) /\ ~Reserves(t) /\ Return(t, cache[t].time, cache[t].next)
    <3>1. Below(ts, cache[t].time, cache[t].next)
      BY <1>1, <2>2, Remembered DEF HInv, KnownInv
    <3>2. last'[t] = Ts(cache[t].time, cache[t].next, NodeId)
      BY <1>1, <2>0, <2>2 DEF HInv, Inv, TypeOK, Return
    <3>3. /\ cache[t].time \in Nat /\ cache[t].next \in Nat
          /\ ts.wall_time \in Nat /\ ts.logical \in Nat
      <4>1. ts \in seen
        BY <1>1, <2>2, Remembered DEF HInv, KnownInv
      <4>2. TypeOK
        BY <1>1 DEF HInv, Inv
      <4>3. ts.wall_time \in Nat /\ ts.logical \in Nat
        BY <4>1, <4>2 DEF TypeOK, Timestamp
      <4>4. cache[t].time \in Nat /\ cache[t].next \in Nat
        BY <4>2 DEF TypeOK
      <4> QED
        BY <4>3, <4>4
    <3>4. Before(ts, Ts(cache[t].time, cache[t].next, NodeId))
      BY <3>1, <3>3, BelowIsBefore
    <3> QED
      BY <3>2, <3>4
  <2> QED
    BY <1>1, <2>0, <2>1, <2>2, HowCallsReturn
<1>2. HInv /\ [HistoryNext]_<<vars, stepped, known>> =>
        [\A t \in Batched : Returns(t) => \A ts \in known'[t] : Before(ts, last'[t])]_vars
  BY <1>1
<1> QED
  BY AlwaysHInv, <1>2, PTL DEF HistorySpec, CausalUpToBatch
=============================================================================
