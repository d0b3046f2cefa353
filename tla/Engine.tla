------------------------------- MODULE Engine -------------------------------
(***************************************************************************)
(* The operations of class Engine in src/engine/store.hpp, over the shard  *)
(* maps and Merkle leaves of Store and the log of Wal.  Each of them       *)
(* stamps or checks a timestamp, appends one batch to the log, and applies *)
(* the operations of the batch one after the other.  No lock spans these   *)
(* steps: the threads of the HTTP server and of the mesh interleave.       *)
(*                                                                         *)
(* Blob contents are sets of <<name, type, value>>, names and values being *)
(* sequences of parts that are free of ':'.  A write is known by its       *)
(* timestamp: rank 2w of the local clock, or 2w+1 if another node made it. *)
(***************************************************************************)
EXTENDS Naturals, Sequences, FiniteSets, Functions, FiniteSetsExt

CONSTANTS
  Threads, Keys,
  KeysOf,          \* the keys each thread works on
  Fields,          \* the field names of patches
  Buckets, BucketOf,
  Drift,           \* how far another node's clock may be ahead
  SetBack,         \* may system time be behind the log at a restart?
  Torn, TornCrash,
  MaxClock, MaxAppends, MaxErrors, MaxStops    \* bounds

Slots == Keys \X {"data", "meta"}
Data(k) == <<k, "data">>
MetaOf(k) == <<k, "meta">>

ASSUME EngineAssumption ==
  /\ IsFiniteSet(Threads) /\ IsFiniteSet(Keys)
  /\ KeysOf \in [Threads -> SUBSET Keys] /\ Fields \subseteq Seq(STRING) \ {<<>>}
  /\ BucketOf \in [Slots -> Buckets]
  /\ Drift \in Nat /\ SetBack \in BOOLEAN /\ MaxClock \in Nat

VARIABLES
  blob, leaf, pend, phantom, writes,                   \* the state of Store
  disk, buffer, open, recovered, held, accepted, graceful,
  appends, errors, stops,                              \* of Wal
  clock,    \* the latest wall time of clock_, in ranks
  job       \* per thread, the batch it is working on, and whether it is logged

wal_vars ==
  <<disk, buffer, open, recovered, held, accepted, graceful, appends, errors, stops>>
store_vars == <<blob, leaf, pend, phantom, writes>>
vars == <<store_vars, wal_vars, clock, job>>

Ranks == 2 .. 2 * (MaxClock + Drift) + 1
Types == {"int", "str"}

\* Blob contents.
Absent == {<<<<"absent">>>>}
Tombstone == {<<<<"empty">>>>}
Body(ts) == {<<<<"body">>, "int", <<ts>>>>}
Meta(ts, dead) ==
  {<<<<"ts">>, "int", <<ts>>>>}
    \cup IF dead THEN {<<<<"tombstone">>, "bool", <<1>>>>} ELSE {}
Values == {Body(ts) : ts \in Ranks}
            \cup {Meta(ts, dead) : ts \in Ranks, dead \in BOOLEAN}
Misread == {<<<<Head(f)>>, type, Append(Tail(f), ts)>> : f \in Fields, type \in Types, ts \in Ranks}
Patches == (Fields \X Types \X {<<ts>> : ts \in Ranks}) \cup Misread
Pairs == (UNION Values) \cup Patches \cup Tombstone

\* set_i64, set_str: the pair of that name is replaced.
Patched(content, pair) == {p \in content : p[1] # pair[1]} \cup {pair}

\* What apply_mutation reads from a meta blob: 0 unless "ts" is a number.
LocalTs(content) ==
  Max({0} \cup {p[3][1] : p \in {q \in content : q[1] = <<"ts">> /\ q[2] = "int"}})

S == INSTANCE Store WITH
  Contents <- SUBSET Pairs, NewObject <- {}, MaxWrites <- 2 * MaxAppends

\* A logged entry has for a patch the payload field + ":" + value, its parts
\* in one sequence.
Entry(step) ==
  IF step.op # "PATCH" THEN step
  ELSE [step EXCEPT !.arg = <<step.arg[2], step.arg[1] \o step.arg[3]>>]

\* Mutant: integers come back as strings.
ReparsedAsStr(entry) ==
  IF entry.op # "PATCH" THEN <<entry>>
  ELSE LET payload == entry.arg[2] IN
       <<[entry EXCEPT !.arg = <<<<Head(payload)>>, "str", Tail(payload)>>]>>

\* What the callback of recover() makes of it: it splits the payload at the
\* first ':', and skips an entry of which stoll() cannot read the rest.
Reparsed(entry) ==
  IF entry.op # "PATCH" THEN <<entry>>
  ELSE LET type == entry.arg[1]  payload == entry.arg[2] IN
       IF type = "int" /\ Len(payload) > 2 THEN <<>>
       ELSE <<[entry EXCEPT !.arg = <<<<Head(payload)>>, type, Tail(payload)>>]>>

Entries ==
  [slot : Slots, op : {"PUT"}, arg : Values]
    \cup [slot : Slots, op : {"DELETE"}, arg : {Tombstone}]
    \cup [slot : Slots, op : {"PATCH"}, arg : Types \X Seq(STRING \cup Ranks)]

ASSUME LogAssumption ==
  /\ Torn \notin Seq(Entries) /\ TornCrash \in BOOLEAN
  /\ MaxAppends \in Nat /\ MaxErrors \in Nat /\ MaxStops \in Nat

W == INSTANCE Wal WITH Records <- Seq(Entries)
-----------------------------------------------------------------------------
\* The maps and the tree of a new engine.
NoMemory ==
  [blob |-> [s \in Slots |-> Absent], leaf |-> [b \in Buckets |-> {}], phantom |-> {}]

\* An apply_ function, with no other thread running.
Redo(mem, step) ==
  LET old == mem.blob[step.slot] IN
  [blob |-> [mem.blob EXCEPT ![step.slot] = S!Result(old, step)],
   leaf |-> [mem.leaf EXCEPT ![BucketOf[step.slot]] =
               S!Xor(@, S!Xor(S!hash_blob(S!Found(old, step)),
                              S!hash_blob(S!Result(old, step))))],
   phantom |-> mem.phantom \cup IF S!Creates(old, step) THEN {step.slot} ELSE {}]

\* The callback of recover() for one entry.
Recall(mem, entry) ==
  IF Reparsed(entry) = <<>> THEN mem ELSE Redo(mem, Head(Reparsed(entry)))

\* recover() runs it on the entries of a record, one after the other.
Recalled(mem, record) ==
  LET after[n \in 0 .. Len(record)] ==
        IF n = 0 THEN mem ELSE Recall(after[n - 1], record[n])
  IN  after[Len(record)]

\* Engine's constructor: the maps and the tree after recover() has read these
\* records.
Replayed(records) ==
  LET after[n \in 0 .. Len(records)] ==
        IF n = 0 THEN NoMemory ELSE Recalled(after[n - 1], records[n])
  IN  after[Len(records)]

NoJob == [batch |-> <<>>, logged |-> FALSE]
Idle(t) == job[t].batch = <<>>

Init == S!Init /\ W!WalInit /\ clock = 0 /\ job = [t \in Threads |-> NoJob]

\* Recovery hands no timestamps to clock_, which starts from system time.
Restart ==
  /\ W!recover
  /\ LET mem == Replayed(recovered') IN
       blob' = mem.blob /\ leaf' = mem.leaf /\ phantom' = mem.phantom
  /\ clock' \in IF SetBack THEN 0 .. clock ELSE {clock}
  /\ UNCHANGED <<pend, writes, job>>

\* Physical time passes.
Tick ==
  /\ open /\ clock < MaxClock /\ clock' = clock + 1
  /\ UNCHANGED <<store_vars, wal_vars, job>>

Unlogged == {t \in Threads : ~Idle(t) /\ ~job[t].logged}

Start(t, k, first, second) ==
  /\ open /\ Idle(t) /\ k \in KeysOf[t]
  /\ appends + Cardinality(Unlogged) < MaxAppends
  /\ job' = [job EXCEPT ![t] =
       [batch |-> <<[slot |-> Data(k), op |-> first.op, arg |-> first.arg],
                    [slot |-> MetaOf(k), op |-> second.op, arg |-> second.arg]>>,
        logged |-> FALSE]]
  /\ UNCHANGED <<store_vars, wal_vars>>

Put(content) == [op |-> "PUT", arg |-> content]
Patch(field, type, ts) == [op |-> "PATCH", arg |-> <<field, type, <<ts>>>>]
Delete == [op |-> "DELETE", arg |-> Tombstone]

\* clock_.now(), at the head of every local operation.
Now == clock < MaxClock /\ clock' = clock + 1
Stamp == 2 * clock'

put(t, k) == Now /\ Start(t, k, Put(Body(Stamp)), Put(Meta(Stamp, FALSE)))

del(t, k) == Now /\ Start(t, k, Delete, Put(Meta(Stamp, TRUE)))

\* patch_int, patch_str: the timestamp goes into the meta blob as a string,
\* under the name of the field.
patch(t, k, field, type) ==
  Now /\ Start(t, k, Patch(field, type, Stamp), Patch(field, "str", Stamp))

\* apply_mutation up to the log: the timestamps are compared here and not
\* looked at again, and clock_ takes no notice of the mutation's.
apply_mutation(t, k, ts, dead) ==
  /\ ts > LocalTs(blob[MetaOf(k)])
  /\ Start(t, k, IF dead THEN Delete ELSE Put(Body(ts)), Put(Meta(ts, dead)))
  /\ UNCHANGED clock

RemoteRanks == {2 * w + 1 : w \in 1 .. clock + Drift}

\* Mutant: the meta entry of the batch is not logged.
LogData(t) ==
  /\ t \in Unlogged
  /\ W!append(<<Entry(Head(job[t].batch))>>)
  /\ job' = [job EXCEPT ![t].logged = TRUE]
  /\ UNCHANGED <<store_vars, clock>>

\* wal_->append_batch(batch): whether the log took it is not looked at.
Log(t) ==
  /\ t \in Unlogged
  /\ W!append([i \in DOMAIN job[t].batch |-> Entry(job[t].batch[i])])
  /\ job' = [job EXCEPT ![t].logged = TRUE]
  /\ UNCHANGED <<store_vars, clock>>

\* Mutant: the maps change before the log does.
ApplyFirst(t) ==
  /\ ~Idle(t)
  /\ S!Apply(t, Head(job[t].batch).slot, Head(job[t].batch))
  /\ UNCHANGED <<wal_vars, clock, job>>

\* The apply_ functions, one after the other.
Apply(t) ==
  /\ ~Idle(t) /\ job[t].logged
  /\ S!Apply(t, Head(job[t].batch).slot, Head(job[t].batch))
  /\ UNCHANGED <<wal_vars, clock, job>>

Delta(t) ==
  /\ S!Delta(t)
  /\ job' = [job EXCEPT ![t].batch = Tail(@)]
  /\ UNCHANGED <<wal_vars, clock>>

Write ==
  \/ W!Drain /\ UNCHANGED <<store_vars, clock, job>>
  \/ W!flush /\ UNCHANGED <<store_vars, clock, job>>

\* main() joins its threads before db.flush() and the end of the process.
Shutdown ==
  /\ \A t \in Threads : Idle(t)
  /\ W!Shutdown /\ S!Reset /\ UNCHANGED <<clock, job>>

\* Mutant: a batch goes on in the next process.
CrashKeepsJobs == W!Crash /\ S!Reset /\ UNCHANGED <<clock, job>>

Crash ==
  /\ W!Crash /\ S!Reset
  /\ job' = [t \in Threads |-> NoJob] /\ UNCHANGED clock

Next ==
  \/ Restart \/ Tick \/ Write \/ Shutdown \/ Crash
  \/ \E t \in Threads : Log(t) \/ Apply(t) \/ Delta(t)
  \/ \E t \in Threads, k \in Keys :
       \/ put(t, k) \/ del(t, k)
       \/ \E f \in Fields, type \in Types : patch(t, k, f, type)
       \/ \E ts \in RemoteRanks, dead \in BOOLEAN : apply_mutation(t, k, ts, dead)

Spec == Init /\ [][Next]_vars
-----------------------------------------------------------------------------
\* Jobs are batches under way of a thread, and only in a running process.
TypeOK ==
  /\ blob \in [Slots -> (SUBSET Pairs) \cup {Absent}]
  /\ DOMAIN job = Threads /\ clock \in 0 .. MaxClock
  /\ \A t \in Threads :
       /\ Len(job[t].batch) <= 2 /\ (~Idle(t) => open)
       /\ pend[t] # {} => ~Idle(t) /\ job[t].logged

\* While the process runs, the write a key holds gives way to newer ones only.
NewestWins ==
  [][open /\ open' => \A k \in Keys :
       LocalTs(blob[MetaOf(k)]) <= LocalTs(blob'[MetaOf(k)])]_vars
=============================================================================
