--------------------------- MODULE EngineHistory ----------------------------
(***************************************************************************)
(* What the memory of an engine owes to its log, key by key.  A history    *)
(* variable notes what has come between the two since the latest restart:  *)
(* two threads at work on one key, a batch the log has refused, a patch    *)
(* that recovery reads differently.  What is noted for a key excuses that  *)
(* key only, and no longer than to the end of the process.                 *)
(***************************************************************************)
EXTENDS Engine

VARIABLE mishaps   \* pairs of a key and what has happened to it

historyVars == <<vars, mishaps>>

WorksOn(t, k) == ~Idle(t) /\ Head(job[t].batch).slot[1] = k
AtRest(k) == \A t \in Threads : ~WorksOn(t, k)

\* Two threads are at work on the key.
Raced == {k \in Keys : \E t, u \in Threads : t # u /\ WorksOn(t, k) /\ WorksOn(u, k)}

\* A name with a ':' is being patched.
Astray ==
  {k \in Keys : \E t \in Threads :
     /\ WorksOn(t, k)
     /\ \E step \in Range(job[t].batch) : step.op = "PATCH" /\ Len(step.arg[1]) > 1}

\* In this step the log refuses a batch.
Refused ==
  {k \in Keys : \E t \in Unlogged : job'[t].logged /\ WorksOn(t, k) /\ errors' # errors}

HistoryInit == Init /\ mishaps = {}

HistoryNext ==
  /\ Next
  /\ mishaps' =
       IF open' # open THEN {}
       ELSE mishaps \cup (Raced' \X {"raced"}) \cup (Astray' \X {"astray"})
                    \cup (Refused \X {"refused"})

HistorySpec == HistoryInit /\ [][HistoryNext]_historyVars

Spared(k, whats) == \A what \in whats : <<k, what>> \notin mishaps
-----------------------------------------------------------------------------
\* The log as the next restart will read it.  Behind torn bytes, and after a
\* recovery that met an error, the file holds other records than the process
\* has read and given to it.
Log_ ==
  IF W!Whole /\ recovered = held THEN W!Intact(disk) \o buffer
  ELSE recovered \o accepted

\* A key that no thread is working on has in memory what a restart would
\* bring back from the log, its Merkle leaf included once all threads rest,
\* unless two threads have worked on it at once since the latest restart, the
\* log has refused a batch of it, or a patched name had a ':'.
MemoryIsLog ==
  open =>
    LET mem == Replayed(Log_)
        sound == {k \in Keys : AtRest(k) /\ Spared(k, {"raced", "refused", "astray"})}
    IN  /\ \A k \in sound :
             blob[Data(k)] = mem.blob[Data(k)] /\ blob[MetaOf(k)] = mem.blob[MetaOf(k)]
        /\ \A b \in Buckets :
             (\A s \in Slots : BucketOf[s] = b => s[1] \in sound) => leaf[b] = mem.leaf[b]

\* What recovery would find in these records for slot s.
Content(step) == IF step.op = "PATCH" THEN {step.arg} ELSE step.arg
Given(s, records) ==
  LET entries == UNION {Range(r) : r \in Range(records)}
      steps == UNION {Range(Reparsed(e)) : e \in {x \in entries : x.slot = s}}
  IN  UNION {Content(step) : step \in steps}

\* Also in the middle of an operation, with several threads on the key and
\* after a crash, memory shows no data that the log does not have, unless the
\* log has refused a batch of the key or a patched name had a ':'.
WriteAhead ==
  open => \A s \in Slots :
    blob[s] # Absent /\ Spared(s[1], {"refused", "astray"}) => blob[s] \subseteq Given(s, Log_)

\* A key that nobody is working on holds the data and the meta blob of one
\* write, unless two threads have worked on it at once in this process: the
\* two are logged and replayed as one, so that no crash parts them and a
\* restart mends what a race has mixed up.
MetaMatches ==
  \A k \in Keys :
    open /\ AtRest(k) /\ Spared(k, {"raced"}) =>
      LET data == blob[Data(k)]  meta == blob[MetaOf(k)] IN
      /\ \A ts \in Ranks : Body(ts) \subseteq data => LocalTs(meta) = ts
      /\ Tombstone \subseteq data <=> \E p \in meta : p[1] = <<"tombstone">>
=============================================================================
