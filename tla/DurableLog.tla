----------------------------- MODULE DurableLog -----------------------------
(***************************************************************************)
(* What the README promises of the write-ahead log: a hard crash loses at  *)
(* most the latest records that were still buffered, a graceful shutdown   *)
(* loses none, and a restart brings back exactly the records that remain.  *)
(***************************************************************************)
EXTENDS Naturals, Sequences

CONSTANT Records

VARIABLES
  log,         \* the records that are not lost
  durable,     \* how many of them a crash cannot take
  open,        \* the log accepts records
  recovered,   \* what the latest restart replayed
  graceful     \* the latest stop was a shutdown, not a crash

vars == <<log, durable, open, recovered, graceful>>

Init ==
  /\ log = <<>> /\ durable = 0 /\ open = FALSE
  /\ recovered = <<>> /\ graceful = TRUE

\* A record is taken, or refused with an error.
Append_(r) ==
  /\ open /\ log' \in {Append(log, r), log}
  /\ UNCHANGED <<durable, open, recovered, graceful>>

Sync ==
  /\ open /\ durable' \in durable .. Len(log)
  /\ UNCHANGED <<log, open, recovered, graceful>>

Crash ==
  /\ open /\ open' = FALSE /\ graceful' = FALSE
  /\ \E n \in durable .. Len(log) : log' = SubSeq(log, 1, n) /\ durable' = n
  /\ UNCHANGED recovered

Shutdown ==
  /\ open /\ open' = FALSE /\ graceful' = TRUE
  /\ durable' = Len(log)
  /\ UNCHANGED <<log, recovered>>

Recover ==
  /\ ~open /\ open' = TRUE
  /\ recovered' = log
  /\ UNCHANGED <<log, durable, graceful>>

Next ==
  \/ \E r \in Records : Append_(r)
  \/ Sync \/ Crash \/ Shutdown \/ Recover

Spec == Init /\ [][Next]_vars
=============================================================================
