-------------------------------- MODULE Wal ---------------------------------
(***************************************************************************)
(* src/engine/wal.hpp: the write-ahead log of an engine, its file, and the *)
(* buffering writer (libconveyor, external) between them.  A record is one *)
(* append: a header with a CRC over operation, key and payload, the key    *)
(* and the payload; a batch is the payload of one record.                  *)
(***************************************************************************)
EXTENDS Naturals, Sequences

CONSTANTS
  Records,
  Torn,         \* bytes in the file that are no record: a write cut short
  TornCrash,    \* may a hard crash cut a write short?
  MaxAppends, MaxErrors, MaxStops   \* bounds; errors are those of any call

ASSUME WalAssumption ==
  /\ Torn \notin Records /\ TornCrash \in BOOLEAN
  /\ MaxAppends \in Nat /\ MaxErrors \in Nat /\ MaxStops \in Nat

VARIABLES
  disk,        \* the file: records, and what crashes left between them
  buffer,      \* records the conveyor has accepted and not yet written
  open,        \* recover() has created the writer
  recovered,   \* what the latest recover() passed to its callback
  held,        \* what it would have passed without an error
  accepted,    \* the records the writer has taken since then
  graceful,    \* the latest stop was a shutdown, not a crash
  appends, errors, stops

log_vars == <<disk, buffer, open, recovered, held, accepted, graceful>>
walVars == <<log_vars, appends, errors, stops>>

\* Mutant: recovery without the CRC check.
Everything(file) == file

\* The read loop of recover(): it stops at the first record that is cut
\* short or whose CRC does not match.
Intact(file) ==
  LET bad == {i \in DOMAIN file : file[i] = Torn} IN
  IF bad = {} THEN file
  ELSE SubSeq(file, 1, (CHOOSE i \in bad : \A j \in bad : i <= j) - 1)

WalInit ==
  /\ disk = <<>> /\ buffer = <<>> /\ open = FALSE
  /\ recovered = <<>> /\ held = <<>> /\ accepted = <<>> /\ graceful = TRUE
  /\ appends = 0 /\ errors = 0 /\ stops = 0

\* An error of the storage that is printed and otherwise ignored.
Error == errors < MaxErrors /\ errors' = errors + 1

\* recover(): replay the file, then open the writer at its end.  Nothing is
\* cut off the file.  Without a reader nothing is replayed, and a read error
\* ends the loop where it occurs; either way the log opens.
recover ==
  /\ ~open /\ open' = TRUE
  /\ held' = Intact(disk) /\ accepted' = <<>>
  /\ \/ recovered' = Intact(disk) /\ UNCHANGED errors
     \/ Error /\ \E n \in 0 .. Len(Intact(disk)) : recovered' = SubSeq(Intact(disk), 1, n)
  /\ UNCHANGED <<disk, buffer, graceful, appends, stops>>

\* append(): the conveyor takes the record, or refuses it and the error is
\* only printed.
append(r) ==
  /\ open
  /\ appends < MaxAppends /\ appends' = appends + 1
  /\ \/ /\ buffer' = Append(buffer, r) /\ accepted' = Append(accepted, r)
        /\ UNCHANGED errors
     \/ Error /\ UNCHANGED <<buffer, accepted>>
  /\ UNCHANGED <<disk, open, recovered, held, graceful, stops>>

\* Mutant: the newest records are written first.
WriteNewest(n) ==
  /\ disk' = disk \o SubSeq(buffer, Len(buffer) - n + 1, Len(buffer))
  /\ buffer' = SubSeq(buffer, 1, Len(buffer) - n)

\* The conveyor writes n records of its buffer.
WriteOut(n) ==
  /\ disk' = disk \o SubSeq(buffer, 1, n)
  /\ buffer' = SubSeq(buffer, n + 1, Len(buffer))

Drain ==
  /\ open /\ buffer # <<>> /\ WriteOut(1)
  /\ UNCHANGED <<open, recovered, held, accepted, graceful, appends, errors, stops>>

\* flush(): after an error the rest stays in the buffer.
flush ==
  /\ open
  /\ \/ WriteOut(Len(buffer)) /\ UNCHANGED errors
     \/ Error /\ \E n \in 0 .. Len(buffer) : WriteOut(n)
  /\ UNCHANGED <<open, recovered, held, accepted, graceful, appends, stops>>

\* The process ends.
Stops == open /\ open' = FALSE /\ stops < MaxStops /\ stops' = stops + 1

\* What is written when it ends before the buffer is empty: the write under
\* way may be cut short.
WriteSome ==
  /\ \E n \in 0 .. Len(buffer) :
       \/ disk' = disk \o SubSeq(buffer, 1, n)
       \/ /\ TornCrash /\ n < Len(buffer)
          /\ disk' = disk \o SubSeq(buffer, 1, n) \o <<Torn>>
  /\ buffer' = <<>>

\* Mutant: main() returns without db.flush().
ShutdownUnflushed ==
  /\ Stops /\ graceful' = TRUE /\ buffer' = <<>>
  /\ UNCHANGED <<disk, recovered, held, accepted, appends, errors>>

\* main() returns: db.flush(), then the conveyor's destructor.
Shutdown ==
  /\ Stops /\ graceful' = TRUE
  /\ \/ WriteOut(Len(buffer)) /\ UNCHANGED errors
     \/ Error /\ WriteSome
  /\ UNCHANGED <<recovered, held, accepted, appends>>

\* The process dies.
Crash ==
  /\ Stops /\ graceful' = FALSE /\ WriteSome
  /\ UNCHANGED <<recovered, held, accepted, appends, errors>>

WalNext ==
  \/ recover \/ Drain \/ flush \/ Shutdown \/ Crash
  \/ \E r \in Records : append(r)

WalSpec == WalInit /\ [][WalNext]_walVars
-----------------------------------------------------------------------------
\* recover() hands on records only, never the bytes a crash has cut short.
WalTypeOK ==
  /\ disk \in Seq(Records \cup {Torn}) /\ buffer \in Seq(Records)
  /\ open \in BOOLEAN /\ graceful \in BOOLEAN
  /\ recovered \in Seq(Records) /\ held \in Seq(Records) /\ accepted \in Seq(Records)
  /\ appends \in Nat /\ errors \in Nat /\ stops \in Nat

Begins(s, t) == Len(s) <= Len(t) /\ SubSeq(t, 1, Len(s)) = s

\* A restart replays, in the order they were appended and without a gap, a
\* front part of what the file held at the restart before and of the records
\* taken since then: nothing from torn bytes.  Unless recover() meets an
\* error it replays at least all the file held then, also what the restart
\* before could not read.
RecoversInOrder ==
  [][recover => /\ Begins(recovered', held \o accepted)
                /\ errors' = errors => Begins(held, recovered')]_walVars

Promise == INSTANCE DurableLog WITH
  log <- Intact(disk) \o buffer, durable <- Len(Intact(disk))

\* The file, its buffer and recovery keep the promise of the README until a
\* write has been cut short, and through the crash that does so, in every
\* step in which the storage reports no error: what is appended and survives
\* its stop is replayed by every later restart, in order, and only records
\* still in the buffer are ever lost.  An error excuses its own step, none of
\* those after it.
Whole == \A i \in DOMAIN disk : disk[i] # Torn
KeepsPromise ==
  Promise!Init /\ [][Whole /\ errors' = errors => Promise!Next]_(Promise!vars)

\* They keep it for good, also behind a write that was cut short.
KeepsPromiseTorn == Promise!Spec
=============================================================================
