------------------------------- MODULE WalFile ------------------------------
(***************************************************************************)
(* The bytes of the write-ahead log of src/engine/wal.hpp, beside the      *)
(* records of Wal: what append() and append_batch() write, and what the    *)
(* read loop of recover() makes of the file after any crash.               *)
(*                                                                         *)
(* A cell is a field or a character.  The CRC of a record is the record    *)
(* itself, so that different records have different CRCs, and none is      *)
(* zero; read as a number, after the reader has lost its place, it is      *)
(* Wild.                                                                   *)
(***************************************************************************)
EXTENDS Wal, SequencesExt

CONSTANTS
  KeyWidth,   \* 2^16: key lengths are written modulo this
  Wild,
  MaxZeros    \* zero cells that a crash may leave behind the file

PUT == 1
PATCH_I64 == 2
DELETE_ == 3
BATCH == 4
PATCH_STR == 5

\* Records are [batch, ops], ops a sequence of [op, key, value]; without
\* batch there is one op.
ASSUME FileAssumption ==
  /\ KeyWidth \in Nat \ {0} /\ Wild \in Nat /\ MaxZeros \in Nat
  /\ \A r \in Records : r.batch \/ Len(r.ops) = 1

VARIABLE bytes   \* the file

fileVars == <<walVars, bytes>>

Cell(n) == <<n>>
compute_crc(op, key, payload) == <<op, key, payload>>
Number(cell) == IF Len(cell) = 1 THEN cell[1] ELSE Wild
KeyLen(key) == Cell(Len(key) % KeyWidth)

\* append(): header, key, payload.
AppendBytes(op, key, payload) ==
  <<compute_crc(op, key, payload), Cell(op), KeyLen(key), Cell(Len(payload))>> \o key \o payload

\* append_batch(): the operations are the payload of one record.
BatchBytes(ops) ==
  <<Cell(Len(ops))>>
    \o FlattenSeq([i \in DOMAIN ops |->
         <<Cell(ops[i].op), KeyLen(ops[i].key)>> \o ops[i].key
           \o <<Cell(Len(ops[i].value))>> \o ops[i].value])

Bytes(r) ==
  IF r.batch THEN AppendBytes(BATCH, <<>>, BatchBytes(r.ops))
  ELSE AppendBytes(r.ops[1].op, r.ops[1].key, r.ops[1].value)
AllBytes(records) == FlattenSeq([i \in DOMAIN records |-> Bytes(records[i])])
-----------------------------------------------------------------------------
\* The operations of a batch; a length that leads past its end ends it.
RECURSIVE BatchOps(_, _)
BatchOps(p, count) ==
  IF count = 0 \/ Len(p) < 2 THEN <<>>
  ELSE LET k == Number(p[2]) IN
       IF Len(p) < 3 + k THEN <<>>
       ELSE LET v == Number(p[3 + k])
                op == [op |-> Number(p[1]), key |-> SubSeq(p, 3, 2 + k),
                       value |-> SubSeq(p, 4 + k, 3 + k + v)]
            IN  IF Len(p) < 3 + k + v THEN <<>>
                ELSE <<op>> \o BatchOps(SubSeq(p, 4 + k + v, Len(p)), count - 1)

\* Mutant: no CRC check.
AnyCrc(crc, op, key, payload) == TRUE

\* The CRC check, with its exception for records of an older format.
CrcPasses(crc, op, key, payload) == crc \in {compute_crc(op, key, payload), Cell(0)}

\* The read loop of recover() and the calls of its callback.
RECURSIVE ReadLoop(_)
ReadLoop(f) ==
  IF Len(f) < 4 THEN <<>>
  ELSE LET op == Number(f[2])
           k == Number(f[3])
           end == 4 + k + Number(f[4])
           key == SubSeq(f, 5, 4 + k)
           payload == SubSeq(f, 5 + k, end)
           calls == CASE op # BATCH -> <<[op |-> op, key |-> key, value |-> payload]>>
                      [] op = BATCH /\ payload = <<>> -> <<>>
                      [] OTHER -> BatchOps(Tail(payload), Number(payload[1]))
       IN  IF Len(f) < end \/ ~CrcPasses(f[1], op, key, payload) THEN <<>>
           ELSE calls \o ReadLoop(SubSeq(f, end + 1, Len(f)))

\* The callback of the engine ignores other operations.
Replayed(f) ==
  LET Known(c) == c.op \in {PUT, DELETE_, PATCH_I64, PATCH_STR}
  IN  SelectSeq(ReadLoop(f), Known)
-----------------------------------------------------------------------------
FileInit == WalInit /\ bytes = <<>>

\* Steps that leave the file alone.
Memory == (recover \/ \E r \in Records : append(r)) /\ UNCHANGED bytes

\* What Torn stands for: any part of the next record, and zeros where the file
\* had grown and its data was not yet written.
Cut(next) ==
  {left \in {SubSeq(next, 1, cut) \o [i \in 1 .. z |-> Cell(0)] :
               cut \in 0 .. Len(next) - 1, z \in 0 .. MaxZeros} :
     left # <<>> /\ ~IsPrefix(next, left)}

\* Records go out whole, but for the one that is cut when the process ends.
Write ==
  /\ Drain \/ flush \/ Shutdown \/ Crash
  /\ LET new == SubSeq(disk', Len(disk) + 1, Len(disk'))
         whole == SelectSeq(new, LAMBDA r : r # Torn)
     IN  IF whole = new THEN bytes' = bytes \o AllBytes(new)
         ELSE \E left \in Cut(Bytes(buffer[Len(new)])) :
                bytes' = bytes \o AllBytes(whole) \o left

FileNext == Memory \/ Write

FileSpec == FileInit /\ [][FileNext]_fileVars
-----------------------------------------------------------------------------
\* Whatever crashes, restarts and storage errors lie behind, and wherever
\* writes were cut, the read loop finds in the bytes exactly the operations
\* of the records before the first torn one: no more, no fewer, and none
\* changed by its encoding (append, append_batch, recover).
ReadBack ==
  Replayed(bytes) = FlattenSeq([i \in DOMAIN Intact(disk) |-> Intact(disk)[i].ops])
=============================================================================
