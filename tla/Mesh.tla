-------------------------------- MODULE Mesh --------------------------------
(***************************************************************************)
(* src/engine/mesh.cpp and its use in main.cpp: nodes that connect to the  *)
(* peers of their configuration, one TCP connection per direction, and     *)
(* write frames to them from an outbox on the strand of the connection.    *)
(*                                                                         *)
(* A frame is a number; on the wire it is a header (lane and size) and a   *)
(* body.  async_write hands its pieces to the socket one by one, and what  *)
(* two writes in progress together hand over may mix.  The accepting       *)
(* handler of the source is empty ("existing logic") and so drops the      *)
(* socket; OnAccept also allows the Connection::start(false, ..) that the  *)
(* receiving half of the class is written for.                             *)
(***************************************************************************)
EXTENDS Naturals, Sequences, FiniteSets

CONSTANTS
  Nodes,
  PeersOf,    \* PeersOf[n]: the peers in the configuration of n
  OnAccept,   \* what the accept handler does: of "drop", "start"
  Latency,    \* values latency_ms_ > 0 takes: a subset of BOOLEAN
  MaxSends, MaxCrashes, MaxAcceptErrors   \* bounds

Pairs == {p \in Nodes \X Nodes : p[2] \in PeersOf[p[1]]}
Frames == 1 .. MaxSends

ASSUME MeshAssumption ==
  /\ PeersOf \in [Nodes -> SUBSET Nodes]
  /\ OnAccept \subseteq {"drop", "start"} /\ Latency \subseteq BOOLEAN
  /\ MaxSends \in Nat /\ MaxCrashes \in Nat /\ MaxAcceptErrors \in Nat

VARIABLES
  up,         \* nodes that run and listen
  todo,       \* todo[n]: peers main() has yet to connect to
  peers,      \* peers[n]: peers_, the peers with a connection
  acceptor,   \* "armed", or "waiting" for the timer after an error
  sock,       \* sock[p]: the connection of p[1] to p[2]
  timers,     \* frames of p that wait for the simulated latency
  strand,     \* handlers posted to the strand of p: frames, or 0 for start()
  outbox, writing,   \* outbox_, and its async_write calls in progress
  id_write,   \* the async_write of the handshake
  unsent,     \* what the writes in progress have yet to hand to the socket
  wire,       \* what the socket has taken and the peer has not read
  reader,     \* what the peer reads next
  received,   \* history: header and body of the frames handed to on_message_
  mixed,      \* history: pairs on whose connection two writes have mixed
  sends, crashes, errors

nodeVars == <<up, todo, peers, acceptor>>
outVars == <<timers, strand, outbox, writing, id_write>>
pipeVars == <<unsent, wire, mixed>>
bounds == <<sends, crashes, errors>>
vars == <<nodeVars, sock, outVars, pipeVars, reader, received, bounds>>

Start == 0
Id == [kind |-> "id", frame |-> 0]
Header(f) == [kind |-> "header", frame |-> f]
Body(f) == [kind |-> "body", frame |-> f]
Pieces == {Id} \cup [kind : {"header", "body"}, frame : Frames]
Idle == [awaits |-> "nothing", header |-> Id]
ReadId == [awaits |-> "id", header |-> Id]
ReadHeader == [awaits |-> "header", header |-> Id]
ReadBody(h) == [awaits |-> "body", header |-> h]

\* Mutant: the node itself is dialled too.
DialsSelf(n) == PeersOf[n] \cup {n}

\* The peers the loop of main() connects to.
Dials(n) == PeersOf[n]

Init ==
  /\ up = {}
  /\ todo = [n \in Nodes |-> Dials(n)]
  /\ peers = [n \in Nodes |-> {}]
  /\ acceptor = [n \in Nodes |-> "armed"]
  /\ sock = [p \in Pairs |-> "none"]
  /\ timers = [p \in Pairs |-> {}]
  /\ strand = [p \in Pairs |-> <<>>]
  /\ outbox = [p \in Pairs |-> <<>>]
  /\ writing = [p \in Pairs |-> 0]
  /\ id_write = [p \in Pairs |-> "none"]
  /\ unsent = [p \in Pairs |-> <<>>] /\ wire = [p \in Pairs |-> <<>>]
  /\ mixed = {}
  /\ reader = [p \in Pairs |-> Idle]
  /\ received = [p \in Pairs |-> <<>>]
  /\ sends = 0 /\ crashes = 0 /\ errors = 0
-----------------------------------------------------------------------------
\* main(): the Mesh is constructed and listens.
Listen(n) ==
  /\ n \notin up /\ up' = up \cup {n}
  /\ UNCHANGED <<todo, peers, acceptor, sock, outVars, pipeVars, reader, received, bounds>>

\* connect() from the loop of main(): refused while the peer does not listen,
\* and then not tried again.
connect(n, m) ==
  /\ n \in up /\ m \in todo[n]
  /\ todo' = [todo EXCEPT ![n] = @ \ {m}]
  /\ \/ /\ m \in up
        /\ sock' = [sock EXCEPT ![<<n, m>>] = "backlog"]
        /\ strand' = [strand EXCEPT ![<<n, m>>] = <<Start>>]
        /\ peers' = [peers EXCEPT ![n] = @ \cup {m}]
     \/ m \notin up /\ UNCHANGED <<sock, strand, peers>>
  /\ UNCHANGED <<up, acceptor, timers, outbox, writing, id_write, pipeVars, reader,
                 received, bounds>>

\* The handler of async_accept, which then accepts again.
do_accept(p) ==
  /\ p[2] \in up /\ acceptor[p[2]] = "armed" /\ sock[p] = "backlog"
  /\ \/ /\ "drop" \in OnAccept
        /\ sock' = [sock EXCEPT ![p] = "broken"]
        /\ wire' = [wire EXCEPT ![p] = <<>>] /\ unsent' = [unsent EXCEPT ![p] = <<>>]
        /\ UNCHANGED reader
     \/ /\ "start" \in OnAccept
        /\ sock' = [sock EXCEPT ![p] = "open"]
        /\ reader' = [reader EXCEPT ![p] = ReadId]
        /\ UNCHANGED <<wire, unsent>>
  /\ UNCHANGED <<nodeVars, outVars, mixed, received, bounds>>

AcceptError(n) ==
  /\ n \in up /\ acceptor[n] = "armed" /\ errors < MaxAcceptErrors
  /\ acceptor' = [acceptor EXCEPT ![n] = "waiting"] /\ errors' = errors + 1
  /\ UNCHANGED <<up, todo, peers, sock, outVars, pipeVars, reader, received, sends, crashes>>

\* Mutant: the timer runs out and nothing accepts again.
AcceptNoMore(n) ==
  n \in up /\ acceptor[n] = "waiting" /\ UNCHANGED vars

\* The 100 ms are over.
AcceptAgain(n) ==
  /\ n \in up /\ acceptor[n] = "waiting"
  /\ acceptor' = [acceptor EXCEPT ![n] = "armed"]
  /\ UNCHANGED <<up, todo, peers, sock, outVars, pipeVars, reader, received, bounds>>
-----------------------------------------------------------------------------
\* send() to a known peer; for any other it returns false.
send(n, m) ==
  /\ n \in up /\ m \in peers[n] /\ sends < MaxSends
  /\ sends' = sends + 1
  /\ \/ /\ TRUE \in Latency
        /\ timers' = [timers EXCEPT ![<<n, m>>] = @ \cup {sends'}]
        /\ UNCHANGED strand
     \/ /\ FALSE \in Latency
        /\ strand' = [strand EXCEPT ![<<n, m>>] = Append(@, sends')]
        /\ UNCHANGED timers
  /\ UNCHANGED <<nodeVars, sock, outbox, writing, id_write, pipeVars, reader, received,
                 crashes, errors>>

\* Timers of equal length may run their handlers in any order.
TimerFires(p, f) ==
  /\ f \in timers[p]
  /\ timers' = [timers EXCEPT ![p] = @ \ {f}]
  /\ strand' = [strand EXCEPT ![p] = Append(@, f)]
  /\ UNCHANGED <<nodeVars, sock, outbox, writing, id_write, pipeVars, reader, received,
                 bounds>>

\* A call of async_write.  On a connection that has broken it hands over
\* nothing.
async_write(p, pieces) ==
  /\ unsent' = IF sock[p] = "broken" THEN unsent ELSE [unsent EXCEPT ![p] = @ \o pieces]
  /\ UNCHANGED <<wire, mixed>>

\* The socket takes the next piece of a write in progress.
Take(p) ==
  /\ \E i \in DOMAIN unsent[p] :
       /\ \A j \in 1 .. i - 1 : unsent[p][j].frame # unsent[p][i].frame
       /\ wire' = [wire EXCEPT ![p] = Append(@, unsent[p][i])]
       /\ unsent' = [unsent EXCEPT ![p] = SubSeq(@, 1, i - 1) \o SubSeq(@, i + 1, Len(@))]
       /\ mixed' = IF i = 1 THEN mixed ELSE mixed \cup {p}
  /\ UNCHANGED <<nodeVars, sock, outVars, reader, received, bounds>>

\* All of the write of frame f, or of the handshake, has been handed over.
HandedOver(p, f) == \A i \in DOMAIN unsent[p] : unsent[p][i].frame # f

\* Mutant: the body goes before its header.
WriteBodyFirst(p, f) == async_write(p, <<Body(f), Header(f)>>)

do_write(p, f) == async_write(p, <<Header(f), Body(f)>>)

\* The strand runs do_send_id().
do_send_id(p) ==
  /\ strand[p] # <<>> /\ Head(strand[p]) = Start
  /\ strand' = [strand EXCEPT ![p] = Tail(@)]
  /\ id_write' = [id_write EXCEPT ![p] = "pending"]
  /\ async_write(p, <<Id>>)
  /\ UNCHANGED <<nodeVars, sock, timers, outbox, writing, reader, received, bounds>>

\* The handshake is written, or has failed.
SentId(p) ==
  /\ id_write[p] = "pending" /\ HandedOver(p, Start)
  /\ \/ id_write' = [id_write EXCEPT ![p] = "done"]
     \/ sock[p] = "broken" /\ id_write' = [id_write EXCEPT ![p] = "failed"]
  /\ UNCHANGED <<nodeVars, sock, timers, strand, outbox, writing, pipeVars, reader,
                 received, bounds>>

\* Mutant: every frame starts a write of its own.
EnqueueEager(p) ==
  /\ strand[p] # <<>> /\ Head(strand[p]) # Start
  /\ strand' = [strand EXCEPT ![p] = Tail(@)]
  /\ outbox' = [outbox EXCEPT ![p] = Append(@, Head(strand[p]))]
  /\ writing' = [writing EXCEPT ![p] = @ + 1] /\ do_write(p, Head(strand[p]))
  /\ UNCHANGED <<nodeVars, sock, timers, id_write, reader, received, bounds>>

\* The strand runs the handler of Connection::send().
Enqueue(p) ==
  /\ strand[p] # <<>> /\ Head(strand[p]) # Start
  /\ strand' = [strand EXCEPT ![p] = Tail(@)]
  /\ outbox' = [outbox EXCEPT ![p] = Append(@, Head(strand[p]))]
  /\ IF outbox[p] = <<>>
     THEN writing' = [writing EXCEPT ![p] = @ + 1] /\ do_write(p, Head(strand[p]))
     ELSE UNCHANGED <<writing, pipeVars>>
  /\ UNCHANGED <<nodeVars, sock, timers, id_write, reader, received, bounds>>

\* Mutant: the next write begins before the front is popped.
WrittenTwice(p) ==
  /\ writing[p] > 0 /\ HandedOver(p, Head(outbox[p]))
  /\ outbox' = [outbox EXCEPT ![p] = Tail(@)]
  /\ IF Len(outbox[p]) > 1
     THEN do_write(p, Head(outbox[p])) /\ UNCHANGED writing
     ELSE writing' = [writing EXCEPT ![p] = @ - 1] /\ UNCHANGED pipeVars
  /\ UNCHANGED <<nodeVars, sock, timers, strand, id_write, reader, received, bounds>>

\* The handler of do_write() without an error; the socket may take a frame
\* that the peer will never read.
Written(p) ==
  /\ writing[p] > 0 /\ HandedOver(p, Head(outbox[p]))
  /\ outbox' = [outbox EXCEPT ![p] = Tail(@)]
  /\ IF Len(outbox[p]) > 1
     THEN do_write(p, outbox[p][2]) /\ UNCHANGED writing
     ELSE writing' = [writing EXCEPT ![p] = @ - 1] /\ UNCHANGED pipeVars
  /\ UNCHANGED <<nodeVars, sock, timers, strand, id_write, reader, received, bounds>>

\* The handler of do_write() with an error: nothing is popped or retried.
WriteError(p) ==
  /\ writing[p] > 0 /\ sock[p] = "broken"
  /\ writing' = [writing EXCEPT ![p] = @ - 1]
  /\ UNCHANGED <<nodeVars, sock, timers, strand, outbox, id_write, pipeVars, reader,
                 received, bounds>>
-----------------------------------------------------------------------------
\* The receiving end takes the next piece for what it awaits.
Reads(p, awaits) ==
  /\ sock[p] = "open" /\ reader[p].awaits = awaits /\ wire[p] # <<>>
  /\ wire' = [wire EXCEPT ![p] = Tail(@)]
  /\ UNCHANGED <<nodeVars, sock, outVars, unsent, mixed, bounds>>

do_read_id(p) ==
  /\ Reads(p, "id")
  /\ reader' = [reader EXCEPT ![p] = ReadHeader]
  /\ UNCHANGED received

do_read_header(p) ==
  /\ Reads(p, "header")
  /\ reader' = [reader EXCEPT ![p] = ReadBody(Head(wire[p]))]
  /\ UNCHANGED received

do_read_body(p) ==
  /\ Reads(p, "body")
  /\ received' = [received EXCEPT ![p] = Append(@, <<reader[p].header, Head(wire[p])>>)]
  /\ reader' = [reader EXCEPT ![p] = ReadHeader]

\* A node dies; its connections break and all that was under way is lost.
Crash(n) ==
  /\ n \in up /\ crashes < MaxCrashes /\ crashes' = crashes + 1
  /\ up' = up \ {n}
  /\ todo' = [todo EXCEPT ![n] = Dials(n)]
  /\ peers' = [peers EXCEPT ![n] = {}]
  /\ acceptor' = [acceptor EXCEPT ![n] = "armed"]
  /\ LET Own(f, fresh) == [p \in Pairs |-> IF p[1] = n THEN fresh ELSE f[p]]
         Both(f, fresh) == [p \in Pairs |-> IF n \in {p[1], p[2]} THEN fresh ELSE f[p]]
     IN  /\ timers' = Own(timers, {}) /\ strand' = Own(strand, <<>>)
         /\ outbox' = Own(outbox, <<>>) /\ writing' = Own(writing, 0)
         /\ id_write' = Own(id_write, "none")
         /\ unsent' = Both(unsent, <<>>) /\ wire' = Both(wire, <<>>)
         /\ reader' = Both(reader, Idle)
         /\ sock' = [p \in Pairs |->
                       IF p[1] = n THEN "none"
                       ELSE IF p[2] = n /\ sock[p] # "none" THEN "broken"
                       ELSE sock[p]]
  /\ UNCHANGED <<received, mixed, sends, errors>>
-----------------------------------------------------------------------------
StrandStep(p) == do_send_id(p) \/ Enqueue(p)
Read(p) == do_read_id(p) \/ do_read_header(p) \/ do_read_body(p)

Next ==
  \/ \E n \in Nodes : Listen(n) \/ AcceptError(n) \/ AcceptAgain(n) \/ Crash(n)
  \/ \E n, m \in Nodes : connect(n, m) \/ send(n, m)
  \/ \E p \in Pairs :
       \/ do_accept(p) \/ StrandStep(p) \/ Take(p) \/ SentId(p) \/ Written(p)
       \/ WriteError(p) \/ Read(p)
       \/ \E f \in Frames : TimerFires(p, f)

Spec == Init /\ [][Next]_vars

\* The io_context threads run every handler that is ready.  A write ends one
\* way or the other; which one, the network decides.
Fairness ==
  /\ \A n \in Nodes :
       /\ WF_vars(Listen(n)) /\ WF_vars(AcceptAgain(n))
       /\ \A m \in Nodes : WF_vars(connect(n, m))
  /\ \A p \in Pairs :
       /\ WF_vars(do_accept(p)) /\ WF_vars(StrandStep(p)) /\ WF_vars(Read(p))
       /\ WF_vars(Take(p)) /\ WF_vars(Written(p) \/ WriteError(p))
       /\ \A f \in Frames : WF_vars(TimerFires(p, f))

FairSpec == Spec /\ Fairness
-----------------------------------------------------------------------------
\* The state of every node and connection has the shape the class gives it.
TypeOK ==
  /\ up \in SUBSET Nodes
  /\ todo \in [Nodes -> SUBSET Nodes] /\ peers \in [Nodes -> SUBSET Nodes]
  /\ \A n \in Nodes : todo[n] \subseteq PeersOf[n] /\ peers[n] \subseteq PeersOf[n]
  /\ acceptor \in [Nodes -> {"armed", "waiting"}]
  /\ sock \in [Pairs -> {"none", "backlog", "open", "broken"}]
  /\ timers \in [Pairs -> SUBSET Frames]
  /\ strand \in [Pairs -> Seq(Frames \cup {Start})]
  /\ outbox \in [Pairs -> Seq(Frames)] /\ writing \in [Pairs -> Nat]
  /\ id_write \in [Pairs -> {"none", "pending", "done", "failed"}]
  /\ unsent \in [Pairs -> Seq(Pieces)] /\ wire \in [Pairs -> Seq(Pieces)]
  /\ mixed \subseteq Pairs
  /\ reader \in [Pairs -> [awaits : {"nothing", "id", "header", "body"}, header : Pieces]]
  /\ received \in [Pairs -> Seq(Pieces \X Pieces)]
  /\ sends \in 0 .. MaxSends /\ crashes \in 0 .. MaxCrashes
  /\ errors \in 0 .. MaxAcceptErrors

\* The strand keeps at most one async_write of the outbox in progress, of the
\* frame at its front; and a connection that is not broken never leaves frames
\* in the outbox without one (Connection::send and do_write).
OneWrite ==
  \A p \in Pairs :
    /\ writing[p] \in {0, 1}
    /\ writing[p] = 1 => outbox[p] # <<>>
    /\ outbox[p] # <<>> /\ sock[p] # "broken" => writing[p] = 1

\* The frames posted to a connection that can still arrive, oldest first.
UnderWay(p) ==
  IF sock[p] \notin {"backlog", "open"} THEN <<>>
  ELSE LET IsBody(x) == x.kind = "body"
           IsFrame(h) == h # Start
           read == SelectSeq(wire[p] \o unsent[p], IsBody)
       IN  [i \in DOMAIN read |-> read[i].frame]
             \o (IF writing[p] > 0 THEN Tail(outbox[p]) ELSE outbox[p])
             \o SelectSeq(strand[p], IsFrame)

Bodies(p) == [i \in DOMAIN received[p] |-> received[p][i][2].frame]
Ch == INSTANCE Channel WITH
        Messages <- Frames,
        net <- [p \in Pairs |-> UnderWay(p)],
        got <- [p \in Pairs |-> Bodies(p)]

\* The mesh is the channel SyncManager is checked over: frames posted to a
\* connection reach the callback in order and at most once, whatever breaks
\* (send(), the strand, outbox_ and the reading loop), until the handshake
\* and the first frame of a connection mix.
KeepsOrder == Ch!Init /\ [][mixed' = {} => Ch!Next]_(Ch!vars)

\* The reader meets what it awaits: the handshake first, then a header and
\* its own body (do_send_id, do_write).  The first frame may be written while
\* the handshake is: this holds as long as the socket takes the four bytes of
\* the handshake before any of the frame.
Framed ==
  \A p \in Pairs \ mixed :
    /\ reader[p].awaits # "nothing" /\ wire[p] # <<>> =>
         CASE reader[p].awaits = "body" -> Head(wire[p]) = Body(reader[p].header.frame)
           [] OTHER -> Head(wire[p]).kind = reader[p].awaits
    /\ \A i \in DOMAIN received[p] :
         received[p][i][1] = Header(received[p][i][2].frame)

\* A connection writes out all it was given or turns out to be broken, and an
\* accept error does not keep a later connection waiting (do_write, do_accept).
Drains ==
  \A p \in Pairs :
    /\ strand[p] # <<>> ~> (strand[p] = <<>> /\ outbox[p] = <<>>) \/ sock[p] \in {"broken", "none"}
    /\ sock[p] = "backlog" ~> sock[p] # "backlog"

\* A frame that send() has taken reaches the callback of the peer
\* (test_phase2.cpp and test_mesh_stress.cpp count them).
Delivers ==
  \A f \in Frames :
    (f <= sends) ~> \E p \in Pairs : \E i \in DOMAIN received[p] : received[p][i][2] = Body(f)

\* Two nodes that run get a connection, whichever of them started first
\* (main.cpp: "will wait for them to connect to us").
Meet == \A p \in Pairs : ({p[1], p[2]} \subseteq up) ~> (p[2] \in peers[p[1]])

\* send() returns true only for a peer it is connected to (mesh.hpp).
SendsWhenConnected ==
  [][\A p \in Pairs : strand'[p] # strand[p] /\ sends' # sends => sock[p] # "broken"]_vars
=============================================================================
