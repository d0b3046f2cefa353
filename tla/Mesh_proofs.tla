---------------------------- MODULE Mesh_proofs -----------------------------
(***************************************************************************)
(* For every set of nodes, every configuration of peers and any number of  *)
(* messages, accept errors and crashes: a connection has at most one write *)
(* of its outbox in progress, and its reader finds the handshake and then  *)
(* whole frames, unless the handshake and the first frame have mixed.      *)
(*                                                                         *)
(* The reader can rely on the wire only because of what the strand holds:  *)
(* start() is the first handler on it, so that the write of the handshake  *)
(* begins before that of any frame (PairInv relates strand, outbox, what   *)
(* is unsent, wire and reader).                                            *)
(***************************************************************************)
EXTENDS Mesh, SequenceTheorems, TLAPS

Handshake(p) == strand[p] # <<>> /\ strand[p][1] = Start
Up(p) == sock[p] \in {"backlog", "open"}

\* Whole frames follow each other, the last one complete.
Whole(w) ==
  /\ \A i \in 1 .. Len(w) - 1 :
       IF w[i].kind = "header" THEN w[i + 1] = Body(w[i].frame)
       ELSE w[i + 1].kind = "header"
  /\ w # <<>> => w[Len(w)].kind # "header"

\* What the reader r is to find on the wire w of a connection.
Awaited(r, w) ==
  CASE r.awaits = "header" -> w # <<>> => w[1].kind = "header"
    [] r.awaits = "body" -> /\ r.header \in {Header(f) : f \in Frames}
                            /\ w # <<>> /\ w[1] = Body(r.header.frame)
    [] OTHER -> w # <<>> /\ w[1] = Id

\* A peer still to be dialled has no connection, and no connection no work.
ConnInv(p) ==
  /\ p[2] \in todo[p[1]] => sock[p] = "none"
  /\ p[2] \in peers[p[1]] => sock[p] # "none"
  /\ sock[p] = "none" => /\ strand[p] = <<>> /\ timers[p] = {}
                         /\ outbox[p] = <<>> /\ writing[p] = 0
  /\ sock[p] # "open" => reader[p] = Idle
  /\ sock[p] = "open" => reader[p].awaits # "nothing"
  /\ ~Up(p) => wire[p] = <<>> /\ unsent[p] = <<>>

WriteInv(p) ==
  /\ writing[p] \in {0, 1}
  /\ writing[p] = 1 => outbox[p] # <<>>
  /\ outbox[p] # <<>> /\ sock[p] # "broken" => writing[p] = 1

OneStart(p) == \A i \in 2 .. Len(strand[p]) : strand[p][i] # Start
Paired(p) ==
  \A i \in 1 .. Len(received[p]) : received[p][i][1] = Header(received[p][i][2].frame)

\* What is on the wire and what is still to be handed to the socket make up
\* the stream the reader is to get, while no two writes have mixed.
WireInv(p) ==
  /\ OneStart(p)
  /\ Handshake(p) => /\ outbox[p] = <<>> /\ wire[p] = <<>> /\ unsent[p] = <<>>
                     /\ reader[p].awaits \in {"nothing", "id"}
  /\ p \notin mixed =>
       /\ Whole(wire[p] \o unsent[p]) /\ Paired(p)
       /\ Up(p) /\ ~Handshake(p) => Awaited(reader[p], wire[p] \o unsent[p])

PairInv == \A p \in Pairs : ConnInv(p) /\ WriteInv(p) /\ WireInv(p)
Inv == TypeOK /\ PairInv

-----------------------------------------------------------------------------
LEMMA PieceTypes ==
  /\ Id \in Pieces /\ Id.kind = "id"
  /\ \A f \in Frames : /\ Header(f) \in Pieces /\ Header(f).kind = "header" /\ Header(f).frame = f
                       /\ Body(f) \in Pieces /\ Body(f).kind = "body" /\ Body(f).frame = f
  BY DEF Pieces, Id, Header, Body

\* do_write() adds a whole frame behind whole frames.
LEMMA FrameAdded ==
  ASSUME NEW w \in Seq(Pieces), Whole(w), NEW f \in Frames
  PROVE  LET v == w \o <<Header(f), Body(f)>> IN
         /\ v \in Seq(Pieces) /\ Whole(v) /\ v # <<>>
         /\ w # <<>> => v[1] = w[1]
         /\ w = <<>> => v[1] = Header(f)
<1> DEFINE v == w \o <<Header(f), Body(f)>>
<1>1. Header(f) \in Pieces /\ Body(f) \in Pieces
  BY PieceTypes
<1>2. /\ v \in Seq(Pieces) /\ Len(v) = Len(w) + 2 /\ Len(w) \in Nat
      /\ \A i \in 1 .. Len(w) : v[i] = w[i]
      /\ v[Len(w) + 1] = Header(f) /\ v[Len(w) + 2] = Body(f)
  BY <1>1
<1>3. Header(f).kind = "header" /\ Header(f).frame = f /\ Body(f).kind = "body"
  BY PieceTypes
<1> HIDE DEF v
<1>4. ASSUME NEW i \in 1 .. Len(v) - 1
      PROVE  IF v[i].kind = "header" THEN v[i + 1] = Body(v[i].frame)
             ELSE v[i + 1].kind = "header"
  <2>1. CASE i \in 1 .. Len(w) - 1
    BY <1>2, <2>1 DEF Whole
  <2>2. CASE i = Len(w)
    <3>1. w # <<>> /\ v[i] = w[Len(w)] /\ v[i + 1] = Header(f)
      BY <1>2, <2>2
    <3> QED
      BY <1>3, <3>1 DEF Whole
  <2>3. CASE i = Len(w) + 1
    <3>1. v[i] = Header(f) /\ v[i + 1] = Body(f)
      BY <1>2, <2>3
    <3> QED
      BY <1>3, <3>1
  <2> QED
    BY <1>2, <2>1, <2>2, <2>3
<1>5. v[Len(v)].kind # "header"
  BY <1>2, <1>3
<1>6. Whole(v)
  BY <1>4, <1>5 DEF Whole
<1>7. v # <<>> /\ (w # <<>> => v[1] = w[1]) /\ (w = <<>> => v[1] = Header(f))
  BY <1>2
<1> QED
  BY <1>2, <1>6, <1>7 DEF v

\* Reading one piece leaves what the next one is to be.
LEMMA PieceTaken ==
  ASSUME NEW w \in Seq(Pieces), Whole(w), w # <<>>
  PROVE  /\ Tail(w) \in Seq(Pieces) /\ Whole(Tail(w)) /\ w[1] \in Pieces
         /\ IF w[1].kind = "header"
            THEN Tail(w) # <<>> /\ Tail(w)[1] = Body(w[1].frame)
            ELSE Tail(w) # <<>> => Tail(w)[1].kind = "header"
<1> DEFINE v == Tail(w)
<1>1. /\ v \in Seq(Pieces) /\ Len(v) = Len(w) - 1 /\ Len(w) \in Nat /\ Len(w) > 0
      /\ \A i \in 1 .. Len(v) : v[i] = w[i + 1]
  OBVIOUS
<1> HIDE DEF v
<1>2. ASSUME NEW i \in 1 .. Len(v) - 1
      PROVE  IF v[i].kind = "header" THEN v[i + 1] = Body(v[i].frame)
             ELSE v[i + 1].kind = "header"
  <2>1. v[i] = w[i + 1] /\ v[i + 1] = w[(i + 1) + 1] /\ i + 1 \in 1 .. Len(w) - 1
    BY <1>1
  <2> QED
    BY <2>1 DEF Whole
<1>3. v # <<>> => v[Len(v)].kind # "header"
  BY <1>1 DEF Whole
<1>4. Whole(v)
  BY <1>2, <1>3 DEF Whole
<1>5. IF w[1].kind = "header" THEN v # <<>> /\ v[1] = Body(w[1].frame)
      ELSE v # <<>> => v[1].kind = "header"
  <2>1. CASE Len(w) > 1
    <3>1. v # <<>> /\ v[1] = w[1 + 1] /\ 1 \in 1 .. Len(w) - 1
      BY <1>1, <2>1
    <3> QED
      BY <3>1 DEF Whole
  <2>2. CASE Len(w) = 1
    <3>1. v = <<>>
      BY <1>1, <2>2
    <3> QED
      BY <2>2, <3>1 DEF Whole
  <2> QED
    BY <1>1, <2>1, <2>2
<1>6. w[1] \in Pieces
  BY <1>1
<1> QED
  BY <1>1, <1>4, <1>5, <1>6 DEF v
-----------------------------------------------------------------------------
\* The type invariant in parts.
Sockets == {"none", "backlog", "open", "broken"}
Readers == [awaits : {"nothing", "id", "header", "body"}, header : Pieces]

NodeOK ==
  /\ up \in SUBSET Nodes
  /\ todo \in [Nodes -> SUBSET Nodes] /\ peers \in [Nodes -> SUBSET Nodes]
  /\ \A n \in Nodes : todo[n] \subseteq PeersOf[n] /\ peers[n] \subseteq PeersOf[n]
  /\ acceptor \in [Nodes -> {"armed", "waiting"}]
OutOK ==
  /\ timers \in [Pairs -> SUBSET Frames] /\ strand \in [Pairs -> Seq(Frames \cup {Start})]
  /\ outbox \in [Pairs -> Seq(Frames)] /\ writing \in [Pairs -> Nat]
  /\ id_write \in [Pairs -> {"none", "pending", "done", "failed"}]
InOK ==
  /\ sock \in [Pairs -> Sockets] /\ mixed \subseteq Pairs
  /\ unsent \in [Pairs -> Seq(Pieces)] /\ wire \in [Pairs -> Seq(Pieces)]
  /\ reader \in [Pairs -> Readers] /\ received \in [Pairs -> Seq(Pieces \X Pieces)]
BoundOK ==
  sends \in 0 .. MaxSends /\ crashes \in 0 .. MaxCrashes /\ errors \in 0 .. MaxAcceptErrors

LEMMA Parts == TypeOK <=> NodeOK /\ OutOK /\ InOK /\ BoundOK
  BY DEF TypeOK, NodeOK, OutOK, InOK, BoundOK, Sockets, Readers

LEMMA NextParts == NodeOK' /\ OutOK' /\ InOK' /\ BoundOK' => TypeOK'
  BY Parts, PTL

LEMMA SameNode == NodeOK /\ UNCHANGED nodeVars => NodeOK'
  BY DEF NodeOK, nodeVars
LEMMA SameOut == OutOK /\ UNCHANGED outVars => OutOK'
  BY DEF OutOK, outVars
LEMMA SameIn == InOK /\ UNCHANGED <<sock, unsent, wire, mixed, reader, received>> => InOK'
  BY DEF InOK
LEMMA SameBounds == BoundOK /\ UNCHANGED bounds => BoundOK'
  BY DEF BoundOK, bounds

\* A step that leaves the connection q alone.
Same(q) ==
  /\ sock'[q] = sock[q] /\ timers'[q] = timers[q] /\ strand'[q] = strand[q]
  /\ outbox'[q] = outbox[q] /\ writing'[q] = writing[q]
  /\ unsent'[q] = unsent[q] /\ wire'[q] = wire[q] /\ (q \in mixed' <=> q \in mixed)
  /\ reader'[q] = reader[q] /\ received'[q] = received[q]

LEMMA StrandSame ==
  ASSUME NEW q \in Pairs, strand'[q] = strand[q]
  PROVE  (Handshake(q)' <=> Handshake(q)) /\ (OneStart(q)' <=> OneStart(q))
  BY DEF Handshake, OneStart

LEMMA ReceivedSame ==
  ASSUME NEW q \in Pairs, received'[q] = received[q]
  PROVE  Paired(q)' <=> Paired(q)
  BY DEF Paired

LEMMA EmptyIsWhole == Whole(<<>> \o <<>>)
<1>1. <<>> \o <<>> = <<>>
  OBVIOUS
<1>2. Whole(<<>>)
  BY DEF Whole
<1> QED
  BY <1>1, <1>2

LEMMA Others ==
  ASSUME NEW q \in Pairs, PairInv, Same(q),
         todo'[q[1]] \subseteq todo[q[1]],
         q[2] \in peers'[q[1]] => q[2] \in peers[q[1]]
  PROVE  ConnInv(q)' /\ WriteInv(q)' /\ WireInv(q)'
<1>1. ConnInv(q) /\ WriteInv(q) /\ WireInv(q)
  BY DEF PairInv
<1>2. ConnInv(q)'
  BY <1>1 DEF ConnInv, Same, Up
<1>3. WriteInv(q)'
  BY <1>1 DEF WriteInv, Same
<1>4. WireInv(q)'
  <2>1. (Handshake(q)' <=> Handshake(q)) /\ OneStart(q)' /\ (Paired(q)' <=> Paired(q))
    BY <1>1, StrandSame, ReceivedSame DEF WireInv, Same
  <2>2. Up(q)' <=> Up(q)
    BY DEF Same, Up
  <2> QED
    BY <1>1, <2>1, <2>2 DEF WireInv, Same
<1> QED
  BY <1>2, <1>3, <1>4

\* A step that works on the connection p alone.
LEMMA OnePair ==
  ASSUME PairInv, NEW p \in Pairs, UNCHANGED <<todo, peers>>,
         \A q \in Pairs : q # p => Same(q),
         ConnInv(p)', WriteInv(p)', WireInv(p)'
  PROVE  PairInv'
<1>1. ASSUME NEW q \in Pairs, q # p PROVE ConnInv(q)' /\ WriteInv(q)' /\ WireInv(q)'
  BY <1>1, Others
<1>2. ConnInv(p)' /\ WriteInv(p)' /\ WireInv(p)'
  OBVIOUS
<1>3. ASSUME NEW q \in Pairs PROVE ConnInv(q)' /\ WriteInv(q)' /\ WireInv(q)'
  BY <1>1, <1>2
<1>4. Pairs' = Pairs
  BY DEF Pairs
<1> QED
  BY <1>3, <1>4 DEF PairInv

LEMMA InitInv == Init => Inv
<1> SUFFICES ASSUME Init PROVE Inv
  OBVIOUS
<1>1. Idle.awaits = "nothing" /\ Idle \in [awaits : {"nothing", "id", "header", "body"}, header : Pieces]
  BY PieceTypes DEF Idle
<1>2. TypeOK
  BY <1>1, MeshAssumption DEF Init, TypeOK, Pairs, Dials
<1>3. ASSUME NEW p \in Pairs PROVE ConnInv(p) /\ WriteInv(p) /\ WireInv(p)
  <2>1. ConnInv(p) /\ WriteInv(p)
    BY <1>1 DEF Init, ConnInv, WriteInv, Up, Pairs
  <2>2. WireInv(p)
    <3>1. /\ strand[p] = <<>> /\ unsent[p] = <<>> /\ wire[p] = <<>> /\ received[p] = <<>>
          /\ sock[p] = "none"
      BY DEF Init
    <3>2. OneStart(p) /\ Paired(p) /\ ~Handshake(p) /\ ~Up(p)
      BY <3>1 DEF OneStart, Paired, Handshake, Up
    <3> QED
      BY <3>1, <3>2, EmptyIsWhole DEF WireInv
  <2> QED
    BY <2>1, <2>2
<1> QED
  BY <1>2, <1>3 DEF Inv, PairInv
-----------------------------------------------------------------------------
\* Listening and the accept loop do not touch the connections.
LEMMA NodeStep ==
  ASSUME Inv, NEW n \in Nodes, Listen(n) \/ AcceptError(n) \/ AcceptAgain(n)
  PROVE  Inv'
<1>1. UNCHANGED <<todo, peers, sock, outVars, unsent, wire, mixed, reader, received>>
  BY DEF Listen, AcceptError, AcceptAgain, pipeVars
<1>2. TypeOK'
  <2>1. NodeOK /\ OutOK /\ InOK /\ BoundOK
    BY Parts DEF Inv
  <2>2. NodeOK'
    BY <1>1, <2>1 DEF NodeOK, Listen, AcceptError, AcceptAgain
  <2>3. BoundOK'
    <3>1. CASE AcceptError(n)
      BY <2>1, <3>1, MeshAssumption DEF BoundOK, AcceptError
    <3>2. CASE UNCHANGED bounds
      BY <2>1, <3>2, SameBounds
    <3> QED
      BY <3>1, <3>2 DEF Listen, AcceptAgain
  <2>4. OutOK' /\ InOK'
    BY <1>1, <2>1, SameOut, SameIn
  <2> QED
    BY <2>2, <2>3, <2>4, NextParts
<1>3. PairInv'
  BY <1>1, Others DEF Inv, PairInv, Same, outVars
<1> QED
  BY <1>2, <1>3 DEF Inv

LEMMA ConnectStep ==
  ASSUME Inv, NEW n \in Nodes, NEW m \in Nodes, connect(n, m)
  PROVE  Inv'
<1> DEFINE p == <<n, m>>
<1>1. m \in todo[n] /\ todo' = [todo EXCEPT ![n] = @ \ {m}]
  BY DEF connect
<1>2. p \in Pairs /\ p[1] = n /\ p[2] = m
  BY <1>1 DEF Inv, TypeOK, Pairs
<1>3. UNCHANGED <<up, acceptor, timers, outbox, writing, id_write, unsent, wire, mixed, reader,
                 received, bounds>>
  BY DEF connect, pipeVars
<1>4. \/ /\ sock' = [sock EXCEPT ![p] = "backlog"] /\ strand' = [strand EXCEPT ![p] = <<Start>>]
         /\ peers' = [peers EXCEPT ![n] = @ \cup {m}]
      \/ UNCHANGED <<sock, strand, peers>>
  BY DEF connect
<1> HIDE DEF p
<1>5. TypeOK'
  <2>1. NodeOK /\ OutOK /\ InOK /\ BoundOK
    BY Parts DEF Inv
  <2>2. NodeOK'
    <3>1. todo' \in [Nodes -> SUBSET Nodes] /\ \A k \in Nodes : todo'[k] \subseteq PeersOf[k]
      BY <1>1, <2>1 DEF NodeOK
    <3>2. peers' \in [Nodes -> SUBSET Nodes] /\ \A k \in Nodes : peers'[k] \subseteq PeersOf[k]
      BY <1>1, <1>4, <2>1 DEF NodeOK
    <3> QED
      BY <1>3, <2>1, <3>1, <3>2 DEF NodeOK
  <2>3. OutOK'
    <3>1. <<Start>> \in Seq(Frames \cup {Start})
      OBVIOUS
    <3>2. strand' = strand \/ strand' = [strand EXCEPT ![p] = <<Start>>]
      BY <1>4
    <3>3. strand' \in [Pairs -> Seq(Frames \cup {Start})]
      BY <1>2, <2>1, <3>1, <3>2 DEF OutOK
    <3> QED
      BY <1>3, <2>1, <3>3 DEF OutOK
  <2>4. InOK'
    BY <1>2, <1>3, <1>4, <2>1 DEF InOK, Sockets
  <2>5. BoundOK'
    BY <1>3, <2>1, SameBounds
  <2> QED
    BY <2>2, <2>3, <2>4, <2>5, NextParts
<1>6. ASSUME NEW q \in Pairs, q # p PROVE ConnInv(q)' /\ WriteInv(q)' /\ WireInv(q)'
  <2>1. Same(q)
    BY <1>2, <1>3, <1>4, <1>6 DEF Inv, TypeOK, Same
  <2>2. /\ todo'[q[1]] \subseteq todo[q[1]]
        /\ q[2] \in peers'[q[1]] => q[2] \in peers[q[1]]
    BY <1>1, <1>2, <1>4, <1>6 DEF Inv, TypeOK, Pairs, p
  <2> QED
    BY <2>1, <2>2, Others DEF Inv
<1>7. sock[p] = "none" /\ ConnInv(p) /\ WriteInv(p) /\ WireInv(p)
  BY <1>1, <1>2 DEF Inv, PairInv, ConnInv
<1>8. ConnInv(p)' /\ WriteInv(p)' /\ WireInv(p)'
  <2>1. p[2] \notin todo'[p[1]]
    BY <1>1, <1>2 DEF Inv, TypeOK
  <2>2. CASE UNCHANGED <<sock, strand, peers>>
    <3>1. ConnInv(p)' /\ WriteInv(p)'
      BY <1>3, <1>7, <2>1, <2>2 DEF ConnInv, WriteInv, Up
    <3>2. /\ (Handshake(p)' <=> Handshake(p)) /\ OneStart(p)'
          /\ (Paired(p)' <=> Paired(p)) /\ (Up(p)' <=> Up(p))
      BY <1>2, <1>3, <1>7, <2>2, StrandSame, ReceivedSame DEF WireInv, Up
    <3>3. WireInv(p)'
      BY <1>3, <1>7, <3>2 DEF WireInv
    <3> QED
      BY <3>1, <3>3
  <2>3. CASE sock' = [sock EXCEPT ![p] = "backlog"] /\ strand' = [strand EXCEPT ![p] = <<Start>>]
    <3>1. sock'[p] = "backlog" /\ strand'[p] = <<Start>>
      BY <1>2, <2>3 DEF Inv, TypeOK
    <3>2. /\ outbox[p] = <<>> /\ writing[p] = 0 /\ unsent[p] = <<>> /\ wire[p] = <<>>
          /\ reader[p] = Idle /\ Idle.awaits = "nothing"
      BY <1>7 DEF ConnInv, Up, Idle
    <3>3. ConnInv(p)'
      BY <1>3, <2>1, <3>1, <3>2 DEF ConnInv, Up
    <3>4. WriteInv(p)'
      BY <1>3, <3>2 DEF WriteInv
    <3>5. WireInv(p)'
      <4>1. OneStart(p)' /\ Handshake(p)'
        BY <3>1 DEF OneStart, Handshake
      <4>2. (Paired(p)' <=> Paired(p)) /\ (p \in mixed' <=> p \in mixed)
        BY <1>2, <1>3, ReceivedSame
      <4> QED
        BY <1>3, <1>7, <3>2, <4>1, <4>2 DEF WireInv
    <3> QED
      BY <3>3, <3>4, <3>5
  <2> QED
    BY <1>4, <2>2, <2>3
<1>9. PairInv'
  BY <1>6, <1>8 DEF PairInv
<1> QED
  BY <1>5, <1>9 DEF Inv

LEMMA AcceptStep ==
  ASSUME Inv, NEW p \in Pairs, do_accept(p)
  PROVE  Inv'
<1>1. /\ sock[p] = "backlog"
      /\ UNCHANGED <<up, todo, peers, acceptor, timers, strand, outbox, writing, id_write,
                      mixed, received, sends, crashes, errors>>
  BY DEF do_accept, nodeVars, outVars, bounds
<1>2. \/ /\ sock' = [sock EXCEPT ![p] = "broken"] /\ wire' = [wire EXCEPT ![p] = <<>>]
         /\ unsent' = [unsent EXCEPT ![p] = <<>>] /\ reader' = reader
      \/ /\ sock' = [sock EXCEPT ![p] = "open"] /\ reader' = [reader EXCEPT ![p] = ReadId]
         /\ wire' = wire /\ unsent' = unsent
  BY DEF do_accept
<1>3. ReadId \in [awaits : {"nothing", "id", "header", "body"}, header : Pieces] /\ ReadId.awaits = "id"
  BY PieceTypes DEF ReadId
<1>4. TypeOK'
  <2>1. NodeOK /\ OutOK /\ InOK /\ BoundOK
    BY Parts DEF Inv
  <2>2. NodeOK' /\ OutOK' /\ BoundOK'
    BY <1>1, <2>1, SameNode, SameOut, SameBounds DEF nodeVars, outVars, bounds
  <2>3. InOK'
    <3>1. sock' \in [Pairs -> Sockets]
      BY <1>2, <2>1 DEF InOK, Sockets
    <3>2. wire' \in [Pairs -> Seq(Pieces)] /\ unsent' \in [Pairs -> Seq(Pieces)]
      <4>1. /\ wire' = wire \/ wire' = [wire EXCEPT ![p] = <<>>]
            /\ unsent' = unsent \/ unsent' = [unsent EXCEPT ![p] = <<>>]
        BY <1>2
      <4>2. <<>> \in Seq(Pieces)
        OBVIOUS
      <4> QED
        BY <2>1, <4>1, <4>2 DEF InOK
    <3>3. reader' \in [Pairs -> Readers]
      <4>1. reader' = reader \/ reader' = [reader EXCEPT ![p] = ReadId]
        BY <1>2
      <4>2. ReadId \in Readers
        BY <1>3 DEF Readers
      <4> QED
        BY <2>1, <4>1, <4>2 DEF InOK
    <3> QED
      BY <1>1, <2>1, <3>1, <3>2, <3>3 DEF InOK
  <2> QED
    BY <2>2, <2>3, NextParts
<1>5. ConnInv(p) /\ WriteInv(p) /\ WireInv(p) /\ reader[p] = Idle /\ Idle.awaits = "nothing"
  BY <1>1 DEF Inv, PairInv, ConnInv, Idle
<1>6. CASE /\ sock' = [sock EXCEPT ![p] = "broken"] /\ wire' = [wire EXCEPT ![p] = <<>>]
           /\ unsent' = [unsent EXCEPT ![p] = <<>>] /\ reader' = reader
  <2>1. sock'[p] = "broken" /\ wire'[p] = <<>> /\ unsent'[p] = <<>>
    BY <1>6 DEF Inv, TypeOK
  <2>2. ConnInv(p)' /\ WriteInv(p)'
    BY <1>1, <1>5, <1>6, <2>1 DEF ConnInv, WriteInv, Up
  <2>3. WireInv(p)'
    <3>1. (Handshake(p)' <=> Handshake(p)) /\ OneStart(p)' /\ (Paired(p)' <=> Paired(p))
      BY <1>1, <1>5, StrandSame, ReceivedSame DEF WireInv
    <3>2. ~Up(p)' /\ Whole(wire'[p] \o unsent'[p])
      BY <2>1, EmptyIsWhole DEF Up
    <3> QED
      BY <1>1, <1>5, <1>6, <2>1, <3>1, <3>2 DEF WireInv
  <2>4. \A q \in Pairs : q # p => Same(q)
    BY <1>1, <1>6 DEF Inv, TypeOK, Same
  <2> QED
    BY <1>1, <1>4, <2>2, <2>3, <2>4, OnePair DEF Inv
<1>7. CASE /\ sock' = [sock EXCEPT ![p] = "open"] /\ reader' = [reader EXCEPT ![p] = ReadId]
           /\ wire' = wire /\ unsent' = unsent
  <2>1. sock'[p] = "open" /\ reader'[p] = ReadId
    BY <1>7 DEF Inv, TypeOK
  <2>2. ConnInv(p)' /\ WriteInv(p)'
    BY <1>1, <1>3, <1>5, <1>7, <2>1 DEF ConnInv, WriteInv, Up
  <2>3. WireInv(p)'
    <3>1. Awaited(ReadId, wire[p] \o unsent[p]) <=> Awaited(Idle, wire[p] \o unsent[p])
      BY <1>3, <1>5 DEF Awaited
    <3>2. (Handshake(p)' <=> Handshake(p)) /\ OneStart(p)' /\ (Paired(p)' <=> Paired(p))
      BY <1>1, <1>5, StrandSame, ReceivedSame DEF WireInv
    <3>3. Up(p) /\ reader'[p].awaits = "id"
      BY <1>1, <1>3, <2>1 DEF Up
    <3>4. ~Handshake(p) /\ p \notin mixed => Awaited(reader'[p], wire'[p] \o unsent'[p])
      BY <1>5, <1>7, <2>1, <3>1, <3>3 DEF WireInv
    <3> QED
      BY <1>1, <1>5, <1>7, <3>2, <3>3, <3>4 DEF WireInv
  <2>4. \A q \in Pairs : q # p => Same(q)
    BY <1>1, <1>7 DEF Inv, TypeOK, Same
  <2> QED
    BY <1>1, <1>4, <2>2, <2>3, <2>4, OnePair DEF Inv
<1> QED
  BY <1>2, <1>6, <1>7

\* A frame behind the others on the strand.
LEMMA StrandExtended ==
  ASSUME NEW p \in Pairs, NEW f, f # Start, OneStart(p), strand[p] \in Seq(Frames \cup {Start}),
         f \in Frames, strand'[p] = Append(strand[p], f)
  PROVE  (Handshake(p)' <=> Handshake(p)) /\ OneStart(p)'
<1> DEFINE s == strand[p]
           t == strand'[p]
<1>1. /\ Len(s) \in Nat /\ Len(t) = Len(s) + 1 /\ t[Len(s) + 1] = f
      /\ \A i \in 1 .. Len(s) : t[i] = s[i]
  OBVIOUS
<1>0. s \in Seq(Frames \cup {Start}) /\ t \in Seq(Frames \cup {Start})
  OBVIOUS
<1> HIDE DEF s, t
<1>2. (s = <<>> <=> Len(s) = 0) /\ t # <<>>
  <2>1. (s = <<>> <=> Len(s) = 0) /\ (t = <<>> <=> Len(t) = 0)
    BY <1>0, EmptySeq
  <2> QED
    BY <1>1, <2>1
<1>3. ASSUME NEW i \in 2 .. Len(t) PROVE t[i] # Start
  <2>1. CASE i \in 2 .. Len(s)
    <3>1. t[i] = s[i]
      BY <1>1, <2>1
    <3> QED
      BY <2>1, <3>1 DEF OneStart, s
  <2>2. CASE i = Len(s) + 1
    BY <1>1, <2>2
  <2> QED
    BY <1>1, <2>1, <2>2
<1>4. (t # <<>> /\ t[1] = Start) <=> (s # <<>> /\ s[1] = Start)
  <2>1. CASE Len(s) = 0
    BY <1>1, <1>2, <2>1
  <2>2. CASE Len(s) > 0
    BY <1>1, <1>2, <2>2
  <2> QED
    BY <1>1, <2>1, <2>2
<1> QED
  BY <1>3, <1>4 DEF OneStart, Handshake, s, t

\* send() to the strand or to a timer.
LEMMA SendStep ==
  ASSUME Inv, NEW n \in Nodes, NEW m \in Nodes, send(n, m)
  PROVE  Inv'
<1> DEFINE p == <<n, m>>
<1>1. /\ m \in peers[n] /\ sends < MaxSends /\ sends' = sends + 1
      /\ UNCHANGED <<up, todo, peers, acceptor, sock, outbox, writing, id_write, unsent, wire,
                      mixed, reader, received, crashes, errors>>
  BY DEF send, nodeVars, pipeVars
<1>2. NodeOK /\ OutOK /\ InOK /\ BoundOK
  BY Parts DEF Inv
<1>3. p \in Pairs /\ p[1] = n /\ p[2] = m
  BY <1>1, <1>2 DEF NodeOK, Pairs
<1>4. PICK f \in Frames : f = sends' /\ f # Start
  BY <1>1, <1>2, MeshAssumption DEF BoundOK, Frames, Start
<1>5. \/ timers' = [timers EXCEPT ![p] = @ \cup {f}] /\ strand' = strand
      \/ strand' = [strand EXCEPT ![p] = Append(@, f)] /\ timers' = timers
  BY <1>4 DEF send
<1> HIDE DEF p
<1>6. TypeOK'
  <2>0. p \in Pairs
    BY <1>3
  <2>1. timers' \in [Pairs -> SUBSET Frames]
    <3>1. CASE timers' = timers
      BY <1>2, <3>1 DEF OutOK
    <3>2. CASE timers' = [timers EXCEPT ![p] = @ \cup {f}]
      BY <1>2, <2>0, <3>2 DEF OutOK
    <3> QED
      BY <1>5, <3>1, <3>2
  <2>2. strand' \in [Pairs -> Seq(Frames \cup {Start})]
    <3>1. CASE strand' = strand
      BY <1>2, <3>1 DEF OutOK
    <3>2. CASE strand' = [strand EXCEPT ![p] = Append(@, f)]
      BY <1>2, <2>0, <3>2 DEF OutOK
    <3> QED
      BY <1>5, <3>1, <3>2
  <2>3. OutOK'
    BY <1>1, <1>2, <2>1, <2>2 DEF OutOK
  <2>4. NodeOK' /\ InOK'
    BY <1>1, <1>2, SameNode, SameIn DEF nodeVars
  <2>5. BoundOK'
    BY <1>1, <1>2, MeshAssumption DEF BoundOK
  <2> QED
    BY <2>3, <2>4, <2>5, NextParts
<1>7. ConnInv(p) /\ WriteInv(p) /\ WireInv(p) /\ sock[p] # "none"
  <2>1. ConnInv(p) /\ WriteInv(p) /\ WireInv(p)
    BY <1>3 DEF Inv, PairInv
  <2> QED
    BY <1>1, <1>3, <2>1 DEF ConnInv
<1>8. ConnInv(p)' /\ WriteInv(p)'
  BY <1>1, <1>7 DEF ConnInv, WriteInv, Up
<1>9. WireInv(p)'
  <2>0. (Paired(p)' <=> Paired(p)) /\ (Up(p)' <=> Up(p))
    BY <1>1, <1>3, <1>7, ReceivedSame DEF WireInv, Up
  <2>1. CASE strand' = strand
    <3>1. (Handshake(p)' <=> Handshake(p)) /\ OneStart(p)'
      BY <1>3, <1>7, <2>1, StrandSame DEF WireInv
    <3> QED
      BY <1>1, <1>7, <2>0, <3>1 DEF WireInv
  <2>2. CASE strand' = [strand EXCEPT ![p] = Append(@, f)]
    <3>1. strand[p] \in Seq(Frames \cup {Start}) /\ strand'[p] = Append(strand[p], f)
      BY <1>2, <1>3, <2>2 DEF OutOK
    <3>2. (Handshake(p)' <=> Handshake(p)) /\ OneStart(p)'
      BY <1>3, <1>4, <1>7, <3>1, StrandExtended DEF WireInv
    <3> QED
      BY <1>1, <1>7, <2>0, <3>2 DEF WireInv
  <2> QED
    BY <1>5, <2>1, <2>2
<1>10. \A q \in Pairs : q # p => Same(q)
  BY <1>1, <1>2, <1>3, <1>5 DEF OutOK, Same
<1> QED
  BY <1>1, <1>3, <1>6, <1>8, <1>9, <1>10, OnePair DEF Inv

LEMMA TimerStep ==
  ASSUME Inv, NEW p \in Pairs, NEW f \in Frames, TimerFires(p, f)
  PROVE  Inv'
<1>1. /\ f \in timers[p] /\ timers' = [timers EXCEPT ![p] = @ \ {f}]
      /\ strand' = [strand EXCEPT ![p] = Append(@, f)]
      /\ UNCHANGED <<up, todo, peers, acceptor, sock, outbox, writing, id_write, unsent, wire,
                      mixed, reader, received, bounds>>
  BY DEF TimerFires, nodeVars, pipeVars
<1>2. NodeOK /\ OutOK /\ InOK /\ BoundOK
  BY Parts DEF Inv
<1>3. TypeOK'
  <2>1. timers' \in [Pairs -> SUBSET Frames] /\ strand' \in [Pairs -> Seq(Frames \cup {Start})]
    BY <1>1, <1>2 DEF OutOK
  <2>2. OutOK'
    BY <1>1, <1>2, <2>1 DEF OutOK
  <2>3. NodeOK' /\ InOK' /\ BoundOK'
    BY <1>1, <1>2, SameNode, SameIn, SameBounds DEF nodeVars
  <2> QED
    BY <2>2, <2>3, NextParts
<1>4. ConnInv(p) /\ WriteInv(p) /\ WireInv(p) /\ sock[p] # "none" /\ f # Start
  <2>1. ConnInv(p) /\ WriteInv(p) /\ WireInv(p)
    BY DEF Inv, PairInv
  <2>2. sock[p] # "none"
    BY <1>1, <2>1 DEF ConnInv
  <2>3. f # Start
    BY DEF Frames, Start
  <2> QED
    BY <2>1, <2>2, <2>3
<1>5. ConnInv(p)' /\ WriteInv(p)'
  BY <1>1, <1>4 DEF ConnInv, WriteInv, Up
<1>6. WireInv(p)'
  <2>1. strand[p] \in Seq(Frames \cup {Start}) /\ strand'[p] = Append(strand[p], f)
    BY <1>1, <1>2 DEF OutOK
  <2>2. (Handshake(p)' <=> Handshake(p)) /\ OneStart(p)'
    BY <1>4, <2>1, StrandExtended DEF WireInv
  <2>3. (Paired(p)' <=> Paired(p)) /\ (Up(p)' <=> Up(p))
    BY <1>1, <1>4, ReceivedSame DEF WireInv, Up
  <2> QED
    BY <1>1, <1>4, <2>2, <2>3 DEF WireInv
<1>7. \A q \in Pairs : q # p => Same(q)
  BY <1>1, <1>2 DEF OutOK, Same
<1> QED
  BY <1>1, <1>3, <1>5, <1>6, <1>7, OnePair DEF Inv
-----------------------------------------------------------------------------
\* Taking a handler off the strand leaves no start() behind.
LEMMA StrandPopped ==
  ASSUME NEW p \in Pairs, OutOK, WireInv(p), strand[p] # <<>>,
         strand' = [strand EXCEPT ![p] = Tail(@)]
  PROVE  /\ strand' \in [Pairs -> Seq(Frames \cup {Start})]
         /\ strand[p][1] = Head(strand[p]) /\ Head(strand[p]) \in Frames \cup {Start}
         /\ OneStart(p)' /\ ~Handshake(p)'
         /\ \A q \in Pairs : q # p => strand'[q] = strand[q]
<1>1. strand[p] \in Seq(Frames \cup {Start}) /\ strand'[p] = Tail(strand[p])
  BY DEF OutOK
<1>2. ASSUME NEW i \in 1 .. Len(strand'[p]) PROVE strand'[p][i] # Start
  <2> DEFINE old == strand[p]
  <2>1. old \in Seq(Frames \cup {Start}) /\ old # <<>> /\ i \in 1 .. Len(Tail(old))
    BY <1>1
  <2> HIDE DEF old
  <2>2. Tail(old)[i] = old[i + 1] /\ i + 1 \in 2 .. Len(old)
    BY <2>1
  <2> QED
    BY <1>1, <2>2 DEF WireInv, OneStart, old
<1>3. ~Handshake(p)'
  <2>1. Tail(strand[p]) \in Seq(Frames \cup {Start})
    BY <1>1
  <2>2. strand'[p] # <<>> => 1 \in 1 .. Len(strand'[p])
    BY <1>1, <2>1, EmptySeq
  <2> QED
    BY <1>2, <2>2 DEF Handshake
<1>4. strand' \in [Pairs -> Seq(Frames \cup {Start})]
  <2>1. Tail(strand[p]) \in Seq(Frames \cup {Start})
    BY <1>1
  <2> QED
    BY <2>1 DEF OutOK
<1>5. OneStart(p)'
  <2>1. \A i \in 2 .. Len(strand'[p]) : i \in 1 .. Len(strand'[p])
    OBVIOUS
  <2> QED
    BY <1>2, <2>1 DEF OneStart
<1>6. strand[p][1] = Head(strand[p]) /\ Head(strand[p]) \in Frames \cup {Start}
  BY <1>1
<1>7. \A q \in Pairs : q # p => strand'[q] = strand[q]
  BY DEF OutOK
<1> QED
  BY <1>3, <1>4, <1>5, <1>6, <1>7

\* async_write() leaves all connections but one alone.
LEMMA WriteTypes ==
  ASSUME InOK, NEW p \in Pairs, NEW w \in Seq(Pieces), async_write(p, w)
  PROVE  /\ unsent' \in [Pairs -> Seq(Pieces)] /\ wire' = wire /\ mixed' = mixed
         /\ unsent'[p] = IF sock[p] = "broken" THEN unsent[p] ELSE unsent[p] \o w
         /\ \A q \in Pairs : q # p => unsent'[q] = unsent[q]
<1>1. unsent[p] \in Seq(Pieces) /\ unsent[p] \o w \in Seq(Pieces)
  BY ConcatProperties DEF InOK
<1> DEFINE v == unsent[p] \o w
<1>2. unsent' = IF sock[p] = "broken" THEN unsent ELSE [unsent EXCEPT ![p] = v]
  BY DEF async_write
<1>3. v \in Seq(Pieces)
  BY <1>1
<1> HIDE DEF v
<1>4. /\ unsent' \in [Pairs -> Seq(Pieces)]
      /\ unsent'[p] = IF sock[p] = "broken" THEN unsent[p] ELSE v
      /\ \A q \in Pairs : q # p => unsent'[q] = unsent[q]
  BY <1>2, <1>3 DEF InOK
<1> QED
  BY <1>4 DEF async_write, v

\* The handshake is the first thing on the wire.
LEMMA SendIdStep ==
  ASSUME Inv, NEW p \in Pairs, do_send_id(p)
  PROVE  Inv'
<1>1. /\ strand[p] # <<>> /\ Head(strand[p]) = Start /\ strand' = [strand EXCEPT ![p] = Tail(@)]
      /\ id_write' = [id_write EXCEPT ![p] = "pending"]
      /\ UNCHANGED <<up, todo, peers, acceptor, sock, timers, outbox, writing, reader, received, bounds>>
      /\ async_write(p, <<Id>>)
  BY DEF do_send_id, nodeVars
<1>2. NodeOK /\ OutOK /\ InOK /\ BoundOK
  BY Parts DEF Inv
<1>3. ConnInv(p) /\ WriteInv(p) /\ WireInv(p)
  BY DEF Inv, PairInv
<1>4. /\ strand' \in [Pairs -> Seq(Frames \cup {Start})] /\ strand[p][1] = Start
      /\ OneStart(p)' /\ ~Handshake(p)' /\ \A q \in Pairs : q # p => strand'[q] = strand[q]
  BY <1>1, <1>2, <1>3, StrandPopped
<1>5. /\ Handshake(p) /\ sock[p] # "none" /\ wire[p] = <<>> /\ unsent[p] = <<>>
      /\ reader[p].awaits \in {"nothing", "id"}
  BY <1>1, <1>3, <1>4 DEF Handshake, ConnInv, WireInv
<1>6. /\ unsent' \in [Pairs -> Seq(Pieces)] /\ wire' = wire /\ mixed' = mixed
      /\ unsent'[p] = IF sock[p] = "broken" THEN unsent[p] ELSE unsent[p] \o <<Id>>
      /\ \A q \in Pairs : q # p => unsent'[q] = unsent[q]
  <2>1. <<Id>> \in Seq(Pieces)
    BY PieceTypes
  <2> QED
    BY <1>1, <1>2, <2>1, WriteTypes
<1>7. TypeOK'
  <2>1. OutOK'
    BY <1>1, <1>2, <1>4 DEF OutOK
  <2>2. InOK'
    BY <1>1, <1>2, <1>6 DEF InOK
  <2> QED
    BY <1>1, <1>2, <2>1, <2>2, NextParts, SameNode, SameBounds DEF nodeVars
<1>8. wire'[p] \o unsent'[p] = IF sock[p] = "broken" THEN <<>> ELSE <<Id>>
  <2>1. <<>> \o <<>> = <<>> /\ <<>> \o (<<>> \o <<Id>>) = <<Id>>
    OBVIOUS
  <2> QED
    BY <1>5, <1>6, <2>1
<1>9. ConnInv(p)' /\ WriteInv(p)'
  <2>1. ~Up(p) => wire'[p] = <<>> /\ unsent'[p] = <<>>
    BY <1>2, <1>5, <1>6 DEF Up, InOK, Sockets
  <2> QED
    BY <1>1, <1>3, <1>5, <2>1 DEF ConnInv, WriteInv, Up
<1>10. WireInv(p)'
  <2>1. Whole(wire'[p] \o unsent'[p])
    BY <1>8, PieceTypes DEF Whole
  <2>2. Up(p)' => Awaited(reader'[p], wire'[p] \o unsent'[p])
    BY <1>1, <1>5, <1>8 DEF Awaited, Up
  <2>3. Paired(p)' <=> Paired(p)
    BY <1>1, ReceivedSame
  <2> QED
    BY <1>3, <1>4, <1>6, <2>1, <2>2, <2>3 DEF WireInv
<1>11. \A q \in Pairs : q # p => Same(q)
  BY <1>1, <1>2, <1>4, <1>6 DEF InOK, Same
<1> QED
  BY <1>1, <1>7, <1>9, <1>10, <1>11, OnePair DEF Inv

\* The first piece of the oldest write moves to the wire.
LEMMA StreamKept ==
  ASSUME NEW w \in Seq(Pieces), NEW u \in Seq(Pieces), NEW i \in DOMAIN u
  PROVE  LET rest == SubSeq(u, 1, i - 1) \o SubSeq(u, i + 1, Len(u))
             more == Append(w, u[i])
         IN  /\ rest \in Seq(Pieces) /\ more \in Seq(Pieces)
             /\ i = 1 => more \o rest = w \o u
<1> DEFINE rest == SubSeq(u, 1, i - 1) \o SubSeq(u, i + 1, Len(u))
           more == Append(w, u[i])
<1>1. i \in 1 .. Len(u) /\ Len(u) \in Nat
  OBVIOUS
<1>2. SubSeq(u, 1, i - 1) \in Seq(Pieces) /\ SubSeq(u, i + 1, Len(u)) \in Seq(Pieces)
  BY <1>1
<1>3. rest \in Seq(Pieces) /\ more \in Seq(Pieces)
  BY <1>1, <1>2, ConcatProperties
<1>4. ASSUME i = 1 PROVE more \o rest = w \o u
  <2> DEFINE x == u[1]
             t == Tail(u)
  <2>1. u # <<>> /\ x \in Pieces
    BY <1>1
  <2>2. SubSeq(u, 1, i - 1) = <<>>
    BY <1>4, SubSeqEmpty
  <2>3. SubSeq(u, i + 1, Len(u)) = t
    BY <1>4, <2>1, TailIsSubSeq
  <2>4. t \in Seq(Pieces) /\ Len(t) = Len(u) - 1 /\ \A k \in 1 .. Len(t) : t[k] = u[k + 1]
    BY <2>1, HeadTailProperties
  <2> HIDE DEF t
  <2>5. rest = t
    BY <2>2, <2>3, <2>4, ConcatEmptySeq
  <2>6. more = w \o <<x>> /\ <<x>> \in Seq(Pieces)
    BY <1>4, <2>1, AppendIsConcat
  <2>7. <<x>> \o t = u
    <3>1. /\ <<x>> \o t \in Seq(Pieces) /\ Len(<<x>> \o t) = 1 + Len(t)
          /\ \A k \in 1 .. 1 + Len(t) : (<<x>> \o t)[k] = IF k <= 1 THEN x ELSE t[k - 1]
      BY <2>4, <2>6
    <3>2. Len(<<x>> \o t) = Len(u)
      BY <1>1, <2>4, <3>1
    <3>3. ASSUME NEW k \in 1 .. Len(u) PROVE (<<x>> \o t)[k] = u[k]
      <4>1. CASE k = 1
        BY <2>4, <3>1, <4>1
      <4>2. CASE k # 1
        <5>1. k - 1 \in 1 .. Len(t) /\ (k - 1) + 1 = k
          BY <1>1, <2>4, <4>2
        <5> QED
          BY <2>4, <3>1, <4>2, <5>1
      <4> QED
        BY <4>1, <4>2
    <3> QED
      BY <3>1, <3>2, <3>3, SeqEqual
  <2>8. (w \o <<x>>) \o t = w \o (<<x>> \o t)
    BY <2>4, <2>6, ConcatAssociative
  <2> QED
    BY <2>5, <2>6, <2>7, <2>8
<1> QED
  BY <1>3, <1>4

\* The stream stays as it is, or the writes of the connection have mixed.
LEMMA TakeStep ==
  ASSUME Inv, NEW p \in Pairs, Take(p)
  PROVE  Inv'
<1>1. NodeOK /\ OutOK /\ InOK /\ BoundOK
  BY Parts DEF Inv
<1>2. ConnInv(p) /\ WriteInv(p) /\ WireInv(p)
  BY DEF Inv, PairInv
<1>3. unsent[p] \in Seq(Pieces) /\ wire[p] \in Seq(Pieces)
  BY <1>1 DEF InOK
<1>4. PICK i \in DOMAIN unsent[p] :
        /\ wire' = [wire EXCEPT ![p] = Append(wire[p], unsent[p][i])]
        /\ unsent' = [unsent EXCEPT ![p] = SubSeq(unsent[p], 1, i - 1)
                                             \o SubSeq(unsent[p], i + 1, Len(unsent[p]))]
        /\ mixed' = IF i = 1 THEN mixed ELSE mixed \cup {p}
  BY DEF Take
<1>5. UNCHANGED <<up, todo, peers, acceptor, sock, timers, strand, outbox, writing, id_write,
                  reader, received, bounds>>
  BY DEF Take, nodeVars, outVars
<1> DEFINE rest == SubSeq(unsent[p], 1, i - 1) \o SubSeq(unsent[p], i + 1, Len(unsent[p]))
           more == Append(wire[p], unsent[p][i])
<1>6. rest \in Seq(Pieces) /\ more \in Seq(Pieces) /\ (i = 1 => more \o rest = wire[p] \o unsent[p])
  BY <1>3, StreamKept
<1>7. wire' = [wire EXCEPT ![p] = more] /\ unsent' = [unsent EXCEPT ![p] = rest]
  BY <1>4
<1>8. unsent[p] # <<>>
  OBVIOUS
<1> HIDE DEF rest, more
<1>9. /\ wire' \in [Pairs -> Seq(Pieces)] /\ unsent' \in [Pairs -> Seq(Pieces)]
      /\ wire'[p] = more /\ unsent'[p] = rest
      /\ \A q \in Pairs : q # p => wire'[q] = wire[q] /\ unsent'[q] = unsent[q]
  BY <1>1, <1>6, <1>7 DEF InOK
<1>10. /\ mixed' \subseteq Pairs /\ (p \notin mixed' => p \notin mixed /\ i = 1)
       /\ \A q \in Pairs : q # p => (q \in mixed' <=> q \in mixed)
  BY <1>1, <1>4 DEF InOK
<1>11. TypeOK'
  <2>1. InOK'
    BY <1>1, <1>5, <1>9, <1>10 DEF InOK
  <2> QED
    BY <1>1, <1>5, <2>1, NextParts, SameNode, SameOut, SameBounds DEF nodeVars, outVars
<1>12. Up(p) /\ ~Handshake(p)
  BY <1>2, <1>8 DEF ConnInv, WireInv
<1>13. ConnInv(p)' /\ WriteInv(p)'
  BY <1>2, <1>5, <1>12 DEF ConnInv, WriteInv, Up
<1>14. WireInv(p)'
  <2>1. (Handshake(p)' <=> Handshake(p)) /\ OneStart(p)' /\ (Paired(p)' <=> Paired(p))
    BY <1>2, <1>5, StrandSame, ReceivedSame DEF WireInv
  <2>2. Up(p)' <=> Up(p)
    BY <1>5 DEF Up
  <2>3. p \notin mixed' => p \notin mixed /\ wire'[p] \o unsent'[p] = wire[p] \o unsent[p]
    BY <1>6, <1>9, <1>10
  <2> QED
    BY <1>2, <1>5, <1>12, <2>1, <2>2, <2>3 DEF WireInv
<1>15. \A q \in Pairs : q # p => Same(q)
  BY <1>5, <1>9, <1>10 DEF Same
<1> QED
  BY <1>5, <1>11, <1>13, <1>14, <1>15, OnePair DEF Inv

LEMMA SentIdStep ==
  ASSUME Inv, NEW p \in Pairs, SentId(p)
  PROVE  Inv'
<1>1. UNCHANGED <<up, todo, peers, acceptor, sock, timers, strand, outbox, writing, unsent, wire,
                  mixed, reader, received, bounds>>
  BY DEF SentId, nodeVars, pipeVars
<1>2. NodeOK /\ OutOK /\ InOK /\ BoundOK
  BY Parts DEF Inv
<1>3. id_write' \in [Pairs -> {"none", "pending", "done", "failed"}]
  BY <1>2 DEF SentId, OutOK
<1>4. OutOK'
  BY <1>1, <1>2, <1>3 DEF OutOK
<1>5. TypeOK'
  BY <1>1, <1>2, <1>4, NextParts, SameNode, SameIn, SameBounds DEF nodeVars
<1>6. PairInv'
  BY <1>1, Others DEF Inv, PairInv, Same
<1> QED
  BY <1>5, <1>6 DEF Inv

\* do_write() on a connection that has said hello.
LEMMA FrameOnWire ==
  ASSUME NEW p \in Pairs, NEW f \in Frames, InOK, ConnInv(p), WireInv(p), ~Handshake(p),
         sock[p] # "none", do_write(p, f)
  PROVE  /\ unsent' \in [Pairs -> Seq(Pieces)] /\ wire' = wire /\ mixed' = mixed
         /\ ~Up(p) => unsent'[p] = <<>>
         /\ p \notin mixed => /\ Whole(wire[p] \o unsent'[p])
                              /\ Up(p) => Awaited(reader[p], wire[p] \o unsent'[p])
         /\ \A q \in Pairs : q # p => unsent'[q] = unsent[q]
<1> DEFINE frame == <<Header(f), Body(f)>>
           w == wire[p] \o unsent[p]
           v == w \o frame
<1>1. frame \in Seq(Pieces)
  BY PieceTypes
<1>2. /\ unsent' \in [Pairs -> Seq(Pieces)] /\ wire' = wire /\ mixed' = mixed
      /\ unsent'[p] = IF sock[p] = "broken" THEN unsent[p] ELSE unsent[p] \o frame
      /\ \A q \in Pairs : q # p => unsent'[q] = unsent[q]
  BY <1>1, WriteTypes DEF do_write
<1>3. /\ wire[p] \in Seq(Pieces) /\ unsent[p] \in Seq(Pieces) /\ w \in Seq(Pieces)
      /\ sock[p] \in Sockets /\ reader[p] \in Readers
  <2>1. wire[p] \in Seq(Pieces) /\ unsent[p] \in Seq(Pieces)
    BY DEF InOK
  <2> QED
    BY <2>1, ConcatProperties DEF InOK
<1>4. CASE sock[p] = "broken"
  <2>1. ~Up(p) /\ unsent'[p] = unsent[p]
    BY <1>2, <1>4 DEF Up
  <2> QED
    BY <1>2, <2>1 DEF ConnInv, WireInv
<1>5. CASE sock[p] # "broken"
  <2>1. Up(p) /\ wire[p] \o unsent'[p] = v
    <3>1. Up(p) /\ unsent'[p] = unsent[p] \o frame
      BY <1>2, <1>3, <1>5 DEF Up, Sockets
    <3>2. (wire[p] \o unsent[p]) \o frame = wire[p] \o (unsent[p] \o frame)
      <4>1. \A a, b, c \in Seq(Pieces) : (a \o b) \o c = a \o (b \o c)
        BY ConcatAssociative
      <4> HIDE DEF frame
      <4> QED
        BY <1>1, <1>3, <4>1, Zenon
    <3> QED
      BY <3>1, <3>2
  <2>2. ASSUME p \notin mixed PROVE Whole(v) /\ Awaited(reader[p], v)
    <3>1. Whole(w) /\ Awaited(reader[p], w)
      BY <2>1, <2>2 DEF WireInv
    <3> HIDE DEF w
    <3>2. /\ v \in Seq(Pieces) /\ Whole(v) /\ v # <<>>
          /\ w # <<>> => v[1] = w[1]
          /\ w = <<>> => v[1] = Header(f)
      BY <1>3, <3>1, FrameAdded
    <3> HIDE DEF v
    <3>3. Awaited(reader[p], v)
      BY <3>1, <3>2, PieceTypes DEF Awaited
    <3> QED
      BY <3>2, <3>3
  <2> HIDE DEF v
  <2> QED
    BY <1>2, <2>1, <2>2
<1> QED
  BY <1>4, <1>5

\* The strand gives a frame to the outbox and, if that was empty, writes it.
LEMMA EnqueueStep ==
  ASSUME Inv, NEW p \in Pairs, Enqueue(p)
  PROVE  Inv'
<1> DEFINE f == Head(strand[p])
<1>1. /\ strand[p] # <<>> /\ f # Start /\ strand' = [strand EXCEPT ![p] = Tail(@)]
      /\ outbox' = [outbox EXCEPT ![p] = Append(@, f)]
      /\ UNCHANGED <<up, todo, peers, acceptor, sock, timers, id_write, reader, received, bounds>>
  BY DEF Enqueue, nodeVars
<1>2. \/ outbox[p] = <<>> /\ writing' = [writing EXCEPT ![p] = @ + 1] /\ do_write(p, f)
      \/ outbox[p] # <<>> /\ UNCHANGED <<writing, unsent, wire, mixed>>
  BY DEF Enqueue, pipeVars
<1>3. NodeOK /\ OutOK /\ InOK /\ BoundOK
  BY Parts DEF Inv
<1>4. ConnInv(p) /\ WriteInv(p) /\ WireInv(p)
  BY DEF Inv, PairInv
<1>5. /\ strand' \in [Pairs -> Seq(Frames \cup {Start})]
      /\ strand[p][1] = f /\ f \in Frames \cup {Start}
      /\ OneStart(p)' /\ ~Handshake(p)' /\ \A q \in Pairs : q # p => strand'[q] = strand[q]
  BY <1>1, <1>3, <1>4, StrandPopped
<1> HIDE DEF f
<1>6. f \in Frames /\ ~Handshake(p) /\ sock[p] # "none"
  BY <1>1, <1>4, <1>5 DEF Handshake, ConnInv
<1>7. /\ outbox' \in [Pairs -> Seq(Frames)] /\ outbox'[p] = Append(outbox[p], f)
      /\ outbox'[p] # <<>> /\ \A q \in Pairs : q # p => outbox'[q] = outbox[q]
  BY <1>1, <1>3, <1>6 DEF OutOK
<1>8. /\ unsent' \in [Pairs -> Seq(Pieces)] /\ wire' = wire /\ mixed' = mixed
      /\ ~Up(p) => unsent'[p] = <<>>
      /\ p \notin mixed => /\ Whole(wire[p] \o unsent'[p])
                           /\ Up(p) => Awaited(reader[p], wire[p] \o unsent'[p])
      /\ \A q \in Pairs : q # p => unsent'[q] = unsent[q]
  <2>1. CASE do_write(p, f)
    BY <1>3, <1>4, <1>6, <2>1, FrameOnWire
  <2>2. CASE UNCHANGED <<unsent, wire, mixed>>
    BY <1>3, <1>4, <1>6, <2>2 DEF InOK, WireInv, ConnInv
  <2> QED
    BY <1>2, <2>1, <2>2
<1>9. /\ writing' \in [Pairs -> Nat] /\ writing'[p] \in {0, 1}
      /\ sock[p] # "broken" => writing'[p] = 1
      /\ \A q \in Pairs : q # p => writing'[q] = writing[q]
  <2>1. CASE outbox[p] = <<>> /\ writing' = [writing EXCEPT ![p] = @ + 1]
    <3>1. writing[p] = 0
      BY <1>4, <2>1 DEF WriteInv
    <3> QED
      BY <1>3, <2>1, <3>1 DEF OutOK
  <2>2. CASE outbox[p] # <<>> /\ UNCHANGED writing
    BY <1>3, <1>4, <2>2 DEF OutOK, WriteInv
  <2> QED
    BY <1>2, <2>1, <2>2
<1>10. TypeOK'
  <2>1. OutOK'
    BY <1>1, <1>3, <1>5, <1>7, <1>9 DEF OutOK
  <2>2. InOK'
    BY <1>1, <1>3, <1>8 DEF InOK
  <2> QED
    BY <1>1, <1>3, <2>1, <2>2, NextParts, SameNode, SameBounds DEF nodeVars
<1>11. ConnInv(p)' /\ WriteInv(p)'
  BY <1>1, <1>4, <1>6, <1>7, <1>8, <1>9 DEF ConnInv, WriteInv, Up
<1>12. WireInv(p)'
  <2>1. (Paired(p)' <=> Paired(p)) /\ (Up(p)' <=> Up(p))
    BY <1>1, <1>4, ReceivedSame DEF WireInv, Up
  <2> QED
    BY <1>1, <1>4, <1>5, <1>8, <2>1 DEF WireInv
<1>13. \A q \in Pairs : q # p => Same(q)
  BY <1>1, <1>5, <1>7, <1>8, <1>9 DEF Same
<1> QED
  BY <1>1, <1>10, <1>11, <1>12, <1>13, OnePair DEF Inv

LEMMA Second ==
  ASSUME NEW S, NEW s \in Seq(S), s # <<>>
  PROVE  IF Len(s) > 1 THEN Tail(s) # <<>> /\ s[2] \in S ELSE Tail(s) = <<>>
<1>1. Len(s) \in Nat /\ Len(s) > 0 /\ Len(Tail(s)) = Len(s) - 1 /\ Tail(s) \in Seq(S)
  OBVIOUS
<1>2. Len(s) > 1 => s[2] \in S
  BY <1>1
<1>3. Len(Tail(s)) = 0 <=> Tail(s) = <<>>
  BY <1>1, EmptySeq
<1> QED
  BY <1>1, <1>2, <1>3

\* The front of the outbox is written; the next frame follows.
LEMMA WrittenStep ==
  ASSUME Inv, NEW p \in Pairs, Written(p)
  PROVE  Inv'
<1>1. /\ writing[p] > 0 /\ outbox' = [outbox EXCEPT ![p] = Tail(@)]
      /\ UNCHANGED <<up, todo, peers, acceptor, sock, timers, strand, id_write, reader, received,
                      bounds>>
  BY DEF Written, nodeVars
<1>2. \/ Len(outbox[p]) > 1 /\ do_write(p, outbox[p][2]) /\ UNCHANGED writing
      \/ /\ ~(Len(outbox[p]) > 1) /\ writing' = [writing EXCEPT ![p] = @ - 1]
         /\ UNCHANGED <<unsent, wire, mixed>>
  BY DEF Written, pipeVars
<1>3. NodeOK /\ OutOK /\ InOK /\ BoundOK
  BY Parts DEF Inv
<1>4. ConnInv(p) /\ WriteInv(p) /\ WireInv(p)
  BY DEF Inv, PairInv
<1>5. /\ writing[p] = 1 /\ outbox[p] # <<>> /\ outbox[p] \in Seq(Frames)
      /\ ~Handshake(p) /\ sock[p] # "none"
  <2>1. writing[p] = 1 /\ outbox[p] # <<>>
    BY <1>1, <1>4 DEF WriteInv
  <2>2. outbox[p] \in Seq(Frames)
    BY <1>3 DEF OutOK
  <2>3. ~Handshake(p)
    BY <1>4, <2>1 DEF WireInv
  <2>4. sock[p] # "none"
    BY <1>4, <2>1 DEF ConnInv
  <2> QED
    BY <2>1, <2>2, <2>3, <2>4
<1>6. /\ outbox' \in [Pairs -> Seq(Frames)] /\ outbox'[p] = Tail(outbox[p])
      /\ \A q \in Pairs : q # p => outbox'[q] = outbox[q]
  <2>1. Tail(outbox[p]) \in Seq(Frames)
    BY <1>5, HeadTailProperties
  <2> QED
    BY <1>1, <1>3, <2>1 DEF OutOK
<1>7. IF Len(outbox[p]) > 1 THEN outbox'[p] # <<>> /\ outbox[p][2] \in Frames ELSE outbox'[p] = <<>>
  <2>1. outbox[p] \in Seq(Frames) /\ outbox[p] # <<>> /\ outbox'[p] = Tail(outbox[p])
    BY <1>5, <1>6
  <2> QED
    BY <2>1, Second
<1>8. /\ unsent' \in [Pairs -> Seq(Pieces)] /\ wire' = wire /\ mixed' = mixed
      /\ ~Up(p) => unsent'[p] = <<>>
      /\ p \notin mixed => /\ Whole(wire[p] \o unsent'[p])
                           /\ Up(p) => Awaited(reader[p], wire[p] \o unsent'[p])
      /\ \A q \in Pairs : q # p => unsent'[q] = unsent[q]
  <2>1. CASE Len(outbox[p]) > 1 /\ do_write(p, outbox[p][2])
    BY <1>3, <1>4, <1>5, <1>7, <2>1, FrameOnWire
  <2>2. CASE UNCHANGED <<unsent, wire, mixed>>
    BY <1>3, <1>4, <1>5, <2>2 DEF InOK, WireInv, ConnInv
  <2> QED
    BY <1>2, <2>1, <2>2
<1>9. /\ writing' \in [Pairs -> Nat] /\ writing'[p] = IF Len(outbox[p]) > 1 THEN 1 ELSE 0
      /\ \A q \in Pairs : q # p => writing'[q] = writing[q]
  <2>1. CASE Len(outbox[p]) > 1 /\ UNCHANGED writing
    BY <1>3, <1>5, <2>1 DEF OutOK
  <2>2. CASE ~(Len(outbox[p]) > 1) /\ writing' = [writing EXCEPT ![p] = @ - 1]
    BY <1>3, <1>5, <2>2 DEF OutOK
  <2> QED
    BY <1>2, <2>1, <2>2
<1>10. TypeOK'
  <2>1. OutOK'
    BY <1>1, <1>3, <1>6, <1>9 DEF OutOK
  <2>2. InOK'
    BY <1>1, <1>3, <1>8 DEF InOK
  <2> QED
    BY <1>1, <1>3, <2>1, <2>2, NextParts, SameNode, SameBounds DEF nodeVars
<1>11. ConnInv(p)' /\ WriteInv(p)'
  <2>1. writing'[p] \in {0, 1} /\ (writing'[p] = 1 <=> outbox'[p] # <<>>)
    BY <1>7, <1>9
  <2> QED
    BY <1>1, <1>4, <1>5, <1>8, <2>1 DEF ConnInv, WriteInv, Up
<1>12. WireInv(p)'
  <2>1. ~Handshake(p)' /\ OneStart(p)'
    BY <1>1, <1>4, <1>5, StrandSame DEF WireInv
  <2>2. (Paired(p)' <=> Paired(p)) /\ (Up(p)' <=> Up(p))
    BY <1>1, <1>4, ReceivedSame DEF WireInv, Up
  <2> QED
    BY <1>1, <1>4, <1>8, <2>1, <2>2 DEF WireInv
<1>13. \A q \in Pairs : q # p => Same(q)
  BY <1>1, <1>6, <1>8, <1>9 DEF Same
<1> QED
  BY <1>1, <1>10, <1>11, <1>12, <1>13, OnePair DEF Inv

\* A failed write leaves the outbox as it is, on a broken connection.
LEMMA WriteErrorStep ==
  ASSUME Inv, NEW p \in Pairs, WriteError(p)
  PROVE  Inv'
<1>1. /\ writing[p] > 0 /\ sock[p] = "broken" /\ writing' = [writing EXCEPT ![p] = @ - 1]
      /\ UNCHANGED <<up, todo, peers, acceptor, sock, timers, strand, outbox, id_write, unsent, wire,
                      mixed, reader, received, bounds>>
  BY DEF WriteError, nodeVars, pipeVars
<1>2. NodeOK /\ OutOK /\ InOK /\ BoundOK
  BY Parts DEF Inv
<1>3. ConnInv(p) /\ WriteInv(p) /\ WireInv(p)
  BY DEF Inv, PairInv
<1>4. writing[p] = 1
  BY <1>1, <1>3 DEF WriteInv
<1>5. /\ writing' \in [Pairs -> Nat] /\ writing'[p] = 0
      /\ \A q \in Pairs : q # p => writing'[q] = writing[q]
  BY <1>1, <1>2, <1>4 DEF OutOK
<1>6. TypeOK'
  <2>1. OutOK'
    BY <1>1, <1>2, <1>5 DEF OutOK
  <2> QED
    BY <1>1, <1>2, <2>1, NextParts, SameNode, SameIn, SameBounds DEF nodeVars
<1>7. ConnInv(p)' /\ WriteInv(p)'
  BY <1>1, <1>3, <1>5 DEF ConnInv, WriteInv, Up
<1>8. WireInv(p)'
  <2>1. /\ (Handshake(p)' <=> Handshake(p)) /\ OneStart(p)'
        /\ (Paired(p)' <=> Paired(p)) /\ (Up(p)' <=> Up(p))
    BY <1>1, <1>3, StrandSame, ReceivedSame DEF WireInv, Up
  <2> QED
    BY <1>1, <1>3, <2>1 DEF WireInv
<1>9. \A q \in Pairs : q # p => Same(q)
  BY <1>1, <1>5 DEF Same
<1> QED
  BY <1>1, <1>6, <1>7, <1>8, <1>9, OnePair DEF Inv
-----------------------------------------------------------------------------
\* Reading from the wire takes the first piece of the stream.
LEMMA StreamRead ==
  ASSUME NEW w \in Seq(Pieces), NEW u \in Seq(Pieces), w # <<>>
  PROVE  /\ Tail(w) \in Seq(Pieces) /\ w[1] \in Pieces /\ Head(w) = w[1]
         /\ w \o u \in Seq(Pieces) /\ w \o u # <<>> /\ (w \o u)[1] = w[1]
         /\ Tail(w \o u) = Tail(w) \o u
<1> DEFINE s == w \o u
           t == Tail(w)
<1>1. /\ t \in Seq(Pieces) /\ Len(t) = Len(w) - 1 /\ Len(w) \in Nat /\ Len(w) > 0
      /\ Len(u) \in Nat /\ w[1] \in Pieces /\ Head(w) = w[1]
      /\ \A k \in 1 .. Len(t) : t[k] = w[k + 1]
  OBVIOUS
<1>2. /\ s \in Seq(Pieces) /\ Len(s) = Len(w) + Len(u)
      /\ \A k \in 1 .. Len(w) + Len(u) : s[k] = IF k <= Len(w) THEN w[k] ELSE u[k - Len(w)]
  BY ConcatProperties
<1> HIDE DEF s, t
<1>3. s # <<>> /\ s[1] = w[1]
  BY <1>1, <1>2, EmptySeq
<1>4. /\ Tail(s) \in Seq(Pieces) /\ Len(Tail(s)) = Len(s) - 1
      /\ \A k \in 1 .. Len(Tail(s)) : Tail(s)[k] = s[k + 1]
  BY <1>2, <1>3, HeadTailProperties
<1>5. /\ t \o u \in Seq(Pieces) /\ Len(t \o u) = Len(t) + Len(u)
      /\ \A k \in 1 .. Len(t) + Len(u) : (t \o u)[k] = IF k <= Len(t) THEN t[k] ELSE u[k - Len(t)]
  BY <1>1, ConcatProperties
<1>6. ASSUME NEW k \in 1 .. Len(Tail(s)) PROVE Tail(s)[k] = (t \o u)[k]
  <2>1. Tail(s)[k] = s[k + 1] /\ k + 1 \in 1 .. Len(w) + Len(u) /\ k \in 1 .. Len(t) + Len(u)
    BY <1>1, <1>2, <1>4
  <2>2. CASE k <= Len(t)
    BY <1>1, <1>2, <1>5, <2>1, <2>2
  <2>3. CASE ~(k <= Len(t))
    <3>1. ~(k + 1 <= Len(w)) /\ (k + 1) - Len(w) = k - Len(t)
      BY <1>1, <2>3
    <3> QED
      BY <1>2, <1>5, <2>1, <2>3, <3>1
  <2> QED
    BY <2>2, <2>3
<1>7. Len(Tail(s)) = Len(t \o u)
  BY <1>1, <1>2, <1>4, <1>5
<1>8. Tail(s) = t \o u
  BY <1>4, <1>5, <1>6, <1>7, SeqEqual
<1> QED
  BY <1>1, <1>2, <1>3, <1>8 DEF s, t

\* The reader takes a piece and goes on to what has to follow it.
LEMMA ReadStep ==
  ASSUME Inv, NEW p \in Pairs, Read(p)
  PROVE  Inv'
<1> DEFINE piece == wire[p][1]
           r == reader[p]
           ahead == wire[p] \o unsent[p]
<1>1. /\ sock[p] = "open" /\ wire[p] # <<>> /\ wire' = [wire EXCEPT ![p] = Tail(@)]
      /\ r.awaits \in {"id", "header", "body"}
      /\ UNCHANGED <<up, todo, peers, acceptor, sock, timers, strand, outbox, writing, id_write,
                     unsent, mixed, bounds>>
  BY DEF Read, do_read_id, do_read_header, do_read_body, Reads, nodeVars, outVars
<1>2. \/ /\ r.awaits = "id" /\ reader' = [reader EXCEPT ![p] = ReadHeader] /\ received' = received
      \/ /\ r.awaits = "header" /\ reader' = [reader EXCEPT ![p] = ReadBody(Head(wire[p]))]
         /\ received' = received
      \/ /\ r.awaits = "body" /\ reader' = [reader EXCEPT ![p] = ReadHeader]
         /\ received' = [received EXCEPT ![p] = Append(@, <<r.header, Head(wire[p])>>)]
  BY DEF Read, do_read_id, do_read_header, do_read_body, Reads
<1>3. NodeOK /\ OutOK /\ InOK /\ BoundOK
  BY Parts DEF Inv
<1>4. ConnInv(p) /\ WriteInv(p) /\ WireInv(p)
  BY DEF Inv, PairInv
<1>5. /\ Tail(wire[p]) \in Seq(Pieces) /\ piece \in Pieces /\ Head(wire[p]) = piece
      /\ ahead \in Seq(Pieces) /\ ahead # <<>> /\ ahead[1] = piece
      /\ Tail(ahead) = Tail(wire[p]) \o unsent[p]
  <2>1. wire[p] \in Seq(Pieces) /\ unsent[p] \in Seq(Pieces)
    BY <1>3 DEF InOK
  <2> QED
    BY <1>1, <2>1, StreamRead
<1>6. /\ wire' \in [Pairs -> Seq(Pieces)] /\ wire'[p] = Tail(wire[p])
      /\ wire'[p] \o unsent'[p] = Tail(ahead)
      /\ \A q \in Pairs : q # p => wire'[q] = wire[q]
  BY <1>1, <1>3, <1>5 DEF InOK
<1>7. ~Handshake(p) /\ (p \notin mixed => Awaited(r, ahead) /\ Whole(ahead) /\ Paired(p))
  BY <1>1, <1>4 DEF WireInv, Up
<1> HIDE DEF ahead
<1>7a. ASSUME p \notin mixed
       PROVE  /\ Whole(Tail(ahead))
              /\ IF piece.kind = "header"
                 THEN Tail(ahead) # <<>> /\ Tail(ahead)[1] = Body(piece.frame)
                 ELSE Tail(ahead) # <<>> => Tail(ahead)[1].kind = "header"
  BY <1>5, <1>7, <1>7a, PieceTaken
<1>8. r \in Readers /\ ReadHeader \in Readers /\ ReadBody(piece) \in Readers
  BY <1>3, <1>5, PieceTypes DEF InOK, Readers, ReadHeader, ReadBody
<1>9. ReadHeader.awaits = "header" /\ ReadBody(piece).awaits = "body" /\ ReadBody(piece).header = piece
  BY DEF ReadHeader, ReadBody
<1>10. /\ reader' \in [Pairs -> Readers]
       /\ reader'[p] = IF r.awaits = "header" THEN ReadBody(piece) ELSE ReadHeader
       /\ \A q \in Pairs : q # p => reader'[q] = reader[q]
  <2>1. reader' = [reader EXCEPT ![p] = IF r.awaits = "header" THEN ReadBody(piece) ELSE ReadHeader]
    BY <1>2, <1>5
  <2> HIDE DEF r, piece
  <2> QED
    BY <1>3, <1>8, <2>1 DEF InOK
<1>11. ASSUME p \notin mixed PROVE Awaited(reader'[p], Tail(ahead))
  <2>1. CASE r.awaits \in {"id", "body"}
    <3>1. piece.kind # "header"
      BY <1>5, <1>7, <1>11, <2>1, PieceTypes DEF Awaited
    <3>2. reader'[p] = ReadHeader
      BY <1>10, <2>1
    <3> QED
      BY <1>7a, <1>9, <1>11, <3>1, <3>2 DEF Awaited
  <2>2. CASE r.awaits = "header"
    <3>1. piece.kind = "header"
      BY <1>5, <1>7, <1>11, <2>2 DEF Awaited
    <3>2. piece \in {Header(f) : f \in Frames}
      BY <1>5, <3>1, PieceTypes DEF Pieces, Header
    <3>3. reader'[p] = ReadBody(piece)
      BY <1>10, <2>2
    <3> QED
      BY <1>7a, <1>9, <1>11, <3>1, <3>2, <3>3 DEF Awaited
  <2> QED
    BY <1>1, <2>1, <2>2
<1>12. /\ received' \in [Pairs -> Seq(Pieces \X Pieces)]
       /\ p \notin mixed => Paired(p)'
       /\ \A q \in Pairs : q # p => received'[q] = received[q]
  <2>1. CASE received' = received
    <3>1. Paired(p)' <=> Paired(p)
      BY <2>1, ReceivedSame
    <3> QED
      BY <1>3, <1>7, <2>1, <3>1 DEF InOK
  <2>2. CASE /\ r.awaits = "body"
             /\ received' = [received EXCEPT ![p] = Append(@, <<r.header, Head(wire[p])>>)]
    <3> DEFINE old == received[p]
               new == <<r.header, piece>>
    <3>1. new \in Pieces \X Pieces /\ old \in Seq(Pieces \X Pieces)
      BY <1>3, <1>5, <1>8 DEF InOK, Readers
    <3>2. ASSUME p \notin mixed
          PROVE  /\ new[1] = Header(new[2].frame)
                 /\ \A i \in 1 .. Len(old) : old[i][1] = Header(old[i][2].frame)
      <4>1. PICK f \in Frames : r.header = Header(f) /\ piece = Body(f)
        BY <1>5, <1>7, <2>2, <3>2, PieceTypes DEF Awaited
      <4>2. new[1] = Header(new[2].frame)
        BY <4>1, PieceTypes
      <4>3. \A i \in 1 .. Len(old) : old[i][1] = Header(old[i][2].frame)
        BY <1>7, <3>2 DEF Paired
      <4> QED
        BY <4>2, <4>3
    <3>3. received'[p] = Append(old, new) /\ received' = [received EXCEPT ![p] = Append(old, new)]
      BY <1>3, <1>5, <2>2 DEF InOK
    <3> HIDE DEF old, new
    <3> DEFINE all == Append(old, new)
    <3>4. /\ Len(old) \in Nat /\ Len(all) = Len(old) + 1 /\ all[Len(old) + 1] = new
          /\ \A i \in 1 .. Len(old) : all[i] = old[i]
          /\ all \in Seq(Pieces \X Pieces)
      BY <3>1
    <3>5. received'[p] = all /\ received' = [received EXCEPT ![p] = all]
      BY <3>3
    <3> HIDE DEF all
    <3>6. ASSUME p \notin mixed PROVE Paired(p)'
      <4>1. ASSUME NEW i \in 1 .. Len(all) PROVE all[i][1] = Header(all[i][2].frame)
        <5>1. CASE i = Len(old) + 1
          BY <3>2, <3>4, <3>6, <5>1
        <5>2. CASE i \in 1 .. Len(old)
          BY <3>2, <3>4, <3>6, <5>2
        <5> QED
          BY <3>4, <5>1, <5>2
      <4> QED
        BY <3>5, <4>1 DEF Paired
    <3> QED
      BY <1>3, <3>4, <3>5, <3>6 DEF InOK
  <2> QED
    BY <1>2, <2>1, <2>2
<1> HIDE DEF piece, r
<1>13. TypeOK'
  <2>1. InOK'
    BY <1>1, <1>3, <1>6, <1>10, <1>12 DEF InOK
  <2> QED
    BY <1>1, <1>3, <2>1, NextParts, SameNode, SameOut, SameBounds DEF nodeVars, outVars
<1>14. ConnInv(p)' /\ WriteInv(p)'
  <2>1. reader'[p].awaits # "nothing"
    BY <1>9, <1>10
  <2> QED
    BY <1>1, <1>4, <2>1 DEF ConnInv, WriteInv, Up
<1>15. WireInv(p)'
  <2>1. ~Handshake(p)' /\ OneStart(p)'
    BY <1>1, <1>4, <1>7, StrandSame DEF WireInv
  <2>2. p \notin mixed' => /\ Whole(wire'[p] \o unsent'[p]) /\ Paired(p)'
                           /\ Awaited(reader'[p], wire'[p] \o unsent'[p])
    BY <1>1, <1>6, <1>7a, <1>11, <1>12
  <2> QED
    BY <2>1, <2>2 DEF WireInv
<1>16. \A q \in Pairs : q # p => Same(q)
  BY <1>1, <1>6, <1>10, <1>12 DEF Same
<1> QED
  BY <1>1, <1>13, <1>14, <1>15, <1>16, OnePair DEF Inv

\* A crash breaks the connections of the node and forgets its own.
LEMMA CrashStep ==
  ASSUME Inv, NEW n \in Nodes, Crash(n)
  PROVE  Inv'
<1> DEFINE Own(f, fresh) == [p \in Pairs |-> IF p[1] = n THEN fresh ELSE f[p]]
           Both(f, fresh) == [p \in Pairs |-> IF n \in {p[1], p[2]} THEN fresh ELSE f[p]]
<1>1. /\ up' = up \ {n} /\ todo' = [todo EXCEPT ![n] = PeersOf[n]]
      /\ peers' = [peers EXCEPT ![n] = {}] /\ acceptor' = [acceptor EXCEPT ![n] = "armed"]
  BY DEF Crash, Dials
<1>2. /\ timers' = Own(timers, {}) /\ strand' = Own(strand, <<>>) /\ outbox' = Own(outbox, <<>>)
      /\ writing' = Own(writing, 0) /\ id_write' = Own(id_write, "none")
  BY DEF Crash
<1>3. /\ unsent' = Both(unsent, <<>>) /\ wire' = Both(wire, <<>>) /\ reader' = Both(reader, Idle)
      /\ received' = received /\ mixed' = mixed
      /\ sock' = [p \in Pairs |-> IF p[1] = n THEN "none"
                                  ELSE IF p[2] = n /\ sock[p] # "none" THEN "broken"
                                  ELSE sock[p]]
  BY DEF Crash
<1>4. NodeOK /\ OutOK /\ InOK /\ BoundOK
  BY Parts DEF Inv
<1>5. Idle \in Readers /\ Idle.awaits = "nothing"
  BY PieceTypes DEF Idle, Readers
<1>6. NodeOK'
  BY <1>1, <1>4, MeshAssumption DEF NodeOK
<1>7. OutOK'
  <2>1. timers' \in [Pairs -> SUBSET Frames] /\ writing' \in [Pairs -> Nat]
    BY <1>2, <1>4 DEF OutOK
  <2>2. strand' \in [Pairs -> Seq(Frames \cup {Start})] /\ outbox' \in [Pairs -> Seq(Frames)]
    BY <1>2, <1>4 DEF OutOK
  <2>3. id_write' \in [Pairs -> {"none", "pending", "done", "failed"}]
    BY <1>2, <1>4 DEF OutOK
  <2> QED
    BY <2>1, <2>2, <2>3 DEF OutOK
<1>8. InOK'
  <2>1. sock' \in [Pairs -> Sockets]
    BY <1>3, <1>4 DEF InOK, Sockets
  <2>2. wire' \in [Pairs -> Seq(Pieces)] /\ unsent' \in [Pairs -> Seq(Pieces)]
    BY <1>3, <1>4 DEF InOK
  <2>3. reader' \in [Pairs -> Readers]
    BY <1>3, <1>4, <1>5 DEF InOK
  <2> QED
    BY <1>3, <1>4, <2>1, <2>2, <2>3 DEF InOK
<1>9. BoundOK'
  <2>1. crashes < MaxCrashes /\ crashes' = crashes + 1 /\ sends' = sends /\ errors' = errors
    BY DEF Crash
  <2> QED
    BY <1>4, <2>1, MeshAssumption DEF BoundOK
<1>10. ASSUME NEW p \in Pairs PROVE ConnInv(p)' /\ WriteInv(p)' /\ WireInv(p)'
  <2>1. p[1] \in Nodes /\ p[2] \in Nodes
    BY DEF Pairs
  <2>2. ConnInv(p) /\ WriteInv(p) /\ WireInv(p)
    BY DEF Inv, PairInv
  <2>3. (Paired(p)' <=> Paired(p)) /\ (p \in mixed' <=> p \in mixed)
    BY <1>3, ReceivedSame
  <2>4. CASE p[1] = n
    <3>1. /\ sock'[p] = "none" /\ timers'[p] = {} /\ strand'[p] = <<>> /\ outbox'[p] = <<>>
          /\ writing'[p] = 0 /\ unsent'[p] = <<>> /\ wire'[p] = <<>> /\ reader'[p] = Idle
          /\ peers'[p[1]] = {}
      <4>1. /\ timers'[p] = {} /\ strand'[p] = <<>> /\ outbox'[p] = <<>> /\ writing'[p] = 0
        BY <1>2, <2>4
      <4>2. sock'[p] = "none" /\ unsent'[p] = <<>> /\ wire'[p] = <<>> /\ reader'[p] = Idle
        BY <1>3, <2>4
      <4>3. peers'[p[1]] = {}
        <5>1. peers' = [peers EXCEPT ![n] = {}] /\ n \in DOMAIN peers
          BY <1>1, <1>4 DEF NodeOK
        <5> QED
          BY <2>4, <5>1
      <4> QED
        BY <4>1, <4>2, <4>3
    <3>2. ConnInv(p)' /\ WriteInv(p)'
      BY <3>1 DEF ConnInv, WriteInv, Up
    <3>3. WireInv(p)'
      <4>1. OneStart(p)' /\ ~Handshake(p)' /\ ~Up(p)'
        BY <3>1 DEF OneStart, Handshake, Up
      <4> QED
        BY <2>2, <2>3, <3>1, <4>1, EmptyIsWhole DEF WireInv
    <3> QED
      BY <3>2, <3>3
  <2>5. CASE p[1] # n /\ p[2] = n
    <3>1. /\ sock'[p] = (IF sock[p] # "none" THEN "broken" ELSE "none")
          /\ unsent'[p] = <<>> /\ wire'[p] = <<>> /\ reader'[p] = Idle
          /\ timers'[p] = timers[p] /\ strand'[p] = strand[p] /\ outbox'[p] = outbox[p]
          /\ writing'[p] = writing[p] /\ peers'[p[1]] = peers[p[1]] /\ todo'[p[1]] = todo[p[1]]
      BY <1>1, <1>2, <1>3, <1>4, <2>1, <2>5 DEF NodeOK
    <3>2. ConnInv(p)' /\ WriteInv(p)'
      BY <2>2, <3>1 DEF ConnInv, WriteInv, Up
    <3>3. WireInv(p)'
      <4>1. OneStart(p)' /\ (Handshake(p)' <=> Handshake(p))
        BY <2>2, <3>1, StrandSame DEF WireInv
      <4>2. ~Up(p)'
        BY <3>1 DEF Up
      <4> QED
        BY <1>5, <2>2, <2>3, <3>1, <4>1, <4>2, EmptyIsWhole DEF WireInv
    <3> QED
      BY <3>2, <3>3
  <2>6. CASE p[1] # n /\ p[2] # n
    <3>1. Same(p)
      BY <1>2, <1>3, <2>6 DEF Same
    <3>2. peers'[p[1]] = peers[p[1]] /\ todo'[p[1]] = todo[p[1]]
      BY <1>1, <1>4, <2>1, <2>6 DEF NodeOK
    <3> QED
      BY <3>1, <3>2, Others DEF Inv
  <2> QED
    BY <2>4, <2>5, <2>6
<1> QED
  BY <1>6, <1>7, <1>8, <1>9, <1>10, NextParts DEF Inv, PairInv
-----------------------------------------------------------------------------
LEMMA NextInv == Inv /\ [Next]_vars => Inv'
<1> SUFFICES ASSUME Inv, [Next]_vars PROVE Inv'
  OBVIOUS
<1>1. ASSUME NEW n \in Nodes, Listen(n) \/ AcceptError(n) \/ AcceptAgain(n) \/ Crash(n) PROVE Inv'
  BY <1>1, NodeStep, CrashStep
<1>2. ASSUME NEW n \in Nodes, NEW m \in Nodes, connect(n, m) \/ send(n, m) PROVE Inv'
  BY <1>2, ConnectStep, SendStep
<1>3. ASSUME NEW p \in Pairs,
             \/ do_accept(p) \/ StrandStep(p) \/ Take(p) \/ SentId(p) \/ Written(p)
             \/ WriteError(p) \/ Read(p)
      PROVE  Inv'
  BY <1>3, AcceptStep, TakeStep, SendIdStep, EnqueueStep, SentIdStep, WrittenStep, WriteErrorStep, ReadStep
     DEF StrandStep
<1>4. ASSUME NEW p \in Pairs, NEW f \in Frames, TimerFires(p, f) PROVE Inv'
  BY <1>4, TimerStep
<1>5. CASE UNCHANGED vars
  <2>1. UNCHANGED <<nodeVars, sock, outVars, unsent, wire, mixed, reader, received, bounds>>
    BY <1>5 DEF vars, pipeVars
  <2>2. TypeOK'
    BY <2>1, Parts, NextParts, SameNode, SameOut, SameIn, SameBounds DEF Inv
  <2>3. PairInv'
    BY <2>1, Others DEF Inv, PairInv, Same, nodeVars, outVars
  <2> QED
    BY <2>2, <2>3 DEF Inv
<1> QED
  BY <1>1, <1>2, <1>3, <1>4, <1>5 DEF Next

LEMMA Invariance == Spec => []Inv
  BY InitInv, NextInv, PTL DEF Spec

\* Nodes and connections keep to the shape their classes give them.
THEOREM TypeCorrect == Spec => []TypeOK
<1>1. Inv => TypeOK
  BY DEF Inv
<1> QED
  BY <1>1, Invariance, PTL

\* The strand and the outbox keep one async_write in progress at most, and
\* exactly one while frames wait on a connection that has not broken.
THEOREM WritesAreSerial == Spec => []OneWrite
<1>1. Inv => OneWrite
  BY DEF Inv, PairInv, WriteInv, OneWrite
<1> QED
  BY <1>1, Invariance, PTL

\* The reader finds the handshake first and then whole frames, each header
\* before its own body, on every connection whose handshake the socket has
\* taken before any of the first frame; connections of which that is not so
\* do not disturb the others.
THEOREM FramesAreWhole == Spec => []Framed
<1>1. Inv => Framed
  <2> SUFFICES ASSUME Inv, NEW p \in Pairs \ mixed
               PROVE  /\ reader[p].awaits # "nothing" /\ wire[p] # <<>> =>
                           CASE reader[p].awaits = "body" -> Head(wire[p]) = Body(reader[p].header.frame)
                             [] OTHER -> Head(wire[p]).kind = reader[p].awaits
                      /\ \A i \in DOMAIN received[p] :
                           received[p][i][1] = Header(received[p][i][2].frame)
    BY DEF Framed
  <2>1. ConnInv(p) /\ WireInv(p) /\ NodeOK /\ OutOK /\ InOK /\ BoundOK
    BY Parts DEF Inv, PairInv
  <2>2. /\ received[p] \in Seq(Pieces \X Pieces) /\ reader[p] \in Readers
        /\ wire[p] \in Seq(Pieces) /\ unsent[p] \in Seq(Pieces)
    BY <2>1 DEF InOK
  <2>3. \A i \in DOMAIN received[p] : received[p][i][1] = Header(received[p][i][2].frame)
    <3> DEFINE got == received[p]
    <3>0. got \in Seq(Pieces \X Pieces)
      BY <2>2
    <3> HIDE DEF got
    <3>1. DOMAIN got = 1 .. Len(got)
      BY <3>0, LenProperties
    <3> USE DEF got
    <3> QED
      BY <2>1, <3>1 DEF WireInv, Paired
  <2>4. ASSUME reader[p].awaits # "nothing", wire[p] # <<>>
        PROVE  CASE reader[p].awaits = "body" -> Head(wire[p]) = Body(reader[p].header.frame)
                 [] OTHER -> Head(wire[p]).kind = reader[p].awaits
    <3> DEFINE ahead == wire[p] \o unsent[p]
    <3>1. Up(p) /\ ~Handshake(p)
      BY <2>1, <2>4 DEF ConnInv, WireInv
    <3>2. Awaited(reader[p], ahead)
      BY <2>1, <3>1 DEF WireInv
    <3>3. Head(wire[p]) = ahead[1] /\ ahead # <<>>
      BY <2>2, <2>4, StreamRead
    <3>4. reader[p].awaits \in {"id", "header", "body"}
      BY <2>2, <2>4 DEF Readers
    <3> HIDE DEF ahead
    <3> QED
      BY <2>4, <3>2, <3>3, <3>4, PieceTypes DEF Awaited
  <2> QED
    BY <2>3, <2>4
<1> QED
  BY <1>1, Invariance, PTL
=============================================================================
