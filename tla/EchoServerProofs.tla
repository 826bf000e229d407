--------------------------- MODULE EchoServerProofs ---------------------------
(***************************************************************************)
(* Proofs about EchoServer, for any finite set of clients, interactive or  *)
(* not, any number of requests, any backlog and any room in the process    *)
(* table.                                                                  *)
(***************************************************************************)
EXTENDS EchoServer, SequenceTheorems, FiniteSetTheorems, TLAPS

Message == Clients \X Nat

\* What TypeOK leaves open: the queue and the four places of messages.
Shapes ==
  /\ queue \in Seq(Clients)
  /\ up \in [Clients -> Seq(Message)] /\ hbuf \in [Clients -> Seq(Message)]
  /\ down \in [Clients -> Seq(Message)] /\ shown \in [Clients -> Seq(Message)]
  /\ reset \in [Clients -> BOOLEAN] /\ announced \in BOOLEAN

\* A connection waits in the queue once; a new connection has no handler yet.
Backlog ==
  /\ \A i \in 1 .. Len(queue), j \in 1 .. Len(queue) : queue[i] = queue[j] => i = j
  /\ conn = None <=> spc \in {"start", "accept", "dead"}
  /\ spc = "fork" => hpc[conn] = "none"

\* The part of EndsHeld about client c.
Ends(c) ==
  /\ S \in holders[c] <=> conn = c
  /\ H \in holders[c] <=> hpc[c] \in {"read", "write", "close"}
  /\ Queued(c) => holders[c] = {} /\ hpc[c] = "none"

OnWay(c) == Len(up[c]) + Len(hbuf[c]) + Len(down[c])

\* A client that is not, or never was, connected has left no trace.
NoTrace(c) ==
  cpc[c] \in {"start", "failed"} =>
    /\ ~Queued(c) /\ holders[c] = {} /\ hpc[c] = "none" /\ ~reset[c]
    /\ asked[c] = 0 /\ OnWay(c) = 0 /\ Len(shown[c]) = 0

\* At most one message of a client is on its way, the last one; while the client
\* waits for it there is exactly one.
Wire(c) ==
  /\ OnWay(c) <= 1
  /\ \A i \in 1 .. Len(up[c]) : up[c][i] = <<c, asked[c]>>
  /\ \A i \in 1 .. Len(hbuf[c]) : hbuf[c][i] = <<c, asked[c]>>
  /\ \A i \in 1 .. Len(down[c]) : down[c][i] = <<c, asked[c]>>
  /\ hpc[c] = "write" <=> hbuf[c] # <<>>
  /\ cpc[c] = "read" => OnWay(c) = 1 /\ Len(shown[c]) + 1 = asked[c]
  /\ cpc[c] = "write" /\ ~reset[c] => OnWay(c) = 0 /\ Len(shown[c]) = asked[c]

\* How far a client's screen, its handler and its own count are apart.
Counts(c) ==
  /\ Len(shown[c]) <= asked[c]
  /\ \A i \in 1 .. Len(shown[c]) : shown[c][i] = <<c, i>>
  /\ echoed[c] + Len(up[c]) + Len(hbuf[c]) <= asked[c]
  /\ hpc[c] = "none" => echoed[c] = 0
  /\ \/ Len(shown[c]) + Len(down[c]) <= echoed[c]
     \/ c \in Interactive /\ reset[c] /\ Len(shown[c]) = asked[c] /\ Len(down[c]) = 0

\* How a connection ends: only one that never had a handler is reset, a handler
\* leaves nothing unread, and a client that waits learns of the end by a reset.
Gone(c) ==
  /\ reset[c] \/ cpc[c] = "dead" => hpc[c] = "none" /\ PeerClosed(c)
  /\ hpc[c] \in {"close", "zombie"} => up[c] = <<>> /\ ~ClientOpen(c)
  /\ cpc[c] = "read" /\ PeerClosed(c) => reset[c]
  /\ c \notin Interactive /\ cpc[c] = "done" => Len(shown[c]) = REQUESTS \/ reset[c]

Finished ==
  announced => \A c \in Clients \ Interactive : cpc[c] \in {"done", "failed", "dead"}

ClientInv(c) == Ends(c) /\ NoTrace(c) /\ Wire(c) /\ Counts(c) /\ Gone(c)

IInv == TypeOK /\ Shapes /\ Backlog /\ Finished /\ \A c \in Clients : ClientInv(c)

-----------------------------------------------------------------------------

\* What c's part of the invariant looks at.
Same(c) ==
  /\ Queued(c)' = Queued(c) /\ (conn' = c) = (conn = c)
  /\ holders'[c] = holders[c] /\ reset'[c] = reset[c]
  /\ hpc'[c] = hpc[c] /\ hbuf'[c] = hbuf[c] /\ echoed'[c] = echoed[c]
  /\ cpc'[c] = cpc[c] /\ asked'[c] = asked[c] /\ shown'[c] = shown[c]
  /\ up'[c] = up[c] /\ down'[c] = down[c]

\* A step that leaves all that alone keeps c's part.
LEMMA Frame ==
  ASSUME NEW c \in Clients, ClientInv(c), Same(c)
  PROVE  ClientInv(c)'
<1> USE DEF ClientInv, Same
<1>1. Ends(c)' /\ NoTrace(c)'
  BY DEF Ends, NoTrace, OnWay
<1>2. Wire(c)'
  BY DEF Wire, OnWay
<1>3. Counts(c)'
  BY DEF Counts
<1>4. Gone(c)'
  BY DEF Gone, PeerClosed, ClientOpen
<1> QED
  BY <1>1, <1>2, <1>3, <1>4

\* The invariant gives the two parts of Accounted, and conversely.
LEMMA Conjuncts ==
  ASSUME IInv
  PROVE  Accounted /\ ShownTruly
<1>0. /\ TypeOK /\ Shapes /\ Backlog /\ Finished
      /\ \A c \in Clients : Ends(c) /\ NoTrace(c) /\ Wire(c) /\ Counts(c) /\ Gone(c)
  BY DEF IInv, ClientInv
<1>1. EndsHeld
  BY <1>0 DEF EndsHeld, Ends, Backlog
<1>2. InFlight
  <2> SUFFICES ASSUME NEW c \in Clients, cpc[c] \in {"write", "read"}, ~reset[c]
               PROVE  /\ OnWay(c) + Len(shown[c]) = asked[c]
                      /\ OnWay(c) = IF cpc[c] = "read" THEN 1 ELSE 0
    BY <1>0 DEF InFlight, OnWay, Shapes
  <2>1. asked[c] \in Nat /\ Len(shown[c]) \in Nat /\ OnWay(c) \in Nat
    BY <1>0, EchoAssumption DEF TypeOK, Shapes, OnWay
  <2>2. Wire(c)
    BY <1>0
  <2> QED
    BY <2>1, <2>2 DEF Wire
<1>3. EchoInOrder
  <2> SUFFICES ASSUME NEW c \in Clients, NEW i \in 1 .. Len(shown[c])
               PROVE  shown[c][i] = <<c, i>> /\ i <= asked[c]
    BY DEF EchoInOrder
  <2>1. asked[c] \in Nat /\ Len(shown[c]) \in Nat
    BY <1>0, EchoAssumption DEF TypeOK, Shapes
  <2>2. Counts(c)
    BY <1>0
  <2> QED
    BY <2>1, <2>2 DEF Counts
<1>4. ShownWasEchoed
  <2> SUFFICES ASSUME NEW c \in Clients
               PROVE  \/ Len(shown[c]) <= echoed[c]
                      \/ c \in Interactive /\ reset[c] /\ Len(shown[c]) = asked[c]
    BY DEF ShownWasEchoed
  <2>1. Counts(c)
    BY <1>0
  <2> QED
    BY <1>0, <2>1, EchoAssumption DEF Counts, TypeOK, Shapes
<1> QED
  BY <1>1, <1>2, <1>3, <1>4, <1>0 DEF Accounted, ShownTruly

\* Nothing is connected at the start.
LEMMA InvInit == Init => IInv
<1> SUFFICES ASSUME Init PROVE IInv
  OBVIOUS
<1> USE EchoAssumption DEF Init
<1>1. TypeOK
  BY DEF TypeOK, None
<1>2. Shapes
  BY EmptySeq DEF Shapes
<1>3. Backlog
  <2>1. queue = <<>> /\ conn = None /\ spc = "start"
    OBVIOUS
  <2> QED
    BY <2>1 DEF Backlog
<1>4. Finished
  BY DEF Finished
<1>5. ASSUME NEW c \in Clients PROVE ClientInv(c)
  <2>1. conn # c /\ ~Queued(c)
    BY DEF None, Queued
  <2>2. Ends(c) /\ NoTrace(c)
    BY <2>1 DEF Ends, NoTrace, OnWay
  <2>3. Wire(c) /\ Counts(c) /\ Gone(c)
    BY <2>1 DEF Wire, Counts, Gone, OnWay, ClientOpen
  <2> QED
    BY <2>2, <2>3 DEF ClientInv
<1> QED
  BY <1>1, <1>2, <1>3, <1>4, <1>5 DEF IInv

-----------------------------------------------------------------------------
(* The queue                                                               *)

\* A connection that was not waiting joins the end of the queue,
LEMMA QueueGrows ==
  ASSUME NEW c \in Clients, Shapes, Backlog, ~Queued(c), queue' = Append(queue, c)
  PROVE  /\ queue' \in Seq(Clients)
         /\ \A d \in Clients : Queued(d)' = (Queued(d) \/ d = c)
         /\ \A i \in 1 .. Len(queue'), j \in 1 .. Len(queue') :
              queue'[i] = queue'[j] => i = j
<1>1. /\ queue' \in Seq(Clients) /\ Len(queue) \in Nat /\ Len(queue') = Len(queue) + 1
      /\ \A i \in 1 .. Len(queue) : queue'[i] = queue[i]
      /\ queue'[Len(queue) + 1] = c
  BY AppendProperties DEF Shapes
<1>2. \A i \in 1 .. Len(queue') : i \in 1 .. Len(queue) \/ i = Len(queue) + 1
  BY <1>1
<1>3. /\ \A i \in 1 .. Len(queue) : i \in 1 .. Len(queue')
      /\ Len(queue) + 1 \in 1 .. Len(queue')
  BY <1>1
<1>4. \A d \in Clients : Queued(d)' = (Queued(d) \/ d = c)
  BY <1>1, <1>2, <1>3 DEF Queued
<1>5. \A i \in 1 .. Len(queue'), j \in 1 .. Len(queue') : queue'[i] = queue'[j] => i = j
  BY <1>1, <1>2 DEF Queued, Backlog
<1> QED
  BY <1>1, <1>4, <1>5

\* and the first one leaves it.
LEMMA QueueShrinks ==
  ASSUME Shapes, Backlog, queue # <<>>, queue' = Tail(queue)
  PROVE  /\ queue' \in Seq(Clients) /\ Head(queue) \in Clients /\ Queued(Head(queue))
         /\ \A d \in Clients : Queued(d)' = (Queued(d) /\ d # Head(queue))
         /\ \A i \in 1 .. Len(queue'), j \in 1 .. Len(queue') :
              queue'[i] = queue'[j] => i = j
<1>1. /\ queue' \in Seq(Clients) /\ Len(queue) \in Nat \ {0} /\ Len(queue') = Len(queue) - 1
      /\ \A i \in 1 .. Len(queue') : queue'[i] = queue[i + 1]
      /\ Head(queue) = queue[1] /\ Head(queue) \in Clients
  BY HeadTailProperties, EmptySeq DEF Shapes
<1>2. \A i \in 1 .. Len(queue') : i + 1 \in 1 .. Len(queue) /\ i + 1 # 1 /\ i \in Nat
  BY <1>1
<1>3. \A i \in 2 .. Len(queue) : i - 1 \in 1 .. Len(queue') /\ (i - 1) + 1 = i
  BY <1>1
<1>4. ASSUME NEW d \in Clients PROVE Queued(d)' = (Queued(d) /\ d # Head(queue))
  <2>1. ASSUME Queued(d)' PROVE Queued(d) /\ d # Head(queue)
    <3>1. PICK i \in 1 .. Len(queue') : queue'[i] = d
      BY <2>1 DEF Queued
    <3>2. queue[i + 1] = d /\ i + 1 \in 1 .. Len(queue) /\ i + 1 # 1 /\ 1 \in 1 .. Len(queue)
      BY <1>1, <1>2, <3>1
    <3> QED
      BY <1>1, <3>2 DEF Queued, Backlog
  <2>2. ASSUME Queued(d), d # Head(queue) PROVE Queued(d)'
    <3>1. PICK i \in 1 .. Len(queue) : queue[i] = d
      BY <2>2 DEF Queued
    <3>2. i \in 2 .. Len(queue)
      BY <1>1, <2>2, <3>1
    <3>3. queue'[i - 1] = d /\ i - 1 \in 1 .. Len(queue')
      BY <1>1, <1>3, <3>1, <3>2
    <3> QED
      BY <3>3 DEF Queued
  <2>3. Queued(d) \in BOOLEAN /\ Queued(d)' \in BOOLEAN
    BY DEF Queued
  <2> QED
    BY <2>1, <2>2, <2>3
<1>5. ASSUME NEW i \in 1 .. Len(queue'), NEW j \in 1 .. Len(queue'), queue'[i] = queue'[j]
      PROVE  i = j
  <2>1. i + 1 = j + 1
    BY <1>1, <1>2, <1>5 DEF Backlog
  <2> QED
    BY <2>1, <1>2
<1>6. Queued(Head(queue))
  BY <1>1 DEF Queued
<1> QED
  BY <1>1, <1>4, <1>5, <1>6

-----------------------------------------------------------------------------
(* The server's steps                                                      *)

\* The invariant, part by part.
LEMMA Parts ==
  ASSUME IInv
  PROVE  /\ TypeOK /\ Shapes /\ Backlog /\ Finished
         /\ \A c \in Clients : /\ ClientInv(c)
                               /\ Ends(c) /\ NoTrace(c) /\ Wire(c) /\ Counts(c) /\ Gone(c)
BY DEF IInv, ClientInv

\* While the server has a connection in hand, the other end has seen nothing of
\* its end; without a handler nothing has come back either.
LEMMA InHand ==
  ASSUME IInv, conn # None
  PROVE  /\ conn \in Clients /\ S \in holders[conn] /\ ~Queued(conn) /\ ~PeerClosed(conn)
         /\ reset[conn] = FALSE /\ cpc[conn] \notin {"start", "failed", "dead"}
         /\ hpc[conn] = "none" => OnWay(conn) = Len(up[conn])
<1>1. conn \in Clients /\ S \in holders[conn]
  BY Parts DEF TypeOK, Ends
<1>2. ~Queued(conn) /\ ~PeerClosed(conn)
  BY Parts, <1>1 DEF Ends, PeerClosed
<1>3. reset[conn] = FALSE /\ cpc[conn] \notin {"start", "failed", "dead"}
  BY Parts, <1>1, <1>2 DEF Gone, NoTrace, Shapes
<1>4. ASSUME hpc[conn] = "none" PROVE OnWay(conn) = Len(up[conn])
  <2>1. hbuf[conn] = <<>>
    BY Parts, <1>1, <1>4 DEF Wire
  <2>2. Len(down[conn]) = 0
    BY Parts, <1>1, <1>3, <1>4 DEF Counts, Shapes, TypeOK
  <2> QED
    BY Parts, <1>1, <2>1, <2>2 DEF OnWay, Shapes
<1> QED
  BY <1>1, <1>2, <1>3, <1>4

\* bind() and listen() (s_f.c:58-70).
LEMMA StartInv == ASSUME IInv, S_Start PROVE IInv'
<1> USE Parts DEF S_Start, handler, client, link
<1>1. TypeOK' /\ Shapes'
  BY DEF TypeOK, Shapes
<1>2. Backlog' /\ Finished'
  BY DEF Backlog, Finished
<1>3. ASSUME NEW c \in Clients PROVE ClientInv(c)'
  BY Frame DEF Same, Queued
<1> QED
  BY <1>1, <1>2, <1>3 DEF IInv

\* accept() takes the connection that has waited longest (s_f.c:80).
LEMMA AcceptInv == ASSUME IInv, S_Accept PROVE IInv'
<1> USE Parts DEF S_Accept, handler, client
<1>0. PICK c : c = Head(queue)
  OBVIOUS
<1>1. /\ queue' \in Seq(Clients) /\ c \in Clients /\ Queued(c)
      /\ \A d \in Clients : Queued(d)' = (Queued(d) /\ d # c)
      /\ \A i \in 1 .. Len(queue'), j \in 1 .. Len(queue') :
           queue'[i] = queue'[j] => i = j
  BY <1>0, QueueShrinks
<1>2. conn = None /\ conn' = c /\ conn' # None /\ holders' = [holders EXCEPT ![c] = {S}]
  BY <1>0, <1>1, EchoAssumption DEF Backlog, None
<1>3. holders[c] = {} /\ hpc[c] = "none" /\ reset[c] = FALSE
  <2>1. holders[c] = {} /\ hpc[c] = "none"
    BY <1>1 DEF Ends
  <2>2. ~reset[c]
    BY <1>1 DEF Gone, PeerClosed
  <2> QED
    BY <2>1, <2>2, <1>1 DEF Shapes
<1>4. TypeOK' /\ Shapes'
  <2>1. \A i \in 1 .. Len(queue') : queue'[i] \in Clients
    BY <1>1, ElementOfSeq
  <2>2. holders' \in [Clients -> SUBSET {S, H}]
    BY <1>1, <1>2 DEF TypeOK
  <2>3. conn' \in Clients \cup {None} /\ spc' = "fork"
    BY <1>1, <1>2
  <2>4. TypeOK'
    BY <2>1, <2>2, <2>3 DEF TypeOK
  <2>5. Shapes'
    BY <1>1 DEF Shapes
  <2> QED
    BY <2>4, <2>5
<1>5. Backlog' /\ Finished'
  BY <1>1, <1>2, <1>3 DEF Backlog, Finished
<1>6. ClientInv(c)'
  <2>1. holders'[c] = {S} /\ Queued(c)' = FALSE
    BY <1>1, <1>2 DEF TypeOK
  <2>2. Ends(c)' /\ NoTrace(c)'
    BY <1>1, <1>2, <1>3, <2>1 DEF Ends, NoTrace, S, H
  <2>3. Wire(c)' /\ Counts(c)'
    <3>1. /\ Wire(c) /\ Counts(c) /\ up' = up /\ hbuf' = hbuf /\ down' = down
          /\ hpc' = hpc /\ cpc' = cpc /\ asked' = asked /\ shown' = shown
          /\ echoed' = echoed /\ reset' = reset
      BY <1>1
    <3>2. Wire(c)'
      BY <3>1 DEF Wire, OnWay
    <3>3. Counts(c)'
      BY <3>1 DEF Counts
    <3> QED
      BY <3>2, <3>3
  <2>4. Gone(c)'
    BY <1>1, <1>3, <2>1 DEF Gone, PeerClosed, ClientOpen
  <2> QED
    BY <2>2, <2>3, <2>4 DEF ClientInv
<1>7. ASSUME NEW d \in Clients, d # c PROVE ClientInv(d)'
  <2>1. Same(d)
    <3>1. Queued(d)' = Queued(d) /\ (conn' = d) = (conn = d)
      <4>1. Queued(d) \in BOOLEAN
        BY DEF Queued
      <4> QED
        BY <1>1, <1>2, <1>7, <4>1, EchoAssumption DEF None
    <3>2. holders'[d] = holders[d]
      BY <1>2, <1>7 DEF TypeOK
    <3> QED
      BY <3>1, <3>2 DEF Same
  <2> QED
    BY <2>1, Frame
<1> QED
  BY <1>4, <1>5, <1>6, <1>7 DEF IInv

\* fork() gives it a handler, or fails and leaves it to be reset (s_f.c:90).
LEMMA ForkInv == ASSUME IInv, S_Fork PROVE IInv'
<1> USE Parts DEF S_Fork, client
<1>0. PICK c : c = conn
  OBVIOUS
<1>1. c = conn /\ c # None /\ hpc[c] = "none" /\ conn' = conn /\ queue' = queue
  BY <1>0 DEF Backlog
<1>2. /\ c \in Clients /\ S \in holders[c] /\ ~Queued(c) /\ reset[c] = FALSE
      /\ cpc[c] \notin {"start", "failed", "dead"}
  BY <1>1, InHand
<1>3. \A d \in Clients : Queued(d)' = Queued(d)
  BY DEF Queued
<1>4. CASE UNCHANGED <<hpc, holders>>
  <2>1. TypeOK' /\ Shapes'
    BY <1>4 DEF TypeOK, Shapes
  <2>2. Backlog' /\ Finished'
    BY <1>1, <1>4 DEF Backlog, Finished
  <2>3. \A d \in Clients : ClientInv(d)'
    BY <1>3, <1>4, Frame DEF Same
  <2> QED
    BY <2>1, <2>2, <2>3 DEF IInv
<1>5. CASE /\ hpc' = [hpc EXCEPT ![c] = "read"]
           /\ holders' = [holders EXCEPT ![c] = @ \cup {H}]
  <2>1. TypeOK' /\ Shapes'
    <3>1. hpc' \in [Clients -> {"none", "read", "write", "close", "zombie"}]
      BY <1>2, <1>5 DEF TypeOK
    <3>2. holders' \in [Clients -> SUBSET {S, H}]
      BY <1>2, <1>5 DEF TypeOK
    <3> QED
      BY <3>1, <3>2 DEF TypeOK, Shapes
  <2>2. Backlog' /\ Finished'
    BY <1>1, <1>5 DEF Backlog, Finished
  <2>3. hpc'[c] = "read" /\ holders'[c] = holders[c] \cup {H}
    BY <1>2, <1>5 DEF TypeOK
  <2>4. ClientInv(c)'
    <3>1. Ends(c)' /\ NoTrace(c)'
      BY <1>1, <1>2, <1>3, <2>3 DEF Ends, NoTrace, S, H
    <3>2. Wire(c)' /\ Counts(c)'
      BY <1>1, <1>2, <2>3 DEF Wire, Counts, OnWay
    <3>3. Gone(c)'
      BY <1>2, <2>3 DEF Gone, PeerClosed
    <3> QED
      BY <3>1, <3>2, <3>3 DEF ClientInv
  <2>5. ASSUME NEW d \in Clients, d # c PROVE ClientInv(d)'
    <3>1. Same(d)
      BY <1>1, <1>2, <1>3, <1>5, <2>5 DEF Same, TypeOK
    <3> QED
      BY <3>1, Frame
  <2> QED
    BY <2>1, <2>2, <2>4, <2>5 DEF IInv
<1> QED
  BY <1>1, <1>4, <1>5

\* The server closes its descriptor of it (s_f.c:123-129).
LEMMA CloseInv == ASSUME IInv, S_Close PROVE IInv'
<1> USE Parts DEF S_Close, handler, client
<1>0. PICK c : c = conn
  OBVIOUS
<1>1. c = conn /\ c # None /\ conn' = None /\ queue' = queue /\ spc' = "accept"
  BY <1>0 DEF Backlog
<1>2. /\ c \in Clients /\ S \in holders[c] /\ ~Queued(c) /\ reset[c] = FALSE
      /\ ~PeerClosed(c) /\ cpc[c] \notin {"start", "failed", "dead"}
      /\ hpc[c] = "none" => OnWay(c) = Len(up[c])
  BY <1>1, InHand
<1>3. /\ holders' = [holders EXCEPT ![c] = @ \ {S}]
      /\ reset' = [reset EXCEPT ![c] = @ \/ (holders[c] = {S} /\ up[c] # <<>>)]
  BY <1>1 DEF CloseEnd
<1>4. /\ holders'[c] = holders[c] \ {S}
      /\ reset'[c] = (holders[c] = {S} /\ up[c] # <<>>)
      /\ \A d \in Clients : Queued(d)' = Queued(d)
  BY <1>2, <1>3 DEF TypeOK, Shapes, Queued
<1>5. TypeOK' /\ Shapes'
  <2>1. holders' \in [Clients -> SUBSET {S, H}]
    BY <1>2, <1>3 DEF TypeOK
  <2>2. reset' \in [Clients -> BOOLEAN]
    BY <1>2, <1>3 DEF Shapes
  <2> QED
    BY <1>1, <2>1, <2>2 DEF TypeOK, Shapes
<1>6. Backlog' /\ Finished'
  BY <1>1 DEF Backlog, Finished
<1>7. ClientInv(c)'
  <2>1. H \in holders'[c] <=> hpc[c] \in {"read", "write", "close"}
    BY <1>2, <1>4 DEF Ends, S, H
  <2>2. Ends(c)' /\ NoTrace(c)'
    BY <1>1, <1>2, <1>4, <2>1, EchoAssumption DEF Ends, NoTrace, None
  <2>3. holders'[c] = {} => hpc[c] = "none" \/ hpc[c] = "zombie"
    BY <1>2, <2>1 DEF TypeOK
  <2>4. reset'[c] => hpc[c] = "none" /\ holders'[c] = {}
    BY <1>2, <1>4, <2>3 DEF Gone
  <2>5. Wire(c)'
    BY <1>2 DEF Wire, OnWay
  <2>6. Counts(c)'
    BY <1>2 DEF Counts
  <2>7. Gone(c)'
    <3>1. cpc[c] = "read" /\ holders'[c] = {} => reset'[c]
      <4> SUFFICES ASSUME cpc[c] = "read", holders'[c] = {} PROVE reset'[c]
        OBVIOUS
      <4>1. holders[c] = {S}
        BY <1>2, <1>4
      <4>2. hpc[c] = "none"
        BY <1>2, <2>3 DEF Gone, ClientOpen
      <4>3. Len(up[c]) = 1
        BY <1>2, <4>2 DEF Wire
      <4>4. up[c] # <<>>
        BY <4>3, EmptySeq
      <4> QED
        BY <4>1, <4>4, <1>4
    <3> QED
      BY <1>2, <1>4, <2>4, <3>1 DEF Gone, PeerClosed, ClientOpen
  <2> QED
    BY <2>2, <2>5, <2>6, <2>7 DEF ClientInv
<1>8. ASSUME NEW d \in Clients, d # c PROVE ClientInv(d)'
  <2>1. Same(d)
    BY <1>1, <1>2, <1>3, <1>4, <1>8, EchoAssumption DEF Same, TypeOK, Shapes, None
  <2> QED
    BY <2>1, Frame
<1> QED
  BY <1>5, <1>6, <1>7, <1>8 DEF IInv

-----------------------------------------------------------------------------
(* The steps of the handler of c and of client c                           *)

\* A step that leaves the server and the other clients alone.
LEMMA Local ==
  ASSUME IInv, NEW c \in Clients, TypeOK', Shapes', ClientInv(c)',
         spc' = spc, queue' = queue, conn' = conn, announced' = announced,
         \A d \in Clients \ {c} : Same(d),
         hpc'[c] = hpc[c] \/ hpc[c] # "none",
         cpc[c] \in {"done", "failed", "dead"} => cpc'[c] = cpc[c]
  PROVE  IInv'
<1>1. Backlog'
  <2>1. ASSUME spc = "fork" PROVE hpc'[conn] = "none"
    <3>1. conn \in Clients /\ hpc[conn] = "none"
      BY Parts, <2>1 DEF Backlog, TypeOK
    <3> QED
      BY <3>1 DEF Same
  <2> QED
    BY <2>1, Parts DEF Backlog
<1>2. Finished'
  BY Parts DEF Finished, Same
<1>3. \A d \in Clients : ClientInv(d)'
  BY Parts, Frame
<1> QED
  BY <1>1, <1>2, <1>3 DEF IInv

\* While a connection has a handler that has not closed it, nothing has ended.
LEMMA Serving ==
  ASSUME IInv, NEW c \in Clients, hpc[c] \in {"read", "write", "close"}
  PROVE  /\ H \in holders[c] /\ ~Queued(c) /\ ~PeerClosed(c) /\ reset[c] = FALSE
         /\ cpc[c] \notin {"start", "failed", "dead"}
<1>1. H \in holders[c] /\ ~Queued(c) /\ ~PeerClosed(c)
  BY Parts DEF Ends, PeerClosed
<1> QED
  BY <1>1, Parts DEF Gone, NoTrace, Shapes

\* read() takes the message from the wire, or finds the end (s_f.c:98-104).
LEMMA HReadInv == ASSUME IInv, NEW c \in Clients, H_Read(c) PROVE IInv'
<1>0. /\ hpc[c] = "read" /\ spc' = spc /\ queue' = queue /\ conn' = conn
      /\ UNCHANGED <<echoed, cpc, asked, shown, down, holders, reset, announced>>
  BY DEF H_Read, server, client
<1>1. /\ H \in holders[c] /\ ~Queued(c) /\ ~PeerClosed(c) /\ reset[c] = FALSE
      /\ cpc[c] \notin {"start", "failed", "dead"} /\ hbuf[c] = <<>>
  BY <1>0, Serving, Parts DEF Wire
<1>2. \A d \in Clients : Queued(d)' = Queued(d) /\ (conn' = d) = (conn = d)
  BY <1>0 DEF Queued
<1>3. CASE /\ up[c] # <<>>
           /\ hbuf' = [hbuf EXCEPT ![c] = up[c]]
           /\ up' = [up EXCEPT ![c] = <<>>]
           /\ hpc' = [hpc EXCEPT ![c] = "write"]
  <2>1. TypeOK' /\ Shapes'
    <3>1. hpc' \in [Clients -> {"none", "read", "write", "close", "zombie"}]
      BY <1>3, Parts DEF TypeOK
    <3>2. TypeOK'
      BY <1>0, <3>1, Parts DEF TypeOK
    <3>3. up' \in [Clients -> Seq(Message)] /\ hbuf' \in [Clients -> Seq(Message)]
      BY <1>3, Parts, EmptySeq DEF Shapes
    <3>4. Shapes'
      BY <1>0, <3>3, Parts DEF Shapes
    <3> QED
      BY <3>2, <3>4
  <2>2. hbuf'[c] = up[c] /\ up'[c] = <<>> /\ hpc'[c] = "write"
    BY <1>3, Parts DEF TypeOK, Shapes
  <2>3. \A d \in Clients \ {c} : Same(d)
    BY <1>0, <1>2, <1>3, Parts DEF Same, TypeOK, Shapes
  <2>4. /\ Len(up[c]) \in Nat /\ Len(down[c]) \in Nat /\ Len(<<>>) = 0
        /\ OnWay(c) = Len(up[c]) + 0 + Len(down[c])
        /\ OnWay(c)' = 0 + Len(up[c]) + Len(down[c])
    BY <1>0, <1>1, <2>2, Parts, EmptySeq DEF OnWay, Shapes
  <2>5. Ends(c)' /\ NoTrace(c)'
    BY <1>0, <1>1, <1>2, <2>2, Parts DEF Ends, NoTrace
  <2>6. Wire(c)'
    BY <1>0, <1>3, <2>2, <2>4, Parts DEF Wire, Shapes
  <2>7. Counts(c)'
    <3>1. Counts(c) /\ Len(hbuf[c]) = 0 /\ echoed[c] \in Int /\ Len(up[c]) \in Int
      BY <1>1, <2>4, Parts DEF TypeOK
    <3>2. echoed[c] + Len(up[c]) + Len(hbuf[c]) = echoed[c] + Len(up'[c]) + Len(hbuf'[c])
      BY <2>2, <2>4, <3>1
    <3> QED
      BY <1>0, <2>2, <3>1, <3>2 DEF Counts
  <2>8. Gone(c)'
    BY <1>0, <1>1, <1>2, <2>2, Parts DEF Gone, PeerClosed
  <2> QED
    BY <1>0, <2>1, <2>3, <2>5, <2>6, <2>7, <2>8, Local DEF ClientInv
<1>4. CASE /\ up[c] = <<>> /\ ~ClientOpen(c)
           /\ hpc' = [hpc EXCEPT ![c] = "close"]
           /\ UNCHANGED <<hbuf, up>>
  <2>1. TypeOK' /\ Shapes'
    <3>1. hpc' \in [Clients -> {"none", "read", "write", "close", "zombie"}]
      BY <1>4, Parts DEF TypeOK
    <3>2. TypeOK'
      BY <1>0, <3>1, Parts DEF TypeOK
    <3>3. Shapes'
      BY <1>0, <1>4, Parts DEF Shapes
    <3> QED
      BY <3>2, <3>3
  <2>2. hpc'[c] = "close"
    BY <1>4, Parts DEF TypeOK
  <2>3. \A d \in Clients \ {c} : Same(d)
    BY <1>0, <1>2, <1>4, Parts DEF Same, TypeOK
  <2>4. Ends(c)' /\ NoTrace(c)'
    BY <1>0, <1>1, <1>2, <2>2, Parts DEF Ends, NoTrace
  <2>5. Wire(c)'
    BY <1>0, <1>1, <1>4, <2>2, Parts DEF Wire, OnWay
  <2>6. Counts(c)'
    BY <1>0, <1>4, <2>2, Parts DEF Counts
  <2>7. Gone(c)'
    BY <1>0, <1>1, <1>2, <1>4, <2>2, Parts DEF Gone, PeerClosed, ClientOpen
  <2> QED
    BY <1>0, <2>1, <2>3, <2>4, <2>5, <2>6, <2>7, Local DEF ClientInv
<1> QED
  BY <1>3, <1>4 DEF H_Read

\* How many messages there are in each place, as numbers.
LEMMA Lengths ==
  ASSUME IInv, NEW c \in Clients
  PROVE  /\ Len(up[c]) \in Nat /\ Len(hbuf[c]) \in Nat /\ Len(down[c]) \in Nat
         /\ Len(shown[c]) \in Nat /\ asked[c] \in Nat /\ echoed[c] \in Nat
         /\ up[c] = <<>> <=> Len(up[c]) = 0
         /\ hbuf[c] = <<>> <=> Len(hbuf[c]) = 0
         /\ down[c] = <<>> <=> Len(down[c]) = 0
<1>1. /\ up[c] \in Seq(Message) /\ hbuf[c] \in Seq(Message) /\ down[c] \in Seq(Message)
      /\ shown[c] \in Seq(Message)
  BY Parts DEF Shapes
<1>2. asked[c] \in Nat /\ echoed[c] \in Nat
  BY Parts, EchoAssumption DEF TypeOK
<1> QED
  BY <1>1, <1>2, EmptySeq

\* No message in three places is none in each.
LEMMA NoneOfThree ==
  ASSUME NEW k \in Nat, NEW l \in Nat, NEW n \in Nat, k + l + n = 0
  PROVE  k = 0 /\ l = 0 /\ n = 0
OBVIOUS

\* Three numbers of which at most one is 1.
LEMMA OneOfThree ==
  ASSUME NEW k \in Nat, NEW l \in Nat, NEW n \in Nat, k + l + n <= 1
  PROVE  /\ l # 0 => l = 1 /\ k = 0 /\ n = 0
         /\ n # 0 => n = 1 /\ k = 0 /\ l = 0
         /\ k + l + n = 0 => k = 0 /\ l = 0 /\ n = 0
OBVIOUS

\* A handler with a message in its buffer has the only one on its way.
LEMMA InBuffer ==
  ASSUME IInv, NEW c \in Clients, hpc[c] = "write"
  PROVE  Len(hbuf[c]) = 1 /\ Len(up[c]) = 0 /\ Len(down[c]) = 0 /\ up[c] = <<>>
<1>1. hbuf[c] # <<>> /\ OnWay(c) <= 1
  BY Parts DEF Wire
<1>2. /\ Len(hbuf[c]) # 0 /\ Len(up[c]) + Len(hbuf[c]) + Len(down[c]) <= 1
      /\ Len(up[c]) = 0 => up[c] = <<>>
  BY <1>1, Lengths DEF OnWay
<1>3. Len(hbuf[c]) = 1 /\ Len(up[c]) = 0 /\ Len(down[c]) = 0
  BY <1>2, Lengths, OneOfThree
<1> QED
  BY <1>2, <1>3

\* write() sends the message back (s_f.c:107-112).
LEMMA HWriteInv == ASSUME IInv, NEW c \in Clients, H_Write(c) PROVE IInv'
<1>0. /\ hpc[c] = "write" /\ spc' = spc /\ queue' = queue /\ conn' = conn
      /\ hbuf' = [hbuf EXCEPT ![c] = <<>>]
      /\ UNCHANGED <<cpc, asked, shown, up, announced>>
  BY DEF H_Write, server, client
<1>1. /\ H \in holders[c] /\ ~Queued(c) /\ ~PeerClosed(c) /\ reset[c] = FALSE
      /\ cpc[c] \notin {"start", "failed", "dead"}
      /\ Len(hbuf[c]) = 1 /\ Len(up[c]) = 0 /\ Len(down[c]) = 0 /\ up[c] = <<>>
  BY <1>0, Serving, InBuffer
<1>2. \A d \in Clients : Queued(d)' = Queued(d) /\ (conn' = d) = (conn = d)
  BY <1>0 DEF Queued
<1>3. hbuf'[c] = <<>> /\ Len(<<>>) = 0 /\ hbuf' \in [Clients -> Seq(Message)]
  BY <1>0, Parts, EmptySeq DEF Shapes
<1>4. CASE /\ ClientOpen(c)
           /\ down' = [down EXCEPT ![c] = @ \o hbuf[c]]
           /\ echoed' = [echoed EXCEPT ![c] = @ + Len(hbuf[c])]
           /\ hpc' = [hpc EXCEPT ![c] = "read"]
           /\ UNCHANGED <<holders, reset>>
  <2>1. /\ hpc'[c] = "read" /\ echoed'[c] = echoed[c] + 1 /\ down'[c] = down[c] \o hbuf[c]
        /\ echoed[c] + 1 <= asked[c]
    <3>1. echoed[c] + Len(up[c]) + Len(hbuf[c]) <= asked[c]
      BY Parts DEF Counts
    <3>2. echoed[c] + 0 + 1 <= asked[c]
      BY <1>1, <3>1
    <3> QED
      BY <1>1, <1>4, <3>2, Parts, Lengths DEF TypeOK, Shapes
  <2>2. /\ down'[c] \in Seq(Message) /\ Len(down'[c]) = 1
        /\ \A i \in 1 .. Len(down'[c]) : down'[c][i] = <<c, asked[c]>>
    <3>1. /\ down[c] \in Seq(Message) /\ hbuf[c] \in Seq(Message)
          /\ \A i \in 1 .. Len(hbuf[c]) : hbuf[c][i] = <<c, asked[c]>>
      BY Parts DEF Shapes, Wire
    <3>2. down[c] = <<>>
      BY <1>1, Lengths
    <3>3. down'[c] = hbuf[c]
      BY <2>1, <3>1, <3>2, ConcatEmptySeq
    <3> QED
      BY <1>1, <3>1, <3>3
  <2>3. TypeOK' /\ Shapes'
    <3>1. hpc' \in [Clients -> {"none", "read", "write", "close", "zombie"}]
      BY <1>4, Parts DEF TypeOK
    <3>2. echoed' \in [Clients -> 0 .. REQUESTS]
      <4>1. echoed[c] + 1 \in 0 .. REQUESTS
        BY <2>1, Parts, Lengths, EchoAssumption DEF TypeOK
      <4> QED
        BY <1>1, <1>4, <4>1, Parts DEF TypeOK
    <3>3. TypeOK'
      BY <1>0, <1>4, <3>1, <3>2, Parts DEF TypeOK
    <3>4. down' \in [Clients -> Seq(Message)]
      BY <1>4, <2>1, <2>2, Parts DEF Shapes
    <3>5. Shapes'
      BY <1>0, <1>3, <1>4, <3>4, Parts DEF Shapes
    <3> QED
      BY <3>3, <3>5
  <2>4. \A d \in Clients \ {c} : Same(d)
    BY <1>0, <1>2, <1>4, Parts DEF Same, TypeOK, Shapes
  <2>5. Ends(c)' /\ NoTrace(c)'
    BY <1>0, <1>1, <1>2, <1>4, <2>1, Parts DEF Ends, NoTrace
  <2>6. Wire(c)'
    <3>1. cpc[c] = "read" => Len(shown[c]) + 1 = asked[c]
      BY Parts DEF Wire
    <3>2. cpc[c] # "write"
      <4>1. OnWay(c) # 0
        BY <1>1 DEF OnWay
      <4> QED
        BY <1>1, <4>1, Parts DEF Wire
    <3>3. OnWay(c)' = 1 /\ Len(up'[c]) = 0 /\ Len(hbuf'[c]) = 0
      BY <1>0, <1>1, <1>3, <2>2 DEF OnWay
    <3> QED
      BY <1>0, <1>3, <2>1, <2>2, <3>1, <3>2, <3>3 DEF Wire
  <2>7. Counts(c)'
    <3>1. Counts(c) /\ echoed[c] \in Nat /\ Len(shown[c]) \in Nat
      BY Parts, Lengths
    <3>2. Len(shown[c]) <= echoed[c]
      BY <1>1, <3>1 DEF Counts
    <3>3. Len(shown[c]) + Len(down'[c]) <= echoed'[c]
      BY <2>1, <2>2, <3>1, <3>2
    <3>4. echoed'[c] + Len(up'[c]) + Len(hbuf'[c]) <= asked'[c]
      BY <1>0, <1>1, <1>3, <2>1, <3>1
    <3> QED
      BY <1>0, <2>1, <3>1, <3>3, <3>4 DEF Counts
  <2>8. Gone(c)'
    BY <1>0, <1>1, <1>2, <1>4, <2>1, Parts DEF Gone, PeerClosed
  <2> QED
    BY <1>0, <2>3, <2>4, <2>5, <2>6, <2>7, <2>8, Local DEF ClientInv
<1>5. CASE /\ ~ClientOpen(c)
           /\ hpc' = [hpc EXCEPT ![c] = "zombie"]
           /\ CloseEnd(c, H)
           /\ UNCHANGED <<down, echoed>>
  <2>1. /\ hpc'[c] = "zombie" /\ holders'[c] = holders[c] \ {H} /\ reset'[c] = FALSE
        /\ holders' = [holders EXCEPT ![c] = @ \ {H}]
    BY <1>1, <1>5, Parts DEF TypeOK, Shapes, CloseEnd
  <2>2. TypeOK' /\ Shapes'
    <3>1. hpc' \in [Clients -> {"none", "read", "write", "close", "zombie"}]
      BY <1>5, Parts DEF TypeOK
    <3>2. holders' \in [Clients -> SUBSET {S, H}]
      BY <2>1, Parts DEF TypeOK
    <3>3. reset' \in [Clients -> BOOLEAN]
      BY <1>5, Parts DEF Shapes, CloseEnd
    <3>4. TypeOK'
      BY <1>0, <1>5, <3>1, <3>2, Parts DEF TypeOK
    <3>5. Shapes'
      BY <1>0, <1>3, <1>5, <3>3, Parts DEF Shapes
    <3> QED
      BY <3>4, <3>5
  <2>3. \A d \in Clients \ {c} : Same(d)
    BY <1>0, <1>2, <1>5, Parts DEF Same, TypeOK, Shapes, CloseEnd
  <2>4. Ends(c)' /\ NoTrace(c)'
    BY <1>0, <1>1, <1>2, <2>1, Parts DEF Ends, NoTrace, S, H
  <2>5. Wire(c)'
    <3>1. cpc[c] # "read" /\ cpc[c] # "write"
      BY <1>5 DEF ClientOpen
    <3>2. OnWay(c)' = 0 /\ Len(up'[c]) = 0 /\ Len(hbuf'[c]) = 0 /\ Len(down'[c]) = 0
      BY <1>0, <1>1, <1>3, <1>5 DEF OnWay
    <3> QED
      BY <1>0, <1>3, <2>1, <3>1, <3>2 DEF Wire
  <2>6. Counts(c)'
    <3>1. Counts(c) /\ echoed[c] \in Nat
      BY Parts, Lengths
    <3>2. echoed'[c] + Len(up'[c]) + Len(hbuf'[c]) <= asked'[c]
      BY <1>0, <1>1, <1>3, <1>5, <3>1, Lengths DEF Counts
    <3>3. Len(shown[c]) + Len(down[c]) <= echoed[c]
      BY <1>1, <3>1 DEF Counts
    <3> QED
      BY <1>0, <1>5, <2>1, <3>1, <3>2, <3>3 DEF Counts
  <2>7. Gone(c)'
    <3>1. c \notin Interactive /\ cpc[c] = "done" => Len(shown[c]) = REQUESTS
      BY <1>1, Parts DEF Gone
    <3> QED
      BY <1>0, <1>1, <1>5, <2>1, <3>1 DEF Gone, ClientOpen
  <2> QED
    BY <1>0, <2>2, <2>3, <2>4, <2>5, <2>6, <2>7, Local DEF ClientInv
<1> QED
  BY <1>4, <1>5 DEF H_Write

\* The handler closes its descriptor and exits (s_f.c:114-121).
LEMMA HCloseInv == ASSUME IInv, NEW c \in Clients, H_Close(c) PROVE IInv'
<1>0. /\ hpc[c] = "close" /\ spc' = spc /\ queue' = queue /\ conn' = conn
      /\ hpc' = [hpc EXCEPT ![c] = "zombie"] /\ CloseEnd(c, H)
      /\ UNCHANGED <<hbuf, echoed, cpc, asked, shown, up, down, announced>>
  BY DEF H_Close, server, client
<1>1. /\ H \in holders[c] /\ ~Queued(c) /\ ~PeerClosed(c) /\ reset[c] = FALSE
      /\ cpc[c] \notin {"start", "failed", "dead"} /\ up[c] = <<>> /\ ~ClientOpen(c)
  BY <1>0, Serving, Parts DEF Gone
<1>2. \A d \in Clients : Queued(d)' = Queued(d) /\ (conn' = d) = (conn = d)
  BY <1>0 DEF Queued
<1>3. /\ hpc'[c] = "zombie" /\ holders'[c] = holders[c] \ {H} /\ reset'[c] = FALSE
      /\ holders' = [holders EXCEPT ![c] = @ \ {H}]
  BY <1>0, <1>1, Parts DEF TypeOK, Shapes, CloseEnd
<1>4. TypeOK' /\ Shapes'
  <2>1. hpc' \in [Clients -> {"none", "read", "write", "close", "zombie"}]
    BY <1>0, Parts DEF TypeOK
  <2>2. holders' \in [Clients -> SUBSET {S, H}]
    BY <1>3, Parts DEF TypeOK
  <2>3. reset' \in [Clients -> BOOLEAN]
    BY <1>0, Parts DEF Shapes, CloseEnd
  <2>4. TypeOK'
    BY <1>0, <2>1, <2>2, Parts DEF TypeOK
  <2>5. Shapes'
    BY <1>0, <2>3, Parts DEF Shapes
  <2> QED
    BY <2>4, <2>5
<1>5. \A d \in Clients \ {c} : Same(d)
  BY <1>0, <1>2, Parts DEF Same, TypeOK, Shapes, CloseEnd
<1>6. Ends(c)' /\ NoTrace(c)'
  BY <1>0, <1>1, <1>2, <1>3, Parts DEF Ends, NoTrace, S, H
<1>7. Wire(c)'
  BY <1>0, <1>1, <1>3, Parts DEF Wire, OnWay, ClientOpen
<1>8. Counts(c)'
  BY <1>0, <1>1, <1>3, Parts DEF Counts
<1>9. Gone(c)'
  <2>1. c \notin Interactive /\ cpc[c] = "done" => Len(shown[c]) = REQUESTS
    BY <1>1, Parts DEF Gone
  <2> QED
    BY <1>0, <1>1, <1>3, <2>1 DEF Gone, ClientOpen
<1> QED
  BY <1>0, <1>4, <1>5, <1>6, <1>7, <1>8, <1>9, Local DEF ClientInv

\* connect() enters the backlog or is refused (c_f.c:30-65).
LEMMA CConnectInv == ASSUME IInv, NEW c \in Clients, C_Connect(c) PROVE IInv'
<1>0. /\ cpc[c] = "start" /\ spc' = spc /\ conn' = conn
      /\ UNCHANGED <<hpc, hbuf, echoed, asked, shown, up, down, holders, reset, announced>>
  BY DEF C_Connect, handler, link
<1>1. /\ ~Queued(c) /\ holders[c] = {} /\ hpc[c] = "none" /\ reset[c] = FALSE
      /\ asked[c] = 0 /\ OnWay(c) = 0 /\ Len(shown[c]) = 0
  BY <1>0, Parts DEF NoTrace, Shapes
<1>2. \A l \in {"write", "failed"} : CGoto(c, l) =>
        /\ cpc'[c] = l
        /\ cpc' \in [Clients -> {"start", "write", "read", "done", "failed", "dead"}]
        /\ \A d \in Clients \ {c} : cpc'[d] = cpc[d]
  BY Parts DEF TypeOK, CGoto
<1>3. CASE queue' = Append(queue, c) /\ CGoto(c, "write")
  <2>1. /\ queue' \in Seq(Clients)
        /\ \A d \in Clients : Queued(d)' = (Queued(d) \/ d = c)
        /\ \A i \in 1 .. Len(queue'), j \in 1 .. Len(queue') : queue'[i] = queue'[j] => i = j
    BY <1>1, <1>3, Parts, QueueGrows
  <2>2. TypeOK' /\ Shapes'
    <3>1. \A i \in 1 .. Len(queue') : queue'[i] \in Clients
      BY <2>1, ElementOfSeq
    <3>2. TypeOK'
      BY <1>0, <1>2, <1>3, <3>1, Parts DEF TypeOK
    <3>3. Shapes'
      BY <1>0, <2>1, Parts DEF Shapes
    <3> QED
      BY <3>2, <3>3
  <2>3. Backlog' /\ Finished'
    BY <1>0, <1>2, <1>3, <2>1, Parts DEF Backlog, Finished
  <2>4. ClientInv(c)'
    <3>1. cpc'[c] = "write" /\ Queued(c)'
      BY <1>2, <1>3, <2>1
    <3>2. Ends(c)' /\ NoTrace(c)' /\ Gone(c)'
      BY <1>0, <1>1, <3>1, Parts DEF Ends, NoTrace, Gone, PeerClosed
    <3>3. Wire(c)'
      BY <1>0, <1>1, <3>1, Parts DEF Wire, OnWay
    <3>4. Counts(c)'
      BY <1>0, Parts DEF Counts
    <3> QED
      BY <3>2, <3>3, <3>4 DEF ClientInv
  <2>5. ASSUME NEW d \in Clients, d # c PROVE ClientInv(d)'
    <3>1. Queued(d) \in BOOLEAN
      BY DEF Queued
    <3>2. Same(d)
      BY <1>0, <1>2, <1>3, <2>1, <2>5, <3>1 DEF Same
    <3> QED
      BY <3>2, Parts, Frame
  <2> QED
    BY <2>2, <2>3, <2>4, <2>5 DEF IInv
<1>4. CASE CGoto(c, "failed") /\ UNCHANGED queue
  <2>1. TypeOK'
    BY <1>0, <1>2, <1>4, Parts DEF TypeOK
  <2>2. Shapes'
    BY <1>0, <1>4, Parts DEF Shapes
  <2>3. \A d \in Clients : Queued(d)' = Queued(d)
    BY <1>4 DEF Queued
  <2>4. \A d \in Clients \ {c} : Same(d)
    BY <1>0, <1>2, <1>4, <2>3 DEF Same
  <2>5. cpc'[c] = "failed"
    BY <1>2, <1>4
  <2>6. Ends(c)' /\ NoTrace(c)' /\ Gone(c)'
    BY <1>0, <1>1, <2>3, <2>5, Parts DEF Ends, NoTrace, Gone, OnWay
  <2>7. Wire(c)' /\ Counts(c)'
    BY <1>0, <2>5, Parts DEF Wire, OnWay, Counts
  <2> QED
    BY <1>0, <1>4, <2>1, <2>2, <2>4, <2>6, <2>7, Local DEF ClientInv
<1> QED
  BY <1>3, <1>4 DEF C_Connect

\* Where the client's step leaves its label and the rest of the system alone.
LEMMA GotoLocal ==
  ASSUME IInv, NEW c \in Clients, NEW l \in {"write", "read", "done", "dead"}, CGoto(c, l)
  PROVE  /\ cpc'[c] = l
         /\ cpc' \in [Clients -> {"start", "write", "read", "done", "failed", "dead"}]
         /\ \A d \in Clients \ {c} : cpc'[d] = cpc[d]
BY Parts DEF TypeOK, CGoto

\* A client closes its end (c_f.c:94-101).
LEMMA CCloseInv == ASSUME IInv, NEW c \in Clients, C_Close(c) PROVE IInv'
<1>0. /\ cpc[c] \in {"write", "read"} /\ spc' = spc /\ queue' = queue /\ conn' = conn
      /\ c \in Interactive \/ (cpc[c] = "write" /\ asked[c] = REQUESTS)
      /\ CGoto(c, "done")
      /\ UNCHANGED <<hpc, hbuf, echoed, asked, shown, up, down, holders, reset, announced>>
  BY DEF C_Close, server, handler, link
<1>1. /\ cpc'[c] = "done"
      /\ cpc' \in [Clients -> {"start", "write", "read", "done", "failed", "dead"}]
      /\ \A d \in Clients \ {c} : cpc'[d] = cpc[d]
  BY <1>0, GotoLocal
<1>2. \A d \in Clients : Queued(d)' = Queued(d)
  BY <1>0 DEF Queued
<1>3. TypeOK' /\ Shapes'
  <2>1. TypeOK'
    BY <1>0, <1>1, Parts DEF TypeOK
  <2>2. Shapes'
    BY <1>0, Parts DEF Shapes
  <2> QED
    BY <2>1, <2>2
<1>4. \A d \in Clients \ {c} : Same(d)
  BY <1>0, <1>1, <1>2 DEF Same
<1>5. Ends(c)' /\ NoTrace(c)'
  BY <1>0, <1>1, <1>2, Parts DEF Ends, NoTrace
<1>6. Wire(c)' /\ Counts(c)'
  BY <1>0, <1>1, Parts DEF Wire, OnWay, Counts
<1>7. Gone(c)'
  <2>1. c \notin Interactive => Len(shown[c]) = REQUESTS \/ reset[c]
    BY <1>0, Parts DEF Wire
  <2> QED
    BY <1>0, <1>1, <1>2, <2>1, Parts DEF Gone, PeerClosed, ClientOpen
<1> QED
  BY <1>0, <1>3, <1>4, <1>5, <1>6, <1>7, Local DEF ClientInv

\* A client sends its next message, or finds that the connection was reset
\* (c_f.c:67-79).
LEMMA CWriteInv == ASSUME IInv, NEW c \in Clients, C_Write(c) PROVE IInv'
<1>0. /\ cpc[c] = "write" /\ asked[c] < REQUESTS
      /\ spc' = spc /\ queue' = queue /\ conn' = conn
      /\ UNCHANGED <<hpc, hbuf, echoed, shown, down, holders, reset, announced>>
  BY DEF C_Write, server, handler
<1>1. \A d \in Clients : Queued(d)' = Queued(d)
  BY <1>0 DEF Queued
<1>2. CASE PeerClosed(c) /\ CGoto(c, "dead") /\ UNCHANGED <<up, asked>>
  <2>1. /\ cpc'[c] = "dead"
        /\ cpc' \in [Clients -> {"start", "write", "read", "done", "failed", "dead"}]
        /\ \A d \in Clients \ {c} : cpc'[d] = cpc[d]
    BY <1>2, GotoLocal
  <2>2. TypeOK' /\ Shapes'
    <3>1. TypeOK'
      BY <1>0, <1>2, <2>1, Parts DEF TypeOK
    <3>2. Shapes'
      BY <1>0, <1>2, Parts DEF Shapes
    <3> QED
      BY <3>1, <3>2
  <2>3. \A d \in Clients \ {c} : Same(d)
    BY <1>0, <1>1, <1>2, <2>1 DEF Same
  <2>4. Ends(c)' /\ NoTrace(c)'
    BY <1>0, <1>1, <2>1, Parts DEF Ends, NoTrace
  <2>5. Wire(c)' /\ Counts(c)'
    BY <1>0, <1>2, <2>1, Parts DEF Wire, OnWay, Counts
  <2>6. Gone(c)'
    <3>1. hpc[c] = "none"
      <4>1. hpc[c] \notin {"read", "write", "close"}
        BY <1>2, Parts DEF Ends, PeerClosed
      <4>2. hpc[c] # "zombie"
        BY <1>0, Parts DEF Gone, ClientOpen
      <4> QED
        BY <4>1, <4>2, Parts DEF TypeOK
    <3> QED
      BY <1>0, <1>1, <1>2, <2>1, <3>1 DEF Gone, PeerClosed
  <2> QED
    BY <1>0, <2>1, <2>2, <2>3, <2>4, <2>5, <2>6, Local DEF ClientInv
<1>3. CASE /\ ~PeerClosed(c)
           /\ up' = [up EXCEPT ![c] = Append(@, <<c, asked[c] + 1>>)]
           /\ asked' = [asked EXCEPT ![c] = @ + 1]
           /\ CGoto(c, "read")
  <2>1. /\ cpc'[c] = "read"
        /\ cpc' \in [Clients -> {"start", "write", "read", "done", "failed", "dead"}]
        /\ \A d \in Clients \ {c} : cpc'[d] = cpc[d]
    BY <1>3, GotoLocal
  <2>2. /\ reset[c] = FALSE /\ OnWay(c) = 0 /\ Len(shown[c]) = asked[c]
        /\ hpc[c] \notin {"close", "zombie"}
    BY <1>0, <1>3, Parts DEF Wire, Gone, ClientOpen, Shapes
  <2>3. up[c] = <<>> /\ hbuf[c] = <<>> /\ down[c] = <<>> /\ Len(<<>>) = 0
    <3>1. /\ Len(up[c]) + Len(hbuf[c]) + Len(down[c]) = 0
          /\ Len(up[c]) + Len(hbuf[c]) + Len(down[c]) <= 1
      BY <2>2, Parts DEF OnWay, Wire
    <3>2. Len(up[c]) = 0 /\ Len(hbuf[c]) = 0 /\ Len(down[c]) = 0
      <4>1. PICK k \in Nat, l \in Nat, n \in Nat :
              k = Len(up[c]) /\ l = Len(hbuf[c]) /\ n = Len(down[c])
        BY Lengths
      <4>2. k + l + n = 0
        BY <3>1, <4>1, Zenon
      <4>3. k = 0 /\ l = 0 /\ n = 0
        BY <4>2, NoneOfThree
      <4> QED
        BY <4>1, <4>3, Zenon
    <3> QED
      BY <3>2, Lengths, EmptySeq
  <2>4. asked'[c] = asked[c] + 1 /\ asked[c] + 1 \in 0 .. REQUESTS /\ asked[c] + 1 \in Nat
    BY <1>0, <1>3, Parts, Lengths, EchoAssumption DEF TypeOK
  <2>5. /\ up'[c] \in Seq(Message) /\ Len(up'[c]) = 1
        /\ \A i \in 1 .. Len(up'[c]) : up'[c][i] = <<c, asked'[c]>>
    <3>1. <<c, asked[c] + 1>> \in Message
      BY <2>4 DEF Message
    <3>2. up'[c] = Append(<<>>, <<c, asked[c] + 1>>)
      BY <1>3, <2>3, Parts DEF Shapes
    <3>3. /\ up'[c] \in Seq(Message) /\ Len(up'[c]) = 0 + 1
          /\ up'[c][0 + 1] = <<c, asked[c] + 1>>
      BY <2>3, <3>1, <3>2, AppendProperties, EmptySeq
    <3> QED
      BY <2>4, <3>3
  <2>6. TypeOK' /\ Shapes'
    <3>1. asked' \in [Clients -> 0 .. REQUESTS]
      BY <1>3, <2>4, Parts DEF TypeOK
    <3>2. TypeOK'
      BY <1>0, <2>1, <3>1, Parts DEF TypeOK
    <3>3. up' \in [Clients -> Seq(Message)]
      BY <1>3, <2>5, Parts DEF Shapes
    <3>4. Shapes'
      BY <1>0, <3>3, Parts DEF Shapes
    <3> QED
      BY <3>2, <3>4
  <2>7. \A d \in Clients \ {c} : Same(d)
    BY <1>0, <1>1, <1>3, <2>1, Parts DEF Same, TypeOK, Shapes
  <2>8. Ends(c)' /\ NoTrace(c)'
    BY <1>0, <1>1, <2>1, Parts DEF Ends, NoTrace
  <2>9. Wire(c)'
    <3>1. OnWay(c)' = 1 /\ Len(hbuf'[c]) = 0 /\ Len(down'[c]) = 0
      BY <1>0, <2>3, <2>5 DEF OnWay
    <3>2. hpc[c] = "write" <=> hbuf[c] # <<>>
      BY Parts DEF Wire
    <3> QED
      BY <1>0, <2>1, <2>2, <2>4, <2>5, <3>1, <3>2 DEF Wire
  <2>10. Counts(c)'
    <3>1. Counts(c) /\ echoed[c] \in Nat /\ asked[c] \in Nat /\ Len(shown[c]) \in Nat
      BY Parts, Lengths
    <3>2. echoed[c] + 0 + 0 <= asked[c]
      BY <2>3, <3>1 DEF Counts
    <3>3. echoed'[c] + Len(up'[c]) + Len(hbuf'[c]) <= asked'[c]
      <4>1. echoed[c] + 1 + 0 <= asked[c] + 1
        BY <3>1, <3>2
      <4> QED
        BY <1>0, <2>3, <2>4, <2>5, <4>1
    <3>4. Len(shown'[c]) <= asked'[c]
      BY <1>0, <2>2, <2>4, <3>1
    <3> QED
      BY <1>0, <2>2, <3>1, <3>3, <3>4 DEF Counts
  <2>11. Gone(c)'
    BY <1>0, <1>1, <1>3, <2>1, <2>2 DEF Gone, PeerClosed
  <2> QED
    BY <1>0, <2>6, <2>7, <2>8, <2>9, <2>10, <2>11, Local DEF ClientInv
<1> QED
  BY <1>2, <1>3 DEF C_Write

\* A client receives its message, or learns of the reset (c_f.c:81-93).
LEMMA CReadInv == ASSUME IInv, NEW c \in Clients, C_Read(c) PROVE IInv'
<1>0. /\ cpc[c] = "read" /\ CGoto(c, "write")
      /\ spc' = spc /\ queue' = queue /\ conn' = conn
      /\ UNCHANGED <<hpc, hbuf, echoed, asked, up, holders, reset, announced>>
  BY DEF C_Read, server, handler
<1>1. \A d \in Clients : Queued(d)' = Queued(d)
  BY <1>0 DEF Queued
<1>2. /\ cpc'[c] = "write"
      /\ cpc' \in [Clients -> {"start", "write", "read", "done", "failed", "dead"}]
      /\ \A d \in Clients \ {c} : cpc'[d] = cpc[d]
  BY <1>0, GotoLocal
<1>3. /\ OnWay(c) = 1 /\ Len(shown[c]) + 1 = asked[c] /\ hpc[c] \notin {"close", "zombie"}
      /\ Wire(c) /\ Counts(c)
  BY <1>0, Parts DEF Wire, Gone, ClientOpen
<1>4. TypeOK'
  BY <1>0, <1>2, Parts DEF TypeOK
<1>5. Ends(c)' /\ NoTrace(c)' /\ Gone(c)'
  <2>1. Ends(c)' /\ NoTrace(c)'
    BY <1>0, <1>1, <1>2, Parts DEF Ends, NoTrace
  <2>2. Gone(c)'
    BY <1>0, <1>1, <1>2, <1>3, Parts DEF Gone, PeerClosed
  <2> QED
    BY <2>1, <2>2
<1>6. CASE /\ down[c] # <<>>
           /\ shown' = [shown EXCEPT ![c] = @ \o down[c]]
           /\ down' = [down EXCEPT ![c] = <<>>]
  <2>1. Len(down[c]) = 1 /\ Len(up[c]) = 0 /\ Len(hbuf[c]) = 0
    <3>1. Len(down[c]) # 0 /\ Len(up[c]) + Len(hbuf[c]) + Len(down[c]) <= 1
      BY <1>3, <1>6, Lengths DEF OnWay, Wire
    <3> QED
      BY <3>1, Lengths, OneOfThree
  <2>2. /\ shown'[c] = shown[c] \o down[c] /\ down'[c] = <<>> /\ Len(<<>>) = 0
        /\ shown[c] \in Seq(Message) /\ down[c] \in Seq(Message)
    BY <1>6, Parts, EmptySeq DEF Shapes
  <2>3. /\ shown'[c] \in Seq(Message) /\ Len(shown'[c]) = asked[c]
        /\ \A i \in 1 .. Len(shown'[c]) : shown'[c][i] = <<c, i>>
    <3>1. /\ shown'[c] \in Seq(Message) /\ Len(shown'[c]) = Len(shown[c]) + Len(down[c])
          /\ \A i \in 1 .. Len(shown[c]) + Len(down[c]) :
               shown'[c][i] = IF i <= Len(shown[c]) THEN shown[c][i]
                                                    ELSE down[c][i - Len(shown[c])]
      <4>1. PICK s \in Seq(Message), t \in Seq(Message) : s = shown[c] /\ t = down[c]
        BY <2>2
      <4>2. /\ s \o t \in Seq(Message) /\ Len(s \o t) = Len(s) + Len(t)
            /\ \A i \in 1 .. Len(s) + Len(t) :
                 (s \o t)[i] = IF i <= Len(s) THEN s[i] ELSE t[i - Len(s)]
        BY ConcatProperties
      <4>3. shown'[c] = s \o t
        BY <2>2, <4>1
      <4>4. /\ shown'[c] \in Seq(Message) /\ Len(shown'[c]) = Len(s) + Len(t)
            /\ \A i \in 1 .. Len(s) + Len(t) :
                 shown'[c][i] = IF i <= Len(s) THEN s[i] ELSE t[i - Len(s)]
        BY <4>2, <4>3, Zenon
      <4> QED
        BY <4>1, <4>4, Zenon
    <3>2. \A i \in 1 .. Len(shown[c]) : shown[c][i] = <<c, i>>
      BY <1>3 DEF Counts
    <3>3. down[c][1] = <<c, asked[c]>>
      BY <1>3, <2>1 DEF Wire
    <3>4. Len(shown[c]) \in Nat /\ asked[c] \in Nat /\ Len(shown[c]) + Len(down[c]) = asked[c]
      BY <1>3, <2>1, Lengths
    <3>5. ASSUME NEW i \in 1 .. asked[c] PROVE shown'[c][i] = <<c, i>>
      <4>1. CASE i <= Len(shown[c])
        <5>1. i \in 1 .. Len(shown[c])
          BY <3>4, <4>1
        <5> QED
          BY <3>1, <3>2, <3>4, <4>1, <5>1
      <4>2. CASE ~(i <= Len(shown[c]))
        <5>1. i = asked[c] /\ i - Len(shown[c]) = 1
          BY <1>3, <3>4, <4>2
        <5> QED
          BY <3>1, <3>3, <3>4, <4>2, <5>1
      <4> QED
        BY <4>1, <4>2
    <3> QED
      BY <3>1, <3>4, <3>5
  <2>4. Shapes'
    <3>1. shown' \in [Clients -> Seq(Message)] /\ down' \in [Clients -> Seq(Message)]
      BY <1>6, <2>2, <2>3, Parts, EmptySeq DEF Shapes
    <3> QED
      BY <1>0, <3>1, Parts DEF Shapes
  <2>5. \A d \in Clients \ {c} : Same(d)
    BY <1>0, <1>1, <1>2, <1>6, Parts DEF Same, Shapes
  <2>6. Wire(c)'
    <3>1. OnWay(c)' = 0
      BY <1>0, <2>1, <2>2 DEF OnWay
    <3> QED
      BY <1>0, <1>2, <1>3, <2>2, <2>3, <3>1 DEF Wire
  <2>7. Counts(c)'
    <3>1. Len(shown[c]) + Len(down[c]) <= echoed[c]
      BY <1>3, <2>1 DEF Counts
    <3>2. asked[c] \in Nat /\ asked[c] + 0 = asked[c] /\ asked[c] <= asked[c]
          /\ asked[c] <= echoed[c]
      BY <1>3, <2>1, <3>1, Lengths
    <3>3. Len(shown'[c]) + Len(down'[c]) <= echoed'[c] /\ Len(shown'[c]) <= asked'[c]
      BY <1>0, <2>2, <2>3, <3>2
    <3> QED
      BY <1>0, <1>3, <2>3, <3>3 DEF Counts
  <2> QED
    BY <1>0, <1>4, <1>5, <2>4, <2>5, <2>6, <2>7, Local DEF ClientInv
<1>7. CASE /\ down[c] = <<>> /\ PeerClosed(c)
           /\ shown' = [shown EXCEPT ![c] = IF reset[c] /\ c \in Interactive
                                            THEN Append(@, <<c, asked[c]>>) ELSE @]
           /\ UNCHANGED down
  <2>1. reset[c] = TRUE
    BY <1>0, <1>7, Parts DEF Gone, Shapes
  <2>2. Shapes' /\ \A d \in Clients \ {c} : Same(d)
    <3>1. <<c, asked[c]>> \in Message /\ shown[c] \in Seq(Message)
      BY Parts, Lengths DEF Message, Shapes
    <3>2. Append(shown[c], <<c, asked[c]>>) \in Seq(Message)
      BY <3>1, AppendProperties
    <3>3. shown' \in [Clients -> Seq(Message)]
      BY <1>7, <3>2, Parts DEF Shapes
    <3>4. Shapes'
      BY <1>0, <1>7, <3>3, Parts DEF Shapes
    <3> QED
      BY <1>0, <1>1, <1>2, <1>7, <3>4, Parts DEF Same, Shapes
  <2>3. Wire(c)'
    BY <1>0, <1>2, <1>3, <1>7, <2>1 DEF Wire, OnWay
  <2>4. Counts(c)'
    <3>1. CASE c \notin Interactive
      <4>1. shown'[c] = shown[c]
        BY <1>7, <3>1, Parts DEF Shapes
      <4> QED
        BY <1>0, <1>3, <1>7, <4>1 DEF Counts
    <3>2. CASE c \in Interactive
      <4>1. shown'[c] = Append(shown[c], <<c, asked[c]>>)
        BY <1>7, <2>1, <3>2, Parts DEF Shapes
      <4>2. <<c, asked[c]>> \in Message /\ shown[c] \in Seq(Message)
        BY Parts, Lengths DEF Message, Shapes
      <4>3. /\ Len(shown'[c]) = Len(shown[c]) + 1
            /\ \A i \in 1 .. Len(shown[c]) : shown'[c][i] = shown[c][i]
            /\ shown'[c][Len(shown[c]) + 1] = <<c, asked[c]>>
        BY <4>1, <4>2, AppendProperties
      <4>4. \A i \in 1 .. Len(shown[c]) : shown[c][i] = <<c, i>>
        BY <1>3 DEF Counts
      <4>5. \A i \in 1 .. Len(shown[c]) + 1 : i \in 1 .. Len(shown[c]) \/ i = Len(shown[c]) + 1
        BY Lengths
      <4>6. \A i \in 1 .. Len(shown'[c]) : shown'[c][i] = <<c, i>>
        BY <1>3, <4>3, <4>4, <4>5
      <4>7. Len(shown'[c]) = asked'[c] /\ Len(shown'[c]) <= asked'[c] /\ Len(down'[c]) = 0
        BY <1>0, <1>3, <1>7, <4>3, Lengths
      <4> QED
        BY <1>0, <1>3, <2>1, <3>2, <4>6, <4>7 DEF Counts
    <3> QED
      BY <3>1, <3>2
  <2> QED
    BY <1>0, <1>4, <1>5, <2>2, <2>3, <2>4, Local DEF ClientInv
<1> QED
  BY <1>6, <1>7 DEF C_Read

\* test.c's last line (test.c:54-72).
LEMMA AnnounceInv == ASSUME IInv, Announce PROVE IInv'
<1>0. /\ \A c \in Clients \ Interactive : cpc[c] \in {"done", "failed", "dead"}
      /\ announced' = TRUE
      /\ UNCHANGED <<spc, queue, conn, hpc, hbuf, echoed, cpc, asked, shown, up, down,
                     holders, reset>>
  BY DEF Announce, server, handler, client, link
<1>1. \A c \in Clients : Queued(c)' = Queued(c)
  BY <1>0 DEF Queued
<1>2. TypeOK' /\ Shapes'
  <2>1. TypeOK'
    BY <1>0, Parts DEF TypeOK
  <2>2. Shapes'
    BY <1>0, Parts DEF Shapes
  <2> QED
    BY <2>1, <2>2
<1>3. Backlog' /\ Finished'
  BY <1>0, Parts DEF Backlog, Finished
<1>4. \A c \in Clients : Same(c)
  BY <1>0, <1>1 DEF Same
<1> QED
  BY <1>2, <1>3, <1>4, Parts, Frame DEF IInv

\* Nothing changes.
LEMMA StutterInv == ASSUME IInv, UNCHANGED vars PROVE IInv'
<1>0. UNCHANGED <<spc, queue, conn, hpc, hbuf, echoed, cpc, asked, shown, up, down,
                  holders, reset, announced>>
  BY DEF vars, server, handler, client, link
<1>1. \A c \in Clients : Queued(c)' = Queued(c)
  BY <1>0 DEF Queued
<1>2. TypeOK' /\ Shapes'
  <2>1. TypeOK'
    BY <1>0, Parts DEF TypeOK
  <2>2. Shapes'
    BY <1>0, Parts DEF Shapes
  <2> QED
    BY <2>1, <2>2
<1>3. Backlog' /\ Finished'
  BY <1>0, Parts DEF Backlog, Finished
<1>4. \A c \in Clients : Same(c)
  BY <1>0, <1>1 DEF Same
<1> QED
  BY <1>2, <1>3, <1>4, Parts, Frame DEF IInv

\* No step of the server, of a handler or of a client leaves the invariant.
LEMMA InvNext == IInv /\ [Next]_vars => IInv'
<1> SUFFICES ASSUME IInv, [Next]_vars PROVE IInv'
  OBVIOUS
<1>1. CASE S_Start
  BY <1>1, StartInv
<1>2. CASE S_Accept
  BY <1>2, AcceptInv
<1>3. CASE S_Fork
  BY <1>3, ForkInv
<1>4. CASE S_Close
  BY <1>4, CloseInv
<1>5. CASE Announce
  BY <1>5, AnnounceInv
<1>6. ASSUME NEW c \in Clients, Handler(c) PROVE IInv'
  BY <1>6, HReadInv, HWriteInv, HCloseInv DEF Handler
<1>7. ASSUME NEW c \in Clients, Client(c) PROVE IInv'
  BY <1>7, CConnectInv, CWriteInv, CReadInv, CCloseInv DEF Client
<1>8. CASE UNCHANGED vars
  BY <1>8, StutterInv
<1> QED
  BY <1>1, <1>2, <1>3, <1>4, <1>5, <1>6, <1>7, <1>8 DEF Next, Server

-----------------------------------------------------------------------------

\* The inductive invariant.
THEOREM Invariance == Spec => []IInv
BY InvInit, InvNext, PTL DEF Spec

\* Every descriptor of a connection is held by exactly the processes that should
\* hold it, and of the messages of an open connection exactly the last one may be
\* on its way (s_f.c:80-129, c_f.c:55-101, test.c:31-51).
THEOREM AccountedHolds == Spec => []Accounted
BY Invariance, Conjuncts, PTL

\* What a client displays are its own messages in the order it sent them, and was
\* echoed, but for the buffer client.c prints when its connection was reset.
THEOREM ShownTrulyHolds == Spec => []ShownTruly
BY Invariance, Conjuncts, PTL

-----------------------------------------------------------------------------
(* Who is dropped                                                          *)

Handled == {c \in Clients : hpc[c] # "none"}

\* A connection that was taken from the backlog has or gets a handler, unless there
\* is no room for another one.
Full ==
  \A c \in Clients :
    cpc[c] \notin {"start", "failed"} /\ ~Queued(c) /\ hpc[c] = "none" =>
      (spc = "fork" /\ conn = c) \/ Processes >= MAXPROC

\* A handler that has ended takes its place for ever.
LEMMA NoneLeaves ==
  ASSUME \A c \in Clients : hpc[c] # "none" => hpc'[c] # "none"
  PROVE  /\ Processes \in Nat /\ Processes' \in Nat /\ Processes' >= Processes
<1>1. Handled \subseteq Handled' /\ Handled \subseteq Clients /\ Handled' \subseteq Clients
  BY DEF Handled
<1>2. IsFiniteSet(Handled) /\ IsFiniteSet(Handled')
  BY <1>1, EchoAssumption, FS_Subset
<1>3. /\ Cardinality(Handled) \in Nat /\ Cardinality(Handled') \in Nat
      /\ Cardinality(Handled) <= Cardinality(Handled')
  BY <1>1, <1>2, FS_CardinalityType, FS_Subset
<1> QED
  BY <1>3 DEF Processes, Handled

\* A step of anyone but the server's first three leaves who has, and who waits for,
\* a handler as it was.
LEMMA FullStays ==
  ASSUME Full, \A c \in Clients : hpc[c] # "none" => hpc'[c] # "none",
         \A c \in Clients :
           cpc'[c] \notin {"start", "failed"} /\ ~Queued(c)' /\ hpc'[c] = "none" =>
             /\ cpc[c] \notin {"start", "failed"} /\ ~Queued(c)
             /\ spc = "fork" /\ conn = c => spc' = "fork" /\ conn' = c
  PROVE  Full'
<1> SUFFICES ASSUME NEW c \in Clients, cpc'[c] \notin {"start", "failed"}, ~Queued(c)',
                    hpc'[c] = "none"
             PROVE  (spc' = "fork" /\ conn' = c) \/ Processes' >= MAXPROC
  BY DEF Full
<1>1. (spc = "fork" /\ conn = c) \/ Processes >= MAXPROC
  BY DEF Full
<1>2. Processes \in Nat /\ Processes' \in Nat /\ Processes' >= Processes /\ MAXPROC \in Nat
  BY NoneLeaves, EchoAssumption
<1> QED
  BY <1>1, <1>2

\* At the start nobody is connected.
LEMMA FullInit == Init => Full
BY DEF Init, Full

\* Every step keeps it.
LEMMA FullNext == IInv /\ Full /\ [Next]_vars => Full'
<1> SUFFICES ASSUME IInv, Full, [Next]_vars PROVE Full'
  OBVIOUS
<1> USE DEF server, handler, client, link
<1>0. /\ queue \in Seq(Clients) /\ hpc \in [Clients -> {"none", "read", "write", "close", "zombie"}]
      /\ cpc \in [Clients -> {"start", "write", "read", "done", "failed", "dead"}]
  BY Parts DEF Shapes, TypeOK
<1>1. CASE S_Start \/ Announce \/ UNCHANGED vars
  <2>1. UNCHANGED <<queue, conn, hpc, cpc>> /\ (spc = "fork" => spc' = "fork")
    BY <1>1 DEF S_Start, Announce, vars
  <2> QED
    BY <2>1, FullStays DEF Queued
<1>2. CASE S_Accept
  <2>1. /\ spc = "accept" /\ queue # <<>> /\ conn' = Head(queue) /\ queue' = Tail(queue)
        /\ spc' = "fork" /\ UNCHANGED <<hpc, cpc>>
    BY <1>2 DEF S_Accept
  <2>2. \A c \in Clients : Queued(c) => Queued(c)' \/ c = conn'
    <3> SUFFICES ASSUME NEW c \in Clients, NEW i \in 1 .. Len(queue), queue[i] = c, c # Head(queue)
                 PROVE  Queued(c)'
      BY <2>1 DEF Queued
    <3>1. Len(queue) \in Nat /\ Len(Tail(queue)) = Len(queue) - 1 /\ Head(queue) = queue[1]
          /\ \A k \in 1 .. Len(Tail(queue)) : Tail(queue)[k] = queue[k + 1]
      BY <1>0, <2>1, HeadTailProperties
    <3>2. i - 1 \in 1 .. Len(Tail(queue)) /\ (i - 1) + 1 = i
      BY <3>1
    <3>3. queue'[i - 1] = c
      BY <2>1, <3>1, <3>2
    <3> QED
      BY <2>1, <3>2, <3>3 DEF Queued
  <2>3. Processes' = Processes
    BY <2>1 DEF Processes
  <2> QED
    BY <2>1, <2>2, <2>3 DEF Full
<1>3. CASE S_Fork
  <2>1. spc = "fork" /\ spc' = "close" /\ UNCHANGED <<queue, conn, cpc>>
    BY <1>3 DEF S_Fork
  <2>2. CASE Processes < MAXPROC /\ hpc' = [hpc EXCEPT ![conn] = "read"]
    <3>1. Processes \in Nat
      <4>1. IsFiniteSet(Handled)
        BY EchoAssumption, FS_Subset DEF Handled
      <4> QED
        BY <4>1, FS_CardinalityType DEF Processes, Handled
    <3>2. \A c \in Clients : hpc'[c] = "none" => hpc[c] = "none" /\ conn # c
      BY <1>0, <2>2
    <3>3. ~(Processes >= MAXPROC)
      BY <2>2, <3>1, EchoAssumption
    <3> QED
      BY <2>1, <3>2, <3>3 DEF Full, Queued
  <2>3. CASE ~(Processes < MAXPROC) /\ UNCHANGED hpc
    <3>1. Processes' = Processes
      BY <2>3 DEF Processes
    <3>2. Processes \in Nat
      <4>1. IsFiniteSet(Handled)
        BY EchoAssumption, FS_Subset DEF Handled
      <4> QED
        BY <4>1, FS_CardinalityType DEF Processes, Handled
    <3> QED
      BY <2>3, <3>1, <3>2, EchoAssumption DEF Full
  <2> QED
    BY <1>3, <2>2, <2>3 DEF S_Fork
<1>4. CASE S_Close
  <2>1. spc = "close" /\ UNCHANGED <<queue, hpc, cpc>>
    BY <1>4 DEF S_Close
  <2> QED
    BY <2>1, FullStays DEF Queued
<1>5. ASSUME NEW c \in Clients, Handler(c) PROVE Full'
  <2>1. /\ UNCHANGED <<spc, queue, conn, cpc>> /\ hpc[c] # "none"
        /\ \E l \in {"read", "write", "close", "zombie"} : hpc' = [hpc EXCEPT ![c] = l]
    BY <1>5 DEF Handler, H_Read, H_Write, H_Close
  <2>2. \A d \in Clients : (hpc'[d] = "none") = (hpc[d] = "none")
    BY <1>0, <2>1
  <2> QED
    BY <2>1, <2>2, FullStays DEF Queued
<1>6. ASSUME NEW c \in Clients, C_Connect(c) PROVE Full'
  <2>1. /\ cpc[c] = "start" /\ UNCHANGED <<spc, conn, hpc>>
        /\ \/ queue' = Append(queue, c) /\ cpc' = [cpc EXCEPT ![c] = "write"]
           \/ queue' = queue /\ cpc' = [cpc EXCEPT ![c] = "failed"]
    BY <1>6 DEF C_Connect, CGoto
  <2>2. CASE queue' = Append(queue, c) /\ cpc' = [cpc EXCEPT ![c] = "write"]
    <3>1. /\ Len(queue) \in Nat /\ Len(queue') = Len(queue) + 1 /\ queue'[Len(queue) + 1] = c
          /\ \A i \in 1 .. Len(queue) : queue'[i] = queue[i]
      BY <1>0, <2>2, AppendProperties
    <3>2. Queued(c)' /\ \A d \in Clients : Queued(d) => Queued(d)'
      BY <3>1 DEF Queued
    <3>3. \A d \in Clients \ {c} : cpc'[d] = cpc[d]
      BY <1>0, <2>2
    <3> QED
      BY <2>1, <3>2, <3>3, FullStays
  <2>3. CASE queue' = queue /\ cpc' = [cpc EXCEPT ![c] = "failed"]
    <3>1. \A d \in Clients : cpc'[d] = "failed" \/ cpc'[d] = cpc[d]
      BY <1>0, <2>3
    <3> QED
      BY <2>1, <2>3, <3>1, FullStays DEF Queued
  <2> QED
    BY <2>1, <2>2, <2>3
<1>7. ASSUME NEW c \in Clients, C_Write(c) \/ C_Read(c) \/ C_Close(c) PROVE Full'
  <2>1. /\ UNCHANGED <<spc, queue, conn, hpc>> /\ cpc[c] \in {"write", "read"}
        /\ \E l \in {"write", "read", "done", "dead"} : cpc' = [cpc EXCEPT ![c] = l]
    BY <1>7 DEF C_Write, C_Read, C_Close, CGoto
  <2>2. \A d \in Clients : cpc'[d] \notin {"start", "failed"} => cpc[d] \notin {"start", "failed"}
    BY <1>0, <2>1
  <2> QED
    BY <2>1, <2>2, FullStays DEF Queued
<1> QED
  BY <1>1, <1>2, <1>3, <1>4, <1>5, <1>6, <1>7 DEF Next, Server, Client

\* Nobody is dropped while there is room for a handler (s_f.c:85-96).
THEOREM FullInvariance == Spec => []Full
BY Invariance, FullInit, FullNext, PTL DEF Spec

\* The two invariants give what is announced.
LEMMA Told == ASSUME IInv, Full PROVE AnnouncedTruly
<1> SUFFICES ASSUME announced, NEW c \in Clients \ Interactive,
                    Len(shown[c]) # REQUESTS, cpc[c] # "failed"
             PROVE  hpc[c] = "none" /\ Processes >= MAXPROC
  BY DEF AnnouncedTruly
<1>1. /\ cpc[c] \in {"done", "failed", "dead"} /\ Gone(c) /\ Ends(c)
  BY DEF IInv, Finished, ClientInv
<1>2. hpc[c] = "none" /\ PeerClosed(c)
  BY <1>1 DEF Gone
<1>3. ~Queued(c) /\ conn # c
  BY <1>1, <1>2 DEF PeerClosed, Ends
<1> QED
  BY <1>1, <1>2, <1>3 DEF Full

\* When test.c announces that all requests were processed, each of its clients has
\* all its messages back, but for those that nobody listened to and those dropped
\* because handlers, ended or not, fill the process table (test.c:66-70, s_f.c:90).
THEOREM AnnouncedTrulyHolds == Spec => []AnnouncedTruly
BY Invariance, FullInvariance, Told, PTL
=============================================================================
