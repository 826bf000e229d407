----------------------------- MODULE EchoServer -----------------------------
(***************************************************************************)
(* 6_part/6.3: an echo server on a Unix stream socket (s_f.c) that forks   *)
(* a handler for each connection, and its clients: client.c, driven by a   *)
(* user, and the processes test.c forks.                                   *)
(*                                                                         *)
(* There is one connection per client, so connections and handlers are     *)
(* indexed by clients.  A message is <<client, number>>; it is short       *)
(* enough (fewer than BUFFER_SIZE bytes) to be written and read by one     *)
(* call.  The kernel's part is the backlog, the two directions of a        *)
(* connection, and who still holds its server end.                         *)
(***************************************************************************)
EXTENDS Sequences, FiniteSets, Integers

CONSTANTS
  Clients,
  Interactive,  \* those that run client.c; the others run test.c
  REQUESTS,     \* messages of a client: REQUESTS_PER_CLIENT, or what a user types
  BACKLOG,      \* listen()'s argument
  MAXPROC,      \* handlers the process table has room for
  MayQuit       \* may a user of client.c press Ctrl-C at any time

ASSUME EchoAssumption ==
  /\ IsFiniteSet(Clients) /\ Interactive \subseteq Clients
  /\ REQUESTS \in Nat /\ BACKLOG \in Nat /\ MAXPROC \in Nat
  /\ MayQuit \in BOOLEAN
  /\ "server" \notin Clients

None == "server"      \* the value of conn when the server holds no connection
S == "parent"
H == "child"

VARIABLES
  spc,       \* the server: "start", "accept", "fork", "close", "dead"
  queue,     \* connections not yet accepted
  conn,      \* the connection in client_fd
  holders,   \* of each connection, the processes with its server end open
  hpc, hbuf, \* each handler and its buffer
  up, down,  \* what is on the way to the server and to the client
  reset,     \* the connection was closed with data the server had not read
  cpc,       \* each client: "start", "write", "read", "done", "failed", "dead"
  asked,     \* messages the client has written
  echoed,    \* messages the handler has written back
  shown,     \* what the client has displayed as an echo
  announced  \* test.c has printed that all requests were processed

server  == <<spc, queue, conn>>
handler == <<hpc, hbuf, echoed>>
client  == <<cpc, asked, shown>>
link    == <<up, down, holders, reset>>
vars    == <<server, handler, client, link, announced>>

Listening == spc \notin {"start", "dead"}
Queued(c) == \E i \in 1 .. Len(queue) : queue[i] = c
ClientOpen(c) == cpc[c] \in {"write", "read"}
PeerClosed(c) == ~Queued(c) /\ holders[c] = {}

\* A handler that has ended is a zombie: the server calls neither wait() nor
\* ignores SIGCHLD.
Processes == Cardinality({c \in Clients : hpc[c] # "none"})

\* p gives up its copy of the server end; with the last one the connection
\* closes, and unread data turns the end of the stream into ECONNRESET.
CloseEnd(c, p) ==
  /\ holders' = [holders EXCEPT ![c] = @ \ {p}]
  /\ reset' = [reset EXCEPT ![c] = @ \/ (holders[c] = {p} /\ up[c] # <<>>)]

Init ==
  /\ spc = "start" /\ queue = <<>> /\ conn = None
  /\ holders = [c \in Clients |-> {}] /\ reset = [c \in Clients |-> FALSE]
  /\ hpc = [c \in Clients |-> "none"] /\ hbuf = [c \in Clients |-> <<>>]
  /\ up = [c \in Clients |-> <<>>] /\ down = [c \in Clients |-> <<>>]
  /\ cpc = [c \in Clients |-> "start"]
  /\ asked = [c \in Clients |-> 0] /\ echoed = [c \in Clients |-> 0]
  /\ shown = [c \in Clients |-> <<>>]
  /\ announced = FALSE

-----------------------------------------------------------------------------
(* The server.                                                             *)

\* socket, unlink, bind and listen; it exits when one of them fails.
S_Start ==
  /\ spc = "start"
  /\ spc' \in {"accept", "dead"}
  /\ UNCHANGED <<queue, conn, handler, client, link, announced>>

S_Accept ==
  /\ spc = "accept" /\ queue # <<>>
  /\ conn' = Head(queue) /\ queue' = Tail(queue)
  /\ holders' = [holders EXCEPT ![conn'] = {S}]
  /\ spc' = "fork"
  /\ UNCHANGED <<handler, client, up, down, reset, announced>>

\* fork() == 0 is the only test of its result: when it fails the server goes
\* on as the parent of a handler that does not exist.
S_Fork ==
  /\ spc = "fork"
  /\ IF Processes < MAXPROC
     THEN /\ hpc' = [hpc EXCEPT ![conn] = "read"]
          /\ holders' = [holders EXCEPT ![conn] = @ \cup {H}]
     ELSE UNCHANGED <<hpc, holders>>
  /\ spc' = "close"
  /\ UNCHANGED <<queue, conn, hbuf, echoed, client, up, down, reset, announced>>

\* Faulty: the parent keeps its copy of the descriptor.
S_Close_Leak ==
  /\ spc = "close"
  /\ conn' = None
  /\ spc' = "accept"
  /\ UNCHANGED <<queue, handler, client, link, announced>>

S_Close ==
  /\ spc = "close"
  /\ CloseEnd(conn, S)
  /\ conn' = None
  /\ spc' = "accept"
  /\ UNCHANGED <<queue, handler, client, up, down, announced>>

-----------------------------------------------------------------------------
(* The handler of connection c.                                            *)

\* Faulty: the loop tests bytes_read != -1, so that the end of the stream is
\* read for ever.
H_Read_NoEof(c) ==
  /\ hpc[c] = "read"
  /\ IF up[c] # <<>>
     THEN /\ hbuf' = [hbuf EXCEPT ![c] = up[c]]
          /\ up' = [up EXCEPT ![c] = <<>>]
          /\ hpc' = [hpc EXCEPT ![c] = "write"]
     ELSE UNCHANGED <<hbuf, up, hpc>>
  /\ UNCHANGED <<server, echoed, client, down, holders, reset, announced>>

H_Read(c) ==
  /\ hpc[c] = "read"
  /\ \/ /\ up[c] # <<>>
        /\ hbuf' = [hbuf EXCEPT ![c] = up[c]]
        /\ up' = [up EXCEPT ![c] = <<>>]
        /\ hpc' = [hpc EXCEPT ![c] = "write"]
     \/ /\ up[c] = <<>> /\ ~ClientOpen(c)
        /\ hpc' = [hpc EXCEPT ![c] = "close"]
        /\ UNCHANGED <<hbuf, up>>
  /\ UNCHANGED <<server, echoed, client, down, holders, reset, announced>>

\* Faulty: the buffer is not written when the handler was interrupted.
H_Write_Skips(c) ==
  /\ hpc[c] = "write"
  /\ hpc' = [hpc EXCEPT ![c] = "read"]
  /\ hbuf' = [hbuf EXCEPT ![c] = <<>>]
  /\ UNCHANGED <<server, echoed, client, link, announced>>

\* Writing to a client that has gone is SIGPIPE, the end of the handler.
H_Write(c) ==
  /\ hpc[c] = "write"
  /\ IF ClientOpen(c)
     THEN /\ down' = [down EXCEPT ![c] = @ \o hbuf[c]]
          /\ echoed' = [echoed EXCEPT ![c] = @ + Len(hbuf[c])]
          /\ hpc' = [hpc EXCEPT ![c] = "read"]
          /\ UNCHANGED <<holders, reset>>
     ELSE /\ hpc' = [hpc EXCEPT ![c] = "zombie"]
          /\ CloseEnd(c, H)
          /\ UNCHANGED <<down, echoed>>
  /\ hbuf' = [hbuf EXCEPT ![c] = <<>>]
  /\ UNCHANGED <<server, client, up, announced>>

H_Close(c) ==
  /\ hpc[c] = "close"
  /\ hpc' = [hpc EXCEPT ![c] = "zombie"]
  /\ CloseEnd(c, H)
  /\ UNCHANGED <<server, hbuf, echoed, client, up, down, announced>>

-----------------------------------------------------------------------------
(* Client c.                                                               *)

CGoto(c, l) == cpc' = [cpc EXCEPT ![c] = l]

\* connect() blocks while more than BACKLOG connections wait, and fails when
\* nobody listens.
C_Connect(c) ==
  /\ cpc[c] = "start"
  /\ \/ /\ Listening /\ Len(queue) <= BACKLOG
        /\ queue' = Append(queue, c)
        /\ CGoto(c, "write")
     \/ /\ ~Listening
        /\ CGoto(c, "failed")
        /\ UNCHANGED queue
  /\ UNCHANGED <<spc, conn, handler, asked, shown, link, announced>>

\* The next message; SIGPIPE when the server end is closed.
C_Write(c) ==
  /\ cpc[c] = "write" /\ asked[c] < REQUESTS
  /\ IF PeerClosed(c)
     THEN CGoto(c, "dead") /\ UNCHANGED <<up, asked>>
     ELSE /\ up' = [up EXCEPT ![c] = Append(@, <<c, asked[c] + 1>>)]
          /\ asked' = [asked EXCEPT ![c] = @ + 1]
          /\ CGoto(c, "read")
  /\ UNCHANGED <<server, handler, shown, down, holders, reset, announced>>

\* Faulty: test.c prints what is in its buffer whatever read() returns.
C_Read_Untested(c) ==
  /\ cpc[c] = "read"
  /\ \/ /\ down[c] # <<>>
        /\ shown' = [shown EXCEPT ![c] = @ \o down[c]]
        /\ down' = [down EXCEPT ![c] = <<>>]
     \/ /\ down[c] = <<>> /\ PeerClosed(c)
        /\ shown' = [shown EXCEPT ![c] = Append(@, <<c, asked[c]>>)]
        /\ UNCHANGED down
  /\ CGoto(c, "write")
  /\ UNCHANGED <<server, handler, asked, up, holders, reset, announced>>

\* n > 0 displays what came; n = 0 (the end of the stream) nothing; n = -1
\* makes client.c print the whole of its buffer, where its own message still
\* is, and test.c nothing.
C_Read(c) ==
  /\ cpc[c] = "read"
  /\ \/ /\ down[c] # <<>>
        /\ shown' = [shown EXCEPT ![c] = @ \o down[c]]
        /\ down' = [down EXCEPT ![c] = <<>>]
     \/ /\ down[c] = <<>> /\ PeerClosed(c)
        /\ shown' = [shown EXCEPT ![c] = IF reset[c] /\ c \in Interactive
                                         THEN Append(@, <<c, asked[c]>>) ELSE @]
        /\ UNCHANGED down
  /\ CGoto(c, "write")
  /\ UNCHANGED <<server, handler, asked, up, holders, reset, announced>>

\* After the last message, or (client.c) Ctrl-C.
C_Close(c) ==
  /\ \/ cpc[c] = "write" /\ asked[c] = REQUESTS
     \/ cpc[c] \in {"write", "read"} /\ c \in Interactive /\ MayQuit
  /\ CGoto(c, "done")
  /\ UNCHANGED <<server, handler, asked, shown, link, announced>>

\* Faulty: main() does not wait.
Announce_NoWait ==
  /\ ~announced /\ Interactive # Clients
  /\ announced' = TRUE
  /\ UNCHANGED <<server, handler, client, link>>

\* test.c's main() has waited for all its clients.
Announce ==
  /\ ~announced /\ Interactive # Clients
  /\ \A c \in Clients \ Interactive : cpc[c] \in {"done", "failed", "dead"}
  /\ announced' = TRUE
  /\ UNCHANGED <<server, handler, client, link>>

-----------------------------------------------------------------------------
Server == S_Start \/ S_Accept \/ S_Fork \/ S_Close
Handler(c) == H_Read(c) \/ H_Write(c) \/ H_Close(c)
Client(c) == C_Connect(c) \/ C_Write(c) \/ C_Read(c) \/ C_Close(c)

Next == Server \/ Announce \/ \E c \in Clients : Handler(c) \/ Client(c)

Spec == Init /\ [][Next]_vars

\* Every process is scheduled.
FairSpec == /\ Spec /\ WF_vars(Server) /\ WF_vars(Announce)
            /\ \A c \in Clients : WF_vars(Handler(c)) /\ WF_vars(Client(c))

-----------------------------------------------------------------------------
(* What holds.                                                             *)

\* The range of every variable.
TypeOK ==
  /\ spc \in {"start", "accept", "fork", "close", "dead"}
  /\ \A i \in 1 .. Len(queue) : queue[i] \in Clients
  /\ conn \in Clients \cup {None}
  /\ holders \in [Clients -> SUBSET {S, H}]
  /\ hpc \in [Clients -> {"none", "read", "write", "close", "zombie"}]
  /\ cpc \in [Clients -> {"start", "write", "read", "done", "failed", "dead"}]
  /\ asked \in [Clients -> 0 .. REQUESTS] /\ echoed \in [Clients -> 0 .. REQUESTS]

\* Every descriptor of a server end is accounted for: the parent has the
\* connection it is handing over and no other, so that a handler that ends
\* closes its connection; nobody holds a connection that is still queued.
EndsHeld ==
  /\ \A c \in Clients :
       /\ S \in holders[c] <=> conn = c
       /\ H \in holders[c] <=> hpc[c] \in {"read", "write", "close"}
       /\ Queued(c) => holders[c] = {} /\ hpc[c] = "none"
  /\ conn = None <=> spc \in {"start", "accept", "dead"}

\* While a connection is open, of what the client has sent exactly the last
\* message may be missing on its screen, and that one is in one place only.
InFlight ==
  \A c \in Clients :
    cpc[c] \in {"write", "read"} /\ ~reset[c] /\ (Queued(c) \/ H \in holders[c] \/ conn = c) =>
      /\ Len(up[c]) + Len(hbuf[c]) + Len(down[c]) + Len(shown[c]) = asked[c]
      /\ Len(up[c]) + Len(hbuf[c]) + Len(down[c]) = IF cpc[c] = "read" THEN 1 ELSE 0

\* Every descriptor and every message is accounted for.
Accounted == TypeOK /\ EndsHeld /\ InFlight

\* A client displays its own messages in the order it sent them, each once,
\* whatever happens to its connection.
EchoInOrder ==
  \A c \in Clients : \A i \in 1 .. Len(shown[c]) :
    shown[c][i] = <<c, i>> /\ i <= asked[c]

\* A handler ends when its client has gone, however it went.
HandlerEnds ==
  \A c \in Clients :
    hpc[c] # "none" /\ cpc[c] \in {"done", "dead"} ~> hpc[c] = "zombie"

\* Every client gets past connect(), however many wait; a connection in the backlog
\* gets a handler unless the process table is full; and a client of test.c that has a
\* handler gets every message back, whatever becomes of the others.
AllServed ==
  \A c \in Clients :
    /\ cpc[c] = "start" ~> cpc[c] # "start"
    /\ Queued(c) ~> hpc[c] # "none" \/ Processes >= MAXPROC
    /\ c \notin Interactive => (hpc[c] # "none" ~> cpc[c] = "done" /\ Len(shown[c]) = REQUESTS)

\* When test.c says that all requests were processed (6_part/6.3/test.c:66-70), a
\* client has got all its messages back, except one that nobody listened to and one
\* that was dropped without a word because the handlers, ended or not, fill the
\* process table (6_part/6.3/s_f.c:90).
AnnouncedTruly ==
  announced => \A c \in Clients \ Interactive :
                 \/ Len(shown[c]) = REQUESTS
                 \/ cpc[c] = "failed"
                 \/ hpc[c] = "none" /\ Processes >= MAXPROC

\* What client.c prints as the server's echo (6_part/6.3/c_f.c:87-92) is an
\* echo, except in one case: when the connection was reset, read() returns -1
\* and the buffer it prints still holds the message just sent.  test.c, which
\* looks at the result of read(), never does that.
ShownWasEchoed ==
  \A c \in Clients : \/ Len(shown[c]) <= echoed[c]
                     \/ c \in Interactive /\ reset[c] /\ Len(shown[c]) = asked[c]

\* What a client shows is its own, in order, and has been to the server.
ShownTruly == EchoInOrder /\ ShownWasEchoed
=============================================================================
