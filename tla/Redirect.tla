------------------------------ MODULE Redirect ------------------------------
(***************************************************************************)
(* 6_part/6.2/6.2_f.c: the parent's standard output is redirected into a   *)
(* pipe and the child's standard input out of it.  The parent prints       *)
(* numbers, the child scans them until the end of the stream.              *)
(*                                                                         *)
(* The state the program can get wrong is its descriptors: the end of the  *)
(* stream comes only when no process has the write end open, and pipe()    *)
(* takes the lowest free descriptors, whatever their numbers mean.  A      *)
(* printf and fflush of one line is one write() of a number; the scanf of  *)
(* the child fills its stdio buffer with all that is in the pipe.          *)
(*                                                                         *)
(* PipeNumbers extends this module with the other program of 6_part/6.2,   *)
(* which sets up its pipe with the same calls.                             *)
(***************************************************************************)
EXTENDS Sequences, FiniteSetsExt, Integers

CONSTANTS
  Numbers,   \* numbers[]
  CAPACITY,  \* numbers the pipe has room for
  OpenSets,  \* descriptors among 0, 1, 2 that may be open when main() starts
  Killable   \* processes a user may kill

Proc == {"parent", "child"}
STDIN == 0
STDOUT == 1
Descriptors == 0 .. 4   \* 0, 1, 2 and the two that pipe() returns

ASSUME RedirectAssumption ==
  /\ Numbers \in Seq(Nat) /\ CAPACITY \in Nat \ {0}
  /\ OpenSets \subseteq SUBSET (0 .. 2)
  /\ Killable \subseteq Proc

VARIABLES
  program, \* "redirect" or "numbers"
  sigpipe, \* SIGPIPE as the programs inherit it, "default" or "ignored"
  pc,      \* where each process is
  fd,      \* of each process, what its descriptors refer to
  pipefd,  \* the descriptors pipe() returned
  i,       \* the parent's loop counter
  pipe,    \* the numbers in the pipe
  inbuf,   \* the child's stdio buffer
  got      \* the numbers the child has received

env  == <<program, sigpipe>>
vars == <<env, pc, fd, pipefd, i, pipe, inbuf, got>>

Closed == [d \in Descriptors |-> "none"]
Held(end) == \E p \in Proc, d \in Descriptors : fd[p][d] = end
Dead == {"exited", "failed", "killed"}

Goto(p, l) == pc' = [pc EXCEPT ![p] = l]
Close(p, d) == fd' = [fd EXCEPT ![p][d] = "none"]
Dup2(p, old, new) == fd' = [fd EXCEPT ![p][new] = fd[p][old]]

\* p ends, for the reason how, and the kernel closes its descriptors.
Quit(p, how) == Goto(p, how) /\ fd' = [fd EXCEPT ![p] = Closed]

\* The program was started without standard input, so that it redirects the
\* pipe onto itself.
NoStdin == program = "redirect" /\ pipefd[1] = STDIN

Init ==
  /\ program \in {"redirect", "numbers"} /\ sigpipe \in {"default", "ignored"}
  /\ pc = [p \in Proc |-> IF p = "parent" THEN "pipe" ELSE "none"]
  /\ \E open \in OpenSets :
       fd = [p \in Proc |-> [d \in Descriptors |->
               IF p = "parent" /\ d \in open THEN "tty" ELSE "none"]]
  /\ pipefd = <<3, 4>>
  /\ i = 0 /\ pipe = <<>> /\ inbuf = <<>> /\ got = <<>>

-----------------------------------------------------------------------------
(* The parent.                                                             *)

\* pipe(): the two lowest descriptors that are free, or a failure.
P_Pipe ==
  /\ pc["parent"] = "pipe"
  /\ LET free == {d \in Descriptors : fd["parent"][d] = "none"}
         r == Min(free)
         w == Min(free \ {r})
     IN \/ /\ pipefd' = <<r, w>>
           /\ fd' = [fd EXCEPT !["parent"] =
                       [@ EXCEPT ![r] = "read end", ![w] = "write end"]]
           /\ Goto("parent", "fork")
        \/ Quit("parent", "failed") /\ UNCHANGED pipefd
  /\ UNCHANGED <<env, i, pipe, inbuf, got>>

P_Fork ==
  /\ pc["parent"] = "fork"
  /\ \/ /\ pc' = [p \in Proc |-> IF p = "parent" THEN "close read end" ELSE "close write end"]
        /\ fd' = [fd EXCEPT !["child"] = fd["parent"]]
     \/ Quit("parent", "failed")
  /\ UNCHANGED <<env, pipefd, i, pipe, inbuf, got>>

P_CloseRead ==
  /\ pc["parent"] = "close read end"
  /\ Close("parent", pipefd[1]) /\ Goto("parent", "ready")
  /\ UNCHANGED <<env, pipefd, i, pipe, inbuf, got>>

P_Dup2 ==
  /\ program = "redirect" /\ pc["parent"] = "ready"
  /\ Dup2("parent", pipefd[2], STDOUT) /\ Goto("parent", "close write end")
  /\ UNCHANGED <<env, pipefd, i, pipe, inbuf, got>>

P_CloseWrite ==
  /\ pc["parent"] = "close write end"
  /\ Close("parent", pipefd[2]) /\ Goto("parent", "write")
  /\ UNCHANGED <<env, pipefd, i, pipe, inbuf, got>>

\* One pass of the loop.  A write to a full pipe waits; SIGPIPE kills a
\* process that writes where nobody can read; without the signal, or with stdout
\* closed, there is an error that the program ignores.
P_Write ==
  /\ pc["parent"] = "write" /\ i < Len(Numbers)
  /\ \/ /\ fd["parent"][STDOUT] = "write end" /\ Held("read end")
        /\ Len(pipe) < CAPACITY
        /\ pipe' = Append(pipe, Numbers[i + 1]) /\ i' = i + 1
        /\ UNCHANGED <<pc, fd>>
     \/ /\ fd["parent"][STDOUT] = "write end" /\ ~Held("read end") /\ sigpipe = "default"
        /\ Quit("parent", "killed")
        /\ UNCHANGED <<i, pipe>>
     \/ /\ \/ fd["parent"][STDOUT] # "write end"
           \/ ~Held("read end") /\ sigpipe = "ignored"
        /\ i' = i + 1
        /\ UNCHANGED <<pc, fd, pipe>>
  /\ UNCHANGED <<env, pipefd, inbuf, got>>

\* Faulty: stdout stays open while the parent waits.
P_CloseOut_Kept ==
  /\ pc["parent"] = "write" /\ i = Len(Numbers)
  /\ Goto("parent", "wait")
  /\ UNCHANGED <<env, fd, pipefd, i, pipe, inbuf, got>>

P_CloseOut ==
  /\ pc["parent"] = "write" /\ i = Len(Numbers)
  /\ Close("parent", STDOUT) /\ Goto("parent", "wait")
  /\ UNCHANGED <<env, pipefd, i, pipe, inbuf, got>>

\* wait(NULL), and main() returns.
P_Wait ==
  /\ pc["parent"] = "wait" /\ pc["child"] \in Dead
  /\ Quit("parent", "exited")
  /\ UNCHANGED <<env, pipefd, i, pipe, inbuf, got>>

-----------------------------------------------------------------------------
(* The child.                                                              *)

\* Faulty: the child keeps its own copy of the write end.
C_CloseWrite_Kept ==
  /\ pc["child"] = "close write end"
  /\ Goto("child", "ready")
  /\ UNCHANGED <<env, fd, pipefd, i, pipe, inbuf, got>>

C_CloseWrite ==
  /\ pc["child"] = "close write end"
  /\ Close("child", pipefd[2]) /\ Goto("child", "ready")
  /\ UNCHANGED <<env, pipefd, i, pipe, inbuf, got>>

C_Dup2 ==
  /\ program = "redirect" /\ pc["child"] = "ready"
  /\ Dup2("child", pipefd[1], STDIN) /\ Goto("child", "close read end")
  /\ UNCHANGED <<env, pipefd, i, pipe, inbuf, got>>

C_CloseRead ==
  /\ pc["child"] = "close read end"
  /\ Close("child", pipefd[1]) /\ Goto("child", "scan")
  /\ UNCHANGED <<env, pipefd, i, pipe, inbuf, got>>

\* scanf() finds its buffer empty and fills it from the pipe.
C_Fill ==
  /\ pc["child"] = "scan" /\ inbuf = <<>>
  /\ fd["child"][STDIN] = "read end" /\ pipe # <<>>
  /\ inbuf' = pipe /\ pipe' = <<>>
  /\ UNCHANGED <<env, pc, fd, pipefd, i, got>>

\* scanf() returns a number.
C_Scan ==
  /\ pc["child"] = "scan" /\ inbuf # <<>>
  /\ got' = Append(got, Head(inbuf)) /\ inbuf' = Tail(inbuf)
  /\ UNCHANGED <<env, pc, fd, pipefd, i, pipe>>

\* Faulty: an empty pipe is taken for the end of the stream.
C_Eof_Empty ==
  /\ pc["child"] = "scan" /\ inbuf = <<>> /\ pipe = <<>>
  /\ Quit("child", "exited")
  /\ UNCHANGED <<env, pipefd, i, pipe, inbuf, got>>

\* scanf() returns EOF, at the end of the stream and also when standard input
\* is closed; the child says so and exits.
C_Eof ==
  /\ pc["child"] = "scan" /\ inbuf = <<>>
  /\ \/ fd["child"][STDIN] # "read end"
     \/ pipe = <<>> /\ ~Held("write end")
  /\ Quit("child", "exited")
  /\ UNCHANGED <<env, pipefd, i, pipe, inbuf, got>>

-----------------------------------------------------------------------------

Kill(p) ==
  /\ p \in Killable /\ pc[p] \notin Dead \cup {"none"}
  /\ Quit(p, "killed")
  /\ UNCHANGED <<env, pipefd, i, pipe, inbuf, got>>

Parent ==
  \/ P_Pipe \/ P_Fork \/ P_CloseRead \/ P_Dup2 \/ P_CloseWrite
  \/ P_Write \/ P_CloseOut \/ P_Wait

Child ==
  C_CloseWrite \/ C_Dup2 \/ C_CloseRead \/ C_Fill \/ C_Scan \/ C_Eof

-----------------------------------------------------------------------------

\* The types of the variables; the pipe never holds more than it has room for.
TypeOK ==
  /\ program \in {"redirect", "numbers"} /\ sigpipe \in {"default", "ignored"}
  /\ pc \in [Proc -> Dead \cup {"none", "pipe", "fork", "close read end", "ready",
                              "close write end", "write", "break", "wait", "scan"}]
  /\ fd \in [Proc -> [Descriptors -> {"none", "tty", "read end", "write end"}]]
  /\ pipefd \in Descriptors \X Descriptors
  /\ i \in 0 .. Len(Numbers)
  /\ {pipe, inbuf, got} \subseteq Seq(Nat)
  /\ Len(pipe) <= CAPACITY

\* When main() returns (6.2_f.c:132) the child has received every number,
\* unless somebody killed it: close() and wait() in that order (:115-118) are
\* what a parent that must not outlive its data needs.  (6.2_1.c: 41-43.)
AllReceived ==
  pc["parent"] = "exited" /\ pc["child"] # "killed" /\ ~NoStdin => got = Numbers

\* The two descriptors of the redirection are where the comments of
\* 6.2_f.c:65-72 and :87-93 say they are, and the pipe has no other: once both
\* processes have set themselves up, each end is open exactly once.  The
\* exception is a program started without standard input: pipe() returns 0, the
\* dup2 of :68 does nothing and the close of :72 shuts the read end.
OneOfEachEnd == ~NoStdin =>
  /\ pc["child"] = "scan" =>
       /\ fd["child"][STDIN] = "read end"
       /\ \A d \in Descriptors \ {STDIN} : fd["child"][d] \notin {"read end", "write end"}
  /\ pc["parent"] = "write" =>
       /\ fd["parent"][STDOUT] = "write end"
       /\ \A d \in Descriptors \ {STDOUT} : fd["parent"][d] \notin {"read end", "write end"}

\* The state of the descriptors and of the pipe is what both programs need.
Plumbing == TypeOK /\ OneOfEachEnd

\* Through the descriptors the two processes have a stream: the numbers come
\* in order, none is lost or repeated, and the child believes in the end of
\* the stream (6.2_f.c:16-26, 6.2_1.c:19-30) only when nothing more can come.  A
\* child without standard input is told nothing: it reads no stream.
S == INSTANCE Stream WITH
       sent  <- got \o inbuf \o pipe,
       open  <- pc["parent"] = "pipe" \/ Held("write end"),
       ended <- pc["child"] = "exited" /\ ~NoStdin
StreamSpec == S!Spec

\* The child ends, whenever and however the parent ends: its own copy of the
\* write end, which it must close (6.2_f.c:62-63), would keep it waiting.
ChildEnds == (pc["child"] # "none") ~> (pc["child"] \in Dead)

\* The parent does not wait for ever in wait() (6.2_f.c:118) or on a full pipe.
ParentEnds == <>(pc["parent"] \in Dead)

\* Neither waits for the other for ever.
BothEnd == ChildEnds /\ ParentEnds
=============================================================================
