-------------------------- MODULE PipeNumbersProofs --------------------------
(***************************************************************************)
(* Proofs about Redirect and PipeNumbers, for any numbers, any capacity of *)
(* the pipe, any descriptors open at the start and whoever may be killed.  *)
(* The invariant comes in two layers: the descriptors, which do not depend *)
(* on what is sent, and the numbers.                                       *)
(***************************************************************************)
EXTENDS PipeNumbers, SequenceTheorems, TLAPS

\* The numbers go round: the value of the n-th.
Modulus == UINT_MAX + 1
Value(n) == n % Modulus

ParentSteps == {"pipe", "fork", "close read end", "ready", "close write end", "write",
                "break", "wait", "exited", "failed", "killed"}
ChildSteps == {"none", "close write end", "ready", "close read end", "scan", "exited", "killed"}
Refs == {"none", "tty", "read end", "write end"}

-----------------------------------------------------------------------------
(* The descriptors                                                         *)

\* f, the descriptors of a process, has the read end of the pipe in reads, its
\* write end in writes, and neither of them elsewhere.
Has(f, reads, writes) ==
  \A d \in Descriptors : /\ f[d] = "read end" <=> d \in reads
                         /\ f[d] = "write end" <=> d \in writes

\* Where the two processes have the ends of the pipe, step by step.
ParentReads == IF pc["parent"] \in {"fork", "close read end"} THEN {pipefd[1]} ELSE {}
ParentWrites ==
  IF pc["parent"] \in {"fork", "close read end", "ready", "break"} THEN {pipefd[2]}
  ELSE IF pc["parent"] = "close write end" THEN {pipefd[2], STDOUT}
  ELSE IF pc["parent"] = "write" THEN {STDOUT} \ {pipefd[2]} ELSE {}
ChildReads ==
  IF pc["child"] \in {"close write end", "ready"} THEN {pipefd[1]}
  ELSE IF pc["child"] = "close read end" THEN {pipefd[1], STDIN}
  ELSE IF pc["child"] = "scan" THEN {STDIN} \ {pipefd[1]} ELSE {}
ChildWrites == IF pc["child"] = "close write end" THEN {pipefd[2]} ELSE {}

WireTypes ==
  /\ program \in {"redirect", "numbers"} /\ sigpipe \in {"default", "ignored"}
  /\ pc \in [Proc -> ParentSteps \cup ChildSteps]
  /\ pc["parent"] \in ParentSteps /\ pc["child"] \in ChildSteps
  /\ fd \in [Proc -> [Descriptors -> Refs]]
  /\ pipefd \in Descriptors \X Descriptors /\ pipefd[1] < pipefd[2]

\* Which steps go with which program, and which go together.
Order ==
  /\ pc["parent"] \in {"close write end", "write"} => program = "redirect"
  /\ pc["child"] \in {"close read end", "scan"} => program = "redirect"
  /\ pc["parent"] = "break" => program = "numbers"
  /\ pc["parent"] \in {"pipe", "fork", "failed"} => pc["child"] = "none"
  /\ pc["parent"] \in {"close read end", "ready", "close write end", "write", "break", "wait"} =>
       pc["child"] # "none"
  /\ pc["parent"] = "exited" => pc["child"] \in Dead
  /\ pc["parent"] = "pipe" => \A d \in {3, 4} : fd["parent"][d] = "none"

Wiring ==
  /\ WireTypes /\ Order
  /\ Has(fd["parent"], ParentReads, ParentWrites)
  /\ Has(fd["child"], ChildReads, ChildWrites)

-----------------------------------------------------------------------------
(* The numbers                                                             *)

Sent == got \o inbuf \o pipe

\* Some process can read the pipe, some process can write to it.
Readable == Held("read end")
Writable == Held("write end")

\* The parent's writes have nowhere to go: its standard output was closed when
\* the program was started, and is again.
NoStdout == program = "redirect" /\ pipefd[2] = STDOUT

DataTypes ==
  /\ i \in 0 .. Len(Numbers)
  /\ pipe \in Seq(Nat) /\ inbuf \in Seq(Nat) /\ got \in Seq(Nat) /\ Len(pipe) <= CAPACITY
  /\ program = "numbers" => inbuf = <<>>
  /\ pc["parent"] = "pipe" => i = 0 /\ Len(Sent) = 0

\* What has been sent is the beginning of the numbers, and all of those counted
\* as long as somebody can read them.
InOrder ==
  /\ Len(Sent) <= i
  /\ \A k \in 1 .. Len(Sent) : Sent[k] = Numbers[k]
  /\ Readable /\ ~NoStdout => Len(Sent) = i

\* The child exits at the end of the stream, the parent's loop ends with the
\* numbers or with its reader.
NothingLeft == inbuf = <<>> /\ pipe = <<>> /\ ~Writable /\ pc["parent"] # "pipe"
AtTheEnd ==
  /\ pc["child"] = "exited" => NoStdin \/ NothingLeft
  /\ pc["parent"] = "break" => pc["child"] = "killed"
  /\ pc["parent"] \in {"wait", "exited"} =>
       pc["child"] = "killed" \/ NoStdin \/ Len(Sent) = Len(Numbers)

\* The two counts of the other program.
Counting ==
  /\ program = "numbers" => val = Value(i) /\ expected = Value(Len(got))
  /\ errors = FALSE

Data == DataTypes /\ InOrder /\ AtTheEnd /\ Counting

-----------------------------------------------------------------------------
(* What the calls do to descriptors                                        *)

\* close(),
LEMMA CloseHas ==
  ASSUME NEW f, NEW d \in Descriptors, NEW X, NEW Y, f \in [Descriptors -> Refs], Has(f, X, Y)
  PROVE  /\ [f EXCEPT ![d] = "none"] \in [Descriptors -> Refs]
         /\ Has([f EXCEPT ![d] = "none"], X \ {d}, Y \ {d})
BY DEF Has, Refs

\* dup2() of the read end,
LEMMA DupReadHas ==
  ASSUME NEW f, NEW o \in Descriptors, NEW n \in Descriptors, NEW X, NEW Y,
         f \in [Descriptors -> Refs], Has(f, X, Y), o \in X
  PROVE  /\ [f EXCEPT ![n] = f[o]] \in [Descriptors -> Refs]
         /\ Has([f EXCEPT ![n] = f[o]], X \cup {n}, Y \ {n})
<1>1. f[o] = "read end"
  BY DEF Has
<1> QED
  BY <1>1 DEF Has, Refs

\* dup2() of the write end,
LEMMA DupWriteHas ==
  ASSUME NEW f, NEW o \in Descriptors, NEW n \in Descriptors, NEW X, NEW Y,
         f \in [Descriptors -> Refs], Has(f, X, Y), o \in Y
  PROVE  /\ [f EXCEPT ![n] = f[o]] \in [Descriptors -> Refs]
         /\ Has([f EXCEPT ![n] = f[o]], X \ {n}, Y \cup {n})
<1>1. f[o] = "write end"
  BY DEF Has
<1> QED
  BY <1>1 DEF Has, Refs

\* the end of a process,
LEMMA ClosedHas == Closed \in [Descriptors -> Refs] /\ Has(Closed, {}, {})
BY DEF Closed, Has, Refs

\* and pipe().
LEMMA PipeHas ==
  ASSUME NEW f, NEW r \in Descriptors, NEW w \in Descriptors, r # w,
         f \in [Descriptors -> Refs], Has(f, {}, {})
  PROVE  /\ [f EXCEPT ![r] = "read end", ![w] = "write end"] \in [Descriptors -> Refs]
         /\ Has([f EXCEPT ![r] = "read end", ![w] = "write end"], {r}, {w})
BY DEF Has, Refs

\* The lowest of some descriptors.
LEMMA Lowest ==
  ASSUME NEW T, T \subseteq Descriptors, T # {}
  PROVE  Min(T) \in T /\ \A d \in T : Min(T) <= d
<1>1. \E m \in T : \A d \in T : m <= d
  <2>1. Descriptors = {0, 1, 2, 3, 4}
    BY DEF Descriptors
  <2>2. CASE 0 \in T
    BY <2>1, <2>2
  <2>3. CASE 0 \notin T /\ 1 \in T
    BY <2>1, <2>3
  <2>4. CASE 0 \notin T /\ 1 \notin T /\ 2 \in T
    BY <2>1, <2>4
  <2>5. CASE 0 \notin T /\ 1 \notin T /\ 2 \notin T /\ 3 \in T
    BY <2>1, <2>5
  <2>6. CASE T = {4}
    BY <2>6
  <2> QED
    BY <2>1, <2>2, <2>3, <2>4, <2>5, <2>6
<1> QED
  BY <1>1 DEF Min

\* The constants of the modules: processes, and the descriptors with a name.
LEMMA Names ==
  /\ Proc = {"parent", "child"} /\ STDIN = 0 /\ STDOUT = 1
  /\ STDIN \in Descriptors /\ STDOUT \in Descriptors /\ 3 \in Descriptors /\ 4 \in Descriptors
  /\ \A d \in Descriptors : d \in Nat
BY DEF Proc, STDIN, STDOUT, Descriptors

\* Somebody has an end of the pipe.
LEMMA HeldWhere ==
  ASSUME Wiring
  PROVE  /\ Held("read end") <=> ParentReads # {} \/ ChildReads # {}
         /\ Held("write end") <=> ParentWrites # {} \/ ChildWrites # {}
<1>1. /\ pipefd[1] \in Descriptors /\ pipefd[2] \in Descriptors
      /\ Has(fd["parent"], ParentReads, ParentWrites)
      /\ Has(fd["child"], ChildReads, ChildWrites)
  BY DEF Wiring, WireTypes
<1>2. /\ ParentReads \subseteq Descriptors /\ ParentWrites \subseteq Descriptors
      /\ ChildReads \subseteq Descriptors /\ ChildWrites \subseteq Descriptors
  BY <1>1, Names DEF ParentReads, ParentWrites, ChildReads, ChildWrites
<1>3. Held("read end") <=> \/ \E d \in Descriptors : d \in ParentReads
                           \/ \E d \in Descriptors : d \in ChildReads
  BY <1>1, Names DEF Held, Has
<1>4. Held("write end") <=> \/ \E d \in Descriptors : d \in ParentWrites
                            \/ \E d \in Descriptors : d \in ChildWrites
  BY <1>1, Names DEF Held, Has
<1> QED
  BY <1>2, <1>3, <1>4

-----------------------------------------------------------------------------
(* The descriptors, step by step                                           *)

\* The shell may have closed descriptors, but has no pipe.
LEMMA WiringInit == NInit => Wiring
<1> SUFFICES ASSUME NInit PROVE Wiring
  OBVIOUS
<1> USE DEF NInit, Init
<1>1. PICK open \in OpenSets :
        fd = [p \in Proc |-> [d \in Descriptors |->
                IF p = "parent" /\ d \in open THEN "tty" ELSE "none"]]
  OBVIOUS
<1>2. open \subseteq 0 .. 2
  BY RedirectAssumption
<1>3. pc["parent"] = "pipe" /\ pc["child"] = "none" /\ pipefd = <<3, 4>>
  BY Names
<1>4. WireTypes
  <2>1. fd \in [Proc -> [Descriptors -> Refs]]
    BY <1>1 DEF Refs
  <2>2. pipefd \in Descriptors \X Descriptors /\ pipefd[1] < pipefd[2]
    BY <1>3, Names
  <2>3. pc \in [Proc -> ParentSteps \cup ChildSteps]
    BY DEF ParentSteps, ChildSteps
  <2> QED
    BY <1>3, <2>1, <2>2, <2>3 DEF WireTypes, ParentSteps, ChildSteps
<1>5. Order
  <2>1. \A d \in {3, 4} : fd["parent"][d] = "none"
    BY <1>1, <1>2, Names
  <2> QED
    BY <1>3, <2>1 DEF Order
<1>6. Has(fd["parent"], {}, {}) /\ Has(fd["child"], {}, {})
  BY <1>1, Names DEF Has
<1> QED
  BY <1>3, <1>4, <1>5, <1>6
  DEF Wiring, ParentReads, ParentWrites, ChildReads, ChildWrites

\* A step of the parent from l to next, with the descriptors f.
ParentMoves(l, next, f) ==
  /\ pc["parent"] = l /\ pc' = [pc EXCEPT !["parent"] = next]
  /\ fd' = [fd EXCEPT !["parent"] = f]
  /\ UNCHANGED <<program, sigpipe>>

\* The wiring after it, if f has the ends where they should be.
LEMMA ParentWiring ==
  ASSUME Wiring, NEW l, NEW next \in ParentSteps, NEW f, ParentMoves(l, next, f),
         f \in [Descriptors -> Refs], Has(f, ParentReads', ParentWrites'),
         pipefd' = pipefd \/ (l = "pipe" /\ pc["child"] = "none"),
         pipefd' \in Descriptors \X Descriptors /\ pipefd'[1] < pipefd'[2],
         Order'
  PROVE  Wiring'
<1>1. /\ pc \in [Proc -> ParentSteps \cup ChildSteps] /\ fd \in [Proc -> [Descriptors -> Refs]]
      /\ "parent" \in Proc /\ "child" \in Proc /\ "parent" # "child"
  BY Names DEF Wiring, WireTypes
<1>2. /\ pc'["parent"] = next /\ pc'["child"] = pc["child"]
      /\ fd'["parent"] = f /\ fd'["child"] = fd["child"]
  BY <1>1 DEF ParentMoves
<1>3. WireTypes'
  <2>1. pc' \in [Proc -> ParentSteps \cup ChildSteps]
    BY <1>1 DEF ParentMoves
  <2>2. fd' \in [Proc -> [Descriptors -> Refs]]
    BY <1>1 DEF ParentMoves
  <2> QED
    BY <1>2, <2>1, <2>2 DEF Wiring, WireTypes, ParentMoves
<1>4. ChildReads' = ChildReads /\ ChildWrites' = ChildWrites
  BY <1>2 DEF ChildReads, ChildWrites
<1> QED
  BY <1>2, <1>3, <1>4 DEF Wiring

\* The same for the child.
ChildMoves(l, next, f) ==
  /\ pc["child"] = l /\ pc' = [pc EXCEPT !["child"] = next]
  /\ fd' = [fd EXCEPT !["child"] = f]
  /\ UNCHANGED <<program, sigpipe, pipefd>>

\* The wiring after a step of the child, likewise.
LEMMA ChildWiring ==
  ASSUME Wiring, NEW l, NEW next \in ChildSteps, NEW f, ChildMoves(l, next, f),
         f \in [Descriptors -> Refs], Has(f, ChildReads', ChildWrites'),
         Order'
  PROVE  Wiring'
<1>1. /\ pc \in [Proc -> ParentSteps \cup ChildSteps] /\ fd \in [Proc -> [Descriptors -> Refs]]
      /\ "parent" \in Proc /\ "child" \in Proc /\ "parent" # "child"
  BY Names DEF Wiring, WireTypes
<1>2. /\ pc'["child"] = next /\ pc'["parent"] = pc["parent"]
      /\ fd'["child"] = f /\ fd'["parent"] = fd["parent"]
  BY <1>1 DEF ChildMoves
<1>3. WireTypes'
  <2>1. pc' \in [Proc -> ParentSteps \cup ChildSteps]
    BY <1>1 DEF ChildMoves
  <2>2. fd' \in [Proc -> [Descriptors -> Refs]]
    BY <1>1 DEF ChildMoves
  <2> QED
    BY <1>2, <2>1, <2>2 DEF Wiring, WireTypes, ChildMoves
<1>4. ParentReads' = ParentReads /\ ParentWrites' = ParentWrites
  BY <1>2 DEF ParentReads, ParentWrites, ChildMoves
<1> QED
  BY <1>2, <1>3, <1>4 DEF Wiring, ChildMoves

\* Neither a step nor a descriptor changes.
LEMMA StaysWired ==
  ASSUME Wiring, UNCHANGED <<program, sigpipe, pc, fd, pipefd>>
  PROVE  Wiring' /\ Held("read end")' = Held("read end") /\ Held("write end")' = Held("write end")
<1>1. WireTypes' /\ Order'
  BY DEF Wiring, WireTypes, Order
<1>2. /\ ParentReads' = ParentReads /\ ParentWrites' = ParentWrites
      /\ ChildReads' = ChildReads /\ ChildWrites' = ChildWrites
  BY DEF ParentReads, ParentWrites, ChildReads, ChildWrites
<1>3. Held("read end")' = Held("read end") /\ Held("write end")' = Held("write end")
  BY DEF Held
<1> QED
  BY <1>1, <1>2, <1>3 DEF Wiring

\* The parent returns, exits or is killed.
LEMMA ParentQuits ==
  ASSUME Wiring, NEW how \in Dead, Quit("parent", how), UNCHANGED <<program, sigpipe, pipefd>>,
         how = "failed" => pc["child"] = "none", how = "exited" => pc["child"] \in Dead
  PROVE  Wiring'
<1>0. /\ how \in ParentSteps /\ ParentMoves(pc["parent"], how, Closed)
      /\ Closed \in [Descriptors -> Refs] /\ Has(Closed, {}, {})
      /\ pipefd \in Descriptors \X Descriptors /\ pipefd[1] < pipefd[2]
      /\ pc \in [Proc -> ParentSteps \cup ChildSteps]
  BY ClosedHas DEF Dead, ParentSteps, ParentMoves, Quit, Goto, Wiring, WireTypes
<1>1. pc'["parent"] = how /\ pc'["child"] = pc["child"]
  BY <1>0, Names DEF ParentMoves
<1>2. ParentReads' = {} /\ ParentWrites' = {}
  BY <1>1 DEF ParentReads, ParentWrites, Dead
<1>3. Order'
  <2>1. how = "failed" \/ how = "exited" \/ how = "killed"
    BY DEF Dead
  <2>2. Order
    BY DEF Wiring
  <2> QED
    BY <1>1, <2>1, <2>2 DEF Order
<1>4. /\ Has(Closed, ParentReads', ParentWrites')
      /\ pipefd' = pipefd \/ (pc["parent"] = "pipe" /\ pc["child"] = "none")
      /\ pipefd' \in Descriptors \X Descriptors /\ pipefd'[1] < pipefd'[2]
  BY <1>0, <1>2
<1> QED
  BY <1>0, <1>3, <1>4, ParentWiring

\* The child returns, exits or is killed.
LEMMA ChildQuits ==
  ASSUME Wiring, NEW how \in {"exited", "killed"}, Quit("child", how), pc["child"] # "none",
         UNCHANGED <<program, sigpipe, pipefd>>
  PROVE  Wiring'
<1>0. /\ how \in ChildSteps /\ ChildMoves(pc["child"], how, Closed) /\ how \in Dead
      /\ Closed \in [Descriptors -> Refs] /\ Has(Closed, {}, {})
      /\ pc \in [Proc -> ParentSteps \cup ChildSteps] /\ fd \in [Proc -> [Descriptors -> Refs]]
  BY ClosedHas DEF Dead, ChildSteps, ChildMoves, Quit, Goto, Wiring, WireTypes
<1>1. /\ pc'["child"] = how /\ pc'["parent"] = pc["parent"]
      /\ fd'["parent"] = fd["parent"]
  BY <1>0, Names DEF ChildMoves
<1>2. ChildReads' = {} /\ ChildWrites' = {}
  BY <1>1 DEF ChildReads, ChildWrites
<1>3. Order'
  BY <1>0, <1>1 DEF Order, Wiring
<1> QED
  BY <1>0, <1>2, <1>3, ChildWiring

\* pipe() takes two free descriptors, the lower one for reading; 3 and 4 are free.
LEMMA PipeWiring == ASSUME Wiring, P_Pipe PROVE Wiring'
<1> DEFINE free == {d \in Descriptors : fd["parent"][d] = "none"}
           r == Min(free)
           w == Min(free \ {r})
<1>0. /\ pc["parent"] = "pipe" /\ pc["child"] = "none" /\ UNCHANGED <<program, sigpipe>>
      /\ fd \in [Proc -> [Descriptors -> Refs]] /\ pc \in [Proc -> ParentSteps \cup ChildSteps]
      /\ 3 \in free /\ 4 \in free
      /\ Has(fd["parent"], {}, {})
  BY Names DEF P_Pipe, env, Wiring, WireTypes, Order, ParentReads, ParentWrites
<1>1. CASE Quit("parent", "failed") /\ UNCHANGED pipefd
  BY <1>0, <1>1, ParentQuits DEF Dead
<1>2. CASE /\ pipefd' = <<r, w>>
           /\ fd' = [fd EXCEPT !["parent"] = [@ EXCEPT ![r] = "read end", ![w] = "write end"]]
           /\ Goto("parent", "fork")
  <2>1. r \in free /\ \A d \in free : r <= d
    <3>1. free \subseteq Descriptors /\ free # {}
      BY <1>0
    <3> HIDE DEF free
    <3> QED
      BY <3>1, Lowest
  <2>2. w \in free \ {r}
    <3> HIDE DEF r
    <3>1. free \ {r} \subseteq Descriptors /\ free \ {r} # {}
      BY <1>0
    <3> HIDE DEF free
    <3> QED
      BY <3>1, Lowest
  <2> HIDE DEF r, w
  <2>3. /\ r \in Descriptors /\ w \in Descriptors /\ r < w /\ r # w
    <3>1. free \subseteq Descriptors
      OBVIOUS
    <3> HIDE DEF free
    <3>2. r \in Descriptors /\ w \in Descriptors /\ r <= w /\ r # w
      BY <2>1, <2>2, <3>1
    <3> QED
      BY <3>2, Names
  <2> DEFINE f == [fd["parent"] EXCEPT ![r] = "read end", ![w] = "write end"]
  <2>4. f \in [Descriptors -> Refs] /\ Has(f, {r}, {w})
    <3>1. fd["parent"] \in [Descriptors -> Refs]
      BY <1>0, Names
    <3> QED
      BY <1>0, <2>3, <3>1, PipeHas
  <2>5. ParentMoves("pipe", "fork", f)
    BY <1>0, <1>2, Names DEF ParentMoves, Goto
  <2> HIDE DEF f
  <2>6. pc'["parent"] = "fork" /\ pc'["child"] = "none" /\ pipefd'[1] = r /\ pipefd'[2] = w
    BY <1>0, <1>2, <2>5, Names DEF ParentMoves
  <2>7. ParentReads' = {r} /\ ParentWrites' = {w}
    BY <2>6 DEF ParentReads, ParentWrites
  <2>8. Order'
    BY <2>6 DEF Order
  <2>9. pipefd' \in Descriptors \X Descriptors /\ pipefd'[1] < pipefd'[2]
    BY <1>2, <2>3
  <2>10. "fork" \in ParentSteps
    BY DEF ParentSteps
  <2> QED
    BY <1>0, <2>4, <2>5, <2>7, <2>8, <2>9, <2>10, ParentWiring
<1> QED
  BY <1>1, <1>2 DEF P_Pipe

\* fork() copies the descriptors, or fails.
LEMMA ForkWiring == ASSUME Wiring, P_Fork PROVE Wiring'
<1>0. /\ pc["parent"] = "fork" /\ pc["child"] = "none"
      /\ UNCHANGED <<program, sigpipe, pipefd>>
      /\ fd \in [Proc -> [Descriptors -> Refs]]
      /\ Has(fd["parent"], {pipefd[1]}, {pipefd[2]})
      /\ WireTypes
  BY DEF P_Fork, env, Wiring, WireTypes, Order, ParentReads, ParentWrites
<1>1. CASE Quit("parent", "failed")
  BY <1>0, <1>1, ParentQuits DEF Dead
<1>2. CASE /\ pc' = [p \in Proc |-> IF p = "parent" THEN "close read end"
                                                     ELSE "close write end"]
           /\ fd' = [fd EXCEPT !["child"] = fd["parent"]]
  <2>1. /\ pc'["parent"] = "close read end" /\ pc'["child"] = "close write end"
        /\ pc' \in [Proc -> ParentSteps \cup ChildSteps]
    BY <1>2, Names DEF ParentSteps, ChildSteps
  <2>2. /\ fd' \in [Proc -> [Descriptors -> Refs]]
        /\ fd'["parent"] = fd["parent"] /\ fd'["child"] = fd["parent"]
    BY <1>0, <1>2, Names
  <2>3. WireTypes'
    BY <1>0, <2>1, <2>2 DEF WireTypes, ParentSteps, ChildSteps
  <2>4. Order'
    BY <2>1 DEF Order
  <2>5. /\ ParentReads' = {pipefd[1]} /\ ParentWrites' = {pipefd[2]}
        /\ ChildReads' = {pipefd[1]} /\ ChildWrites' = {pipefd[2]}
    BY <1>0, <2>1 DEF ParentReads, ParentWrites, ChildReads, ChildWrites
  <2> QED
    BY <1>0, <2>2, <2>3, <2>4, <2>5 DEF Wiring
<1> QED
  BY <1>1, <1>2 DEF P_Fork

\* The parent closes a descriptor and goes on.
LEMMA ParentCloses ==
  ASSUME Wiring, NEW next \in ParentSteps, NEW d \in Descriptors,
         Goto("parent", next), Close("parent", d), UNCHANGED <<program, sigpipe, pipefd>>,
         ParentReads' = ParentReads \ {d}, ParentWrites' = ParentWrites \ {d}, Order'
  PROVE  Wiring'
<1> DEFINE f == [fd["parent"] EXCEPT ![d] = "none"]
<1>1. /\ fd \in [Proc -> [Descriptors -> Refs]] /\ "parent" \in Proc
      /\ Has(fd["parent"], ParentReads, ParentWrites)
      /\ pipefd \in Descriptors \X Descriptors /\ pipefd[1] < pipefd[2]
  BY Names DEF Wiring, WireTypes
<1>2. f \in [Descriptors -> Refs] /\ Has(f, ParentReads', ParentWrites')
  <2>1. fd["parent"] \in [Descriptors -> Refs]
    BY <1>1
  <2> QED
    BY <1>1, <2>1, CloseHas
<1>3. ParentMoves(pc["parent"], next, f)
  BY DEF ParentMoves, Goto, Close
<1> HIDE DEF f
<1>4. /\ pipefd' = pipefd \/ (pc["parent"] = "pipe" /\ pc["child"] = "none")
      /\ pipefd' \in Descriptors \X Descriptors /\ pipefd'[1] < pipefd'[2]
  BY <1>1
<1> QED
  BY <1>2, <1>3, <1>4, ParentWiring

\* The same for the child.
LEMMA ChildCloses ==
  ASSUME Wiring, NEW next \in ChildSteps, NEW d \in Descriptors,
         Goto("child", next), Close("child", d), UNCHANGED <<program, sigpipe, pipefd>>,
         ChildReads' = ChildReads \ {d}, ChildWrites' = ChildWrites \ {d}, Order'
  PROVE  Wiring'
<1> DEFINE f == [fd["child"] EXCEPT ![d] = "none"]
<1>1. /\ fd \in [Proc -> [Descriptors -> Refs]] /\ "child" \in Proc
      /\ Has(fd["child"], ChildReads, ChildWrites)
  BY Names DEF Wiring, WireTypes
<1>2. f \in [Descriptors -> Refs] /\ Has(f, ChildReads', ChildWrites')
  <2>1. fd["child"] \in [Descriptors -> Refs]
    BY <1>1
  <2> QED
    BY <1>1, <2>1, CloseHas
<1>3. ChildMoves(pc["child"], next, f)
  BY DEF ChildMoves, Goto, Close
<1> HIDE DEF f
<1> QED
  BY <1>2, <1>3, ChildWiring

\* What a step of one process does to pc.
LEMMA PcAfter ==
  ASSUME Wiring
  PROVE  /\ \A l : Goto("parent", l) => pc'["parent"] = l /\ pc'["child"] = pc["child"]
         /\ \A l : Goto("child", l) => pc'["child"] = l /\ pc'["parent"] = pc["parent"]
         /\ pipefd[1] \in Descriptors /\ pipefd[2] \in Descriptors /\ pipefd[1] < pipefd[2]
         /\ pipefd[1] # pipefd[2] /\ Order /\ WireTypes
<1>1. pc \in [Proc -> ParentSteps \cup ChildSteps]
  BY DEF Wiring, WireTypes
<1>2. /\ \A l : Goto("parent", l) => pc'["parent"] = l /\ pc'["child"] = pc["child"]
      /\ \A l : Goto("child", l) => pc'["child"] = l /\ pc'["parent"] = pc["parent"]
  BY <1>1, Names DEF Goto
<1>3. Order /\ WireTypes
  BY DEF Wiring
<1>4. pipefd[1] \in Descriptors /\ pipefd[2] \in Descriptors /\ pipefd[1] < pipefd[2]
  BY <1>3 DEF WireTypes
<1>5. pipefd[1] # pipefd[2]
  <2>1. pipefd[1] \in Nat /\ pipefd[2] \in Nat
    BY <1>4, Names
  <2> QED
    BY <1>4, <2>1
<1> QED
  BY <1>2, <1>3, <1>4, <1>5

\* The parent's calls of close() (6.2_f.c:84, 92, 115; 6.2_1.c).
LEMMA ParentClosesWiring ==
  ASSUME Wiring, P_CloseRead \/ P_CloseWrite \/ P_CloseOut \/ W_Close
  PROVE  Wiring'
<1>0. UNCHANGED <<program, sigpipe, pipefd>>
  BY DEF P_CloseRead, P_CloseWrite, P_CloseOut, W_Close, env
<1> USE PcAfter, Names
<1>1. CASE P_CloseRead
  <2>1. /\ pc["parent"] = "close read end" /\ pc'["parent"] = "ready" /\ pc'["child"] = pc["child"]
        /\ Goto("parent", "ready") /\ Close("parent", pipefd[1])
    BY <1>1 DEF P_CloseRead
  <2>2. ParentReads' = ParentReads \ {pipefd[1]} /\ ParentWrites' = ParentWrites \ {pipefd[1]}
    BY <1>0, <2>1 DEF ParentReads, ParentWrites
  <2>3. Order' /\ "ready" \in ParentSteps
    BY <2>1, <1>0 DEF Order, ParentSteps
  <2> QED
    BY <1>0, <2>1, <2>2, <2>3, ParentCloses
<1>2. CASE P_CloseWrite
  <2>1. /\ pc["parent"] = "close write end" /\ pc'["parent"] = "write" /\ pc'["child"] = pc["child"]
        /\ Goto("parent", "write") /\ Close("parent", pipefd[2])
    BY <1>2 DEF P_CloseWrite
  <2>2. ParentReads' = ParentReads \ {pipefd[2]} /\ ParentWrites' = ParentWrites \ {pipefd[2]}
    BY <1>0, <2>1 DEF ParentReads, ParentWrites
  <2>3. Order' /\ "write" \in ParentSteps
    BY <2>1, <1>0 DEF Order, ParentSteps
  <2> QED
    BY <1>0, <2>1, <2>2, <2>3, ParentCloses
<1>3. CASE P_CloseOut
  <2>1. /\ pc["parent"] = "write" /\ pc'["parent"] = "wait" /\ pc'["child"] = pc["child"]
        /\ Goto("parent", "wait") /\ Close("parent", STDOUT)
    BY <1>3 DEF P_CloseOut
  <2>2. ParentReads' = ParentReads \ {STDOUT} /\ ParentWrites' = ParentWrites \ {STDOUT}
    BY <1>0, <2>1 DEF ParentReads, ParentWrites
  <2>3. Order' /\ "wait" \in ParentSteps
    BY <2>1, <1>0 DEF Order, ParentSteps
  <2> QED
    BY <1>0, <2>1, <2>2, <2>3, ParentCloses
<1>4. CASE W_Close
  <2>1. /\ pc["parent"] \in {"ready", "break"} /\ pc'["parent"] = "wait"
        /\ pc'["child"] = pc["child"] /\ Goto("parent", "wait") /\ Close("parent", pipefd[2])
    BY <1>4 DEF W_Close
  <2>2. ParentReads' = ParentReads \ {pipefd[2]} /\ ParentWrites' = ParentWrites \ {pipefd[2]}
    BY <1>0, <2>1 DEF ParentReads, ParentWrites
  <2>3. Order' /\ "wait" \in ParentSteps
    BY <2>1, <1>0 DEF Order, ParentSteps
  <2> QED
    BY <1>0, <2>1, <2>2, <2>3, ParentCloses
<1> QED
  BY <1>1, <1>2, <1>3, <1>4

\* The child's (6.2_f.c:61, 70).
LEMMA ChildClosesWiring ==
  ASSUME Wiring, C_CloseWrite \/ C_CloseRead
  PROVE  Wiring'
<1>0. UNCHANGED <<program, sigpipe, pipefd>>
  BY DEF C_CloseWrite, C_CloseRead, env
<1> USE PcAfter, Names
<1>1. CASE C_CloseWrite
  <2>1. /\ pc["child"] = "close write end" /\ pc'["child"] = "ready" /\ pc'["parent"] = pc["parent"]
        /\ Goto("child", "ready") /\ Close("child", pipefd[2])
    BY <1>1 DEF C_CloseWrite
  <2>2. ChildReads' = ChildReads \ {pipefd[2]} /\ ChildWrites' = ChildWrites \ {pipefd[2]}
    BY <1>0, <2>1 DEF ChildReads, ChildWrites
  <2>3. pc'["parent"] # "pipe"
    BY <2>1 DEF Order
  <2>4. Order' /\ "ready" \in ChildSteps
    BY <2>1, <2>3, <1>0 DEF Order, ChildSteps, Dead
  <2> QED
    BY <1>0, <2>1, <2>2, <2>4, ChildCloses
<1>2. CASE C_CloseRead
  <2>1. /\ pc["child"] = "close read end" /\ pc'["child"] = "scan" /\ pc'["parent"] = pc["parent"]
        /\ Goto("child", "scan") /\ Close("child", pipefd[1])
    BY <1>2 DEF C_CloseRead
  <2>2. ChildReads' = ChildReads \ {pipefd[1]} /\ ChildWrites' = ChildWrites \ {pipefd[1]}
    BY <1>0, <2>1 DEF ChildReads, ChildWrites
  <2>3. pc'["parent"] # "pipe"
    BY <2>1 DEF Order
  <2>4. Order' /\ "scan" \in ChildSteps
    BY <2>1, <2>3, <1>0 DEF Order, ChildSteps, Dead
  <2> QED
    BY <1>0, <2>1, <2>2, <2>4, ChildCloses
<1> QED
  BY <1>1, <1>2

\* The two redirections (6.2_f.c:65, 87).
LEMMA DupWiring ==
  ASSUME Wiring, P_Dup2 \/ C_Dup2
  PROVE  Wiring'
<1>0. /\ UNCHANGED <<program, sigpipe, pipefd>> /\ program = "redirect"
      /\ fd \in [Proc -> [Descriptors -> Refs]]
      /\ Has(fd["parent"], ParentReads, ParentWrites)
      /\ Has(fd["child"], ChildReads, ChildWrites)
      /\ pipefd \in Descriptors \X Descriptors /\ pipefd[1] < pipefd[2]
  BY DEF P_Dup2, C_Dup2, env, Wiring, WireTypes
<1> USE PcAfter, Names
<1>1. CASE P_Dup2
  <2> DEFINE f == [fd["parent"] EXCEPT ![STDOUT] = fd["parent"][pipefd[2]]]
  <2>1. /\ pc["parent"] = "ready" /\ pc'["parent"] = "close write end"
        /\ pc'["child"] = pc["child"]
        /\ Goto("parent", "close write end") /\ Dup2("parent", pipefd[2], STDOUT)
    BY <1>1 DEF P_Dup2
  <2>2. /\ ParentReads = {} /\ ParentWrites = {pipefd[2]}
        /\ ParentReads' = {} \ {STDOUT} /\ ParentWrites' = {pipefd[2]} \cup {STDOUT}
    BY <1>0, <2>1 DEF ParentReads, ParentWrites
  <2>3. f \in [Descriptors -> Refs] /\ Has(f, ParentReads', ParentWrites')
    <3>1. fd["parent"] \in [Descriptors -> Refs] /\ Has(fd["parent"], {}, {pipefd[2]})
      BY <1>0, <2>2
    <3> QED
      BY <2>2, <3>1, DupWriteHas
  <2>4. ParentMoves("ready", "close write end", f)
    BY <1>0, <2>1 DEF ParentMoves, Goto, Dup2
  <2>5. Order' /\ "close write end" \in ParentSteps
    BY <2>1, <1>0 DEF Order, ParentSteps
  <2> HIDE DEF f
  <2>6. /\ pipefd' = pipefd \/ ("ready" = "pipe" /\ pc["child"] = "none")
        /\ pipefd' \in Descriptors \X Descriptors /\ pipefd'[1] < pipefd'[2]
    BY <1>0
  <2> QED
    BY <2>3, <2>4, <2>5, <2>6, ParentWiring
<1>2. CASE C_Dup2
  <2> DEFINE f == [fd["child"] EXCEPT ![STDIN] = fd["child"][pipefd[1]]]
  <2>1. /\ pc["child"] = "ready" /\ pc'["child"] = "close read end"
        /\ pc'["parent"] = pc["parent"]
        /\ Goto("child", "close read end") /\ Dup2("child", pipefd[1], STDIN)
    BY <1>2 DEF C_Dup2
  <2>2. /\ ChildReads = {pipefd[1]} /\ ChildWrites = {}
        /\ ChildReads' = {pipefd[1]} \cup {STDIN} /\ ChildWrites' = {} \ {STDIN}
    BY <1>0, <2>1 DEF ChildReads, ChildWrites
  <2>3. f \in [Descriptors -> Refs] /\ Has(f, ChildReads', ChildWrites')
    <3>1. fd["child"] \in [Descriptors -> Refs] /\ Has(fd["child"], {pipefd[1]}, {})
      BY <1>0, <2>2
    <3> QED
      BY <2>2, <3>1, DupReadHas
  <2>4. ChildMoves("ready", "close read end", f)
    BY <1>0, <2>1 DEF ChildMoves, Goto, Dup2
  <2>5. pc'["parent"] # "pipe"
    BY <2>1 DEF Order
  <2>6. Order' /\ "close read end" \in ChildSteps
    BY <2>1, <2>5, <1>0 DEF Order, ChildSteps, Dead
  <2> HIDE DEF f
  <2> QED
    BY <2>3, <2>4, <2>6, ChildWiring
<1> QED
  BY <1>1, <1>2

\* A pass of a writer's loop: it writes or does not, is killed, or breaks off
\* (6.2_f.c:95-112, 6.2_1.c).
LEMMA WriteWiring == ASSUME Wiring, P_Write \/ W_Write PROVE Wiring'
<1>0. UNCHANGED <<program, sigpipe, pipefd>>
  BY DEF P_Write, W_Write, env
<1>1. CASE UNCHANGED <<pc, fd>>
  BY <1>0, <1>1, StaysWired
<1>2. CASE Quit("parent", "killed")
  BY <1>0, <1>2, ParentQuits DEF Dead
<1>3. CASE W_Write /\ Goto("parent", "break") /\ UNCHANGED fd
  <2>1. /\ program = "numbers" /\ pc["parent"] = "ready" /\ UNCHANGED <<program, sigpipe, pipefd>>
        /\ Goto("parent", "break") /\ UNCHANGED fd
    BY <1>3, <1>0 DEF W_Write
  <2>2. pc'["parent"] = "break" /\ pc'["child"] = pc["child"] /\ Order /\ WireTypes
    BY <2>1, PcAfter
  <2>3. Order'
    BY <2>1, <2>2 DEF Order
  <2>4. WireTypes'
    <3>1. pc' \in [Proc -> ParentSteps \cup ChildSteps]
      BY <2>1, <2>2 DEF WireTypes, Goto, ParentSteps
    <3> QED
      BY <2>1, <2>2, <3>1 DEF WireTypes, ParentSteps
  <2>5. /\ ParentReads' = ParentReads /\ ParentWrites' = ParentWrites
        /\ ChildReads' = ChildReads /\ ChildWrites' = ChildWrites
    BY <2>1, <2>2 DEF ParentReads, ParentWrites, ChildReads, ChildWrites
  <2> QED
    BY <2>1, <2>3, <2>4, <2>5 DEF Wiring
<1> QED
  BY <1>1, <1>2, <1>3 DEF P_Write, W_Write

\* A process ends by itself or is killed.
LEMMA EndWiring ==
  ASSUME Wiring, P_Wait \/ C_Eof \/ R_End \/ \E p \in Proc : Kill(p)
  PROVE  Wiring'
<1>1. CASE P_Wait
  BY <1>1, ParentQuits DEF P_Wait, env, Dead
<1>2. CASE C_Eof
  BY <1>2, ChildQuits DEF C_Eof, env
<1>3. CASE R_End
  BY <1>3, ChildQuits DEF R_End, env
<1>4. ASSUME NEW p \in Proc, Kill(p) PROVE Wiring'
  <2>1. Quit(p, "killed") /\ UNCHANGED <<program, sigpipe, pipefd>> /\ pc[p] # "none"
    BY <1>4 DEF Kill, env
  <2>2. CASE p = "parent"
    BY <2>1, <2>2, ParentQuits DEF Dead
  <2>3. CASE p = "child"
    BY <2>1, <2>3, ChildQuits
  <2> QED
    BY <2>2, <2>3, Names
<1> QED
  BY <1>1, <1>2, <1>3, <1>4

\* The reader's steps leave the descriptors alone.
LEMMA ReadWiring == ASSUME Wiring, C_Fill \/ C_Scan \/ R_Read PROVE Wiring'
<1>1. UNCHANGED <<program, sigpipe, pc, fd, pipefd>>
  BY DEF C_Fill, C_Scan, R_Read, env
<1> QED
  BY <1>1, StaysWired

\* Any step.
LEMMA WiringNext == ASSUME Wiring, [NNext]_<<vars, numbers>> PROVE Wiring'
<1>1. CASE P_Pipe
  BY <1>1, PipeWiring
<1>2. CASE P_Fork
  BY <1>2, ForkWiring
<1>3. CASE P_CloseRead \/ P_CloseWrite \/ P_CloseOut \/ W_Close
  BY <1>3, ParentClosesWiring
<1>4. CASE C_CloseWrite \/ C_CloseRead
  BY <1>4, ChildClosesWiring
<1>5. CASE P_Dup2 \/ C_Dup2
  BY <1>5, DupWiring
<1>6. CASE P_Write \/ W_Write
  BY <1>6, WriteWiring
<1>7. CASE P_Wait \/ C_Eof \/ R_End \/ \E p \in Proc : Kill(p)
  BY <1>7, EndWiring
<1>8. CASE C_Fill \/ C_Scan \/ R_Read
  BY <1>8, ReadWiring
<1>9. CASE UNCHANGED <<vars, numbers>>
  <2>1. UNCHANGED <<program, sigpipe, pc, fd, pipefd>>
    BY <1>9 DEF vars, env
  <2> QED
    BY <2>1, StaysWired
<1> QED
  BY <1>1, <1>2, <1>3, <1>4, <1>5, <1>6, <1>7, <1>8, <1>9
  DEF NNext, NParent, NChild, Parent, Child

\* At every step of each process, each end of the pipe is where the program
\* means it to be, whatever descriptors pipe() has returned.
THEOREM WiringInvariance == NSpec => []Wiring
<1>1. NInit => Wiring
  BY WiringInit
<1>2. Wiring /\ [NNext]_<<vars, numbers>> => Wiring'
  BY WiringNext
<1> QED
  BY <1>1, <1>2, PTL DEF NSpec

-----------------------------------------------------------------------------
(* Sequences and remainders                                                *)

\* What is on its way, in one piece: its length and its elements.
LEMMA Pieces ==
  ASSUME NEW s \in Seq(Nat), NEW t \in Seq(Nat), NEW u \in Seq(Nat)
  PROVE  /\ s \o t \o u \in Seq(Nat)
         /\ Len(s \o t \o u) = Len(s) + Len(t) + Len(u)
         /\ Len(s) \in Nat /\ Len(t) \in Nat /\ Len(u) \in Nat
<1>1. s \o t \in Seq(Nat) /\ Len(s \o t) = Len(s) + Len(t)
  BY ConcatProperties
<1> DEFINE v == s \o t
<1>2. v \in Seq(Nat) /\ Len(v) = Len(s) + Len(t)
  BY <1>1
<1> HIDE DEF v
<1>3. v \o u \in Seq(Nat) /\ Len(v \o u) = Len(v) + Len(u)
  BY <1>2, ConcatProperties
<1>4. Len(s) \in Nat /\ Len(t) \in Nat /\ Len(u) \in Nat
  BY LenProperties
<1> QED
  BY <1>2, <1>3, <1>4 DEF v

\* A number goes into the pipe.
LEMMA Appended ==
  ASSUME NEW s \in Seq(Nat), NEW t \in Seq(Nat), NEW u \in Seq(Nat), NEW x \in Nat
  PROVE  s \o t \o Append(u, x) = Append(s \o t \o u, x)
<1> DEFINE v == s \o t
<1>1. v \in Seq(Nat)
  BY ConcatProperties
<1> HIDE DEF v
<1>2. v \o u \in Seq(Nat) /\ <<x>> \in Seq(Nat)
  BY <1>1, ConcatProperties
<1>3. \A w \in Seq(Nat) : Append(w, x) = w \o <<x>>
  BY AppendIsConcat
<1>4. \A w \in Seq(Nat) : (v \o u) \o w = v \o (u \o w)
  BY <1>1, ConcatAssociative, SMTT(30)
<1> QED
  BY <1>2, <1>3, <1>4 DEF v

\* The pipe's numbers move into an empty buffer.
LEMMA Moved ==
  ASSUME NEW s \in Seq(Nat), NEW u \in Seq(Nat)
  PROVE  s \o u \o <<>> = s \o <<>> \o u
<1>1. s \o u \in Seq(Nat)
  BY ConcatProperties
<1> QED
  BY <1>1, ConcatEmptySeq

\* The first number is taken out and received.
LEMMA TakenOut ==
  ASSUME NEW s \in Seq(Nat), NEW t \in Seq(Nat), t # <<>>
  PROVE  Append(s, Head(t)) \o Tail(t) = s \o t
<1>1. /\ Head(t) \in Nat /\ Tail(t) \in Seq(Nat) /\ <<Head(t)>> \in Seq(Nat)
      /\ Append(s, Head(t)) = s \o <<Head(t)>>
  BY HeadTailProperties, AppendIsConcat
<1>2. <<Head(t)>> \o Tail(t) = t
  <2>1. <<Head(t)>> \o Tail(t) \in Seq(Nat)
    BY <1>1, ConcatProperties
  <2>2. Len(<<Head(t)>> \o Tail(t)) = Len(t)
    BY <1>1, ConcatProperties, HeadTailProperties
  <2>3. \A k \in 1 .. Len(t) : (<<Head(t)>> \o Tail(t))[k] = t[k]
    BY <1>1, ConcatProperties, HeadTailProperties
  <2> QED
    BY <2>1, <2>2, <2>3, SeqEqual
<1>3. (s \o <<Head(t)>>) \o Tail(t) = s \o (<<Head(t)>> \o Tail(t))
  BY <1>1, ConcatAssociative, SMTT(30)
<1> QED
  BY <1>1, <1>2, <1>3

\* It is the one that follows what has been received.
LEMMA FollowsReceived ==
  ASSUME NEW s \in Seq(Nat), NEW t \in Seq(Nat), NEW u \in Seq(Nat), t # <<>>
  PROVE  /\ Len(s) < Len(s \o t \o u)
         /\ (s \o t \o u)[Len(s) + 1] = Head(t)
<1>1. /\ Len(t) \in Nat \ {0} /\ Len(s) \in Nat /\ Len(u) \in Nat
      /\ Head(t) = t[1]
  BY EmptySeq, LenProperties
<1> DEFINE v == s \o t
<1>2. v \in Seq(Nat) /\ Len(v) = Len(s) + Len(t) /\ v[Len(s) + 1] = t[1]
  <2>1. Len(s) + 1 \in 1 .. Len(s) + Len(t)
    BY <1>1
  <2> QED
    BY <1>1, <2>1, ConcatProperties
<1> HIDE DEF v
<1>3. Len(v \o u) = Len(v) + Len(u) /\ (v \o u)[Len(s) + 1] = v[Len(s) + 1]
  <2>1. Len(s) + 1 \in 1 .. Len(v) + Len(u) /\ Len(s) + 1 <= Len(v)
    BY <1>1, <1>2
  <2> QED
    BY <1>2, <2>1, ConcatProperties
<1> QED
  BY <1>1, <1>2, <1>3 DEF v

\* What % and \div are;
LEMMA Division ==
  ASSUME NEW a \in Int, NEW m \in Nat \ {0}
  PROVE  /\ a % m \in 0 .. m - 1 /\ a \div m \in Int
         /\ a = m * (a \div m) + (a % m)
<1>1. m \in Nat /\ m > 0
  OBVIOUS
<1>2. a = m * (a \div m) + (a % m)
  BY <1>1, Z3
<1> QED
  BY <1>2

\* a remainder is known by its bounds.
LEMMA Remainder ==
  ASSUME NEW a \in Int, NEW m \in Nat \ {0}, NEW k \in Int, NEW r \in 0 .. m - 1, a = m * k + r
  PROVE  a % m = r
OBVIOUS

\* Zero has none.
LEMMA ZeroRemainder == ASSUME NEW m \in Nat \ {0} PROVE 0 % m = 0
OBVIOUS

\* Some products.
LEMMA Multiples ==
  ASSUME NEW m \in Int, NEW k \in Int, NEW j \in Int
  PROVE  m * (k + 1) = m * k + m /\ m * (k - j) = m * k - m * j /\ (m * k) * j = m * (k * j)
OBVIOUS

\* The remainder of the next number.
LEMMA Successor ==
  ASSUME NEW a \in Int, NEW m \in Nat \ {0}
  PROVE  (a + 1) % m = IF a % m = m - 1 THEN 0 ELSE (a % m) + 1
<1>1. PICK k \in Int, r \in 0 .. m - 1 : a = m * k + r /\ a % m = r
  BY Division
<1>2. CASE r = m - 1
  <2>1. a + 1 = m * (k + 1) + 0
    BY <1>1, <1>2, Multiples
  <2>2. a + 1 \in Int /\ k + 1 \in Int /\ 0 \in 0 .. m - 1
    OBVIOUS
  <2>3. (a + 1) % m = 0
    BY <2>1, <2>2, Remainder, Zenon
  <2> QED
    BY <1>1, <1>2, <2>3
<1>3. CASE r # m - 1
  <2>1. a + 1 = m * k + (r + 1) /\ r + 1 \in 0 .. m - 1 /\ a + 1 \in Int
    BY <1>1, <1>3
  <2>2. (a + 1) % m = r + 1
    BY <2>1, Remainder, Zenon
  <2> QED
    BY <1>1, <1>3, <2>2
<1> QED
  BY <1>2, <1>3

\* After(v) is the value that follows v.
LEMMA AfterValue ==
  ASSUME NEW a \in Nat
  PROVE  After(Value(a)) = Value(a + 1)
<1>1. Modulus \in Nat \ {0} /\ UINT_MAX = Modulus - 1 /\ a \in Int
  BY PipeNumbersAssumption DEF Modulus
<1>2. (a + 1) % Modulus = IF a % Modulus = Modulus - 1 THEN 0 ELSE (a % Modulus) + 1
  BY <1>1, Successor, Zenon
<1> QED
  BY <1>1, <1>2, Zenon DEF After, Value

-----------------------------------------------------------------------------
(* Who can read and who can write                                          *)

\* Only pipe() makes an end of the pipe out of nothing: close(), dup2(), fork()
\* and the end of a process leave descriptors that were there, or none.
NoneNew ==
  \A p \in Proc, d \in Descriptors :
    fd'[p][d] = "none" \/ \E q \in Proc, e \in Descriptors : fd'[p][d] = fd[q][e]

\* That is every step but pipe() itself.
LEMMA NothingOpens ==
  ASSUME Wiring, NNext, ~P_Pipe
  PROVE  NoneNew
<1>0. fd \in [Proc -> [Descriptors -> Refs]] /\ pipefd[1] \in Descriptors /\ pipefd[2] \in Descriptors
  BY DEF Wiring, WireTypes
<1> USE Names
<1>1. ASSUME NEW p \in Proc, NEW d \in Descriptors, Close(p, d) PROVE NoneNew
  BY <1>0, <1>1 DEF NoneNew, Close
<1>2. ASSUME NEW p \in Proc, NEW o \in Descriptors, NEW n \in Descriptors, Dup2(p, o, n)
      PROVE  NoneNew
  BY <1>0, <1>2 DEF NoneNew, Dup2
<1>3. ASSUME NEW p \in Proc, NEW how, Quit(p, how) PROVE NoneNew
  BY <1>0, <1>3 DEF NoneNew, Quit, Closed
<1>4. CASE UNCHANGED fd
  BY <1>4 DEF NoneNew
<1>5. CASE fd' = [fd EXCEPT !["child"] = fd["parent"]]
  BY <1>0, <1>5 DEF NoneNew
<1>6. CASE P_CloseRead \/ P_CloseWrite \/ P_CloseOut \/ W_Close \/ C_CloseWrite \/ C_CloseRead
  BY <1>0, <1>1, <1>6 DEF P_CloseRead, P_CloseWrite, P_CloseOut, W_Close, C_CloseWrite, C_CloseRead
<1>7. CASE P_Dup2 \/ C_Dup2
  BY <1>0, <1>2, <1>7 DEF P_Dup2, C_Dup2
<1>8. CASE P_Fork
  BY <1>3, <1>5, <1>8 DEF P_Fork
<1>9. CASE P_Write \/ W_Write
  BY <1>3, <1>4, <1>9 DEF P_Write, W_Write
<1>10. CASE P_Wait \/ C_Eof \/ R_End \/ \E p \in Proc : Kill(p)
  BY <1>3, <1>10 DEF P_Wait, C_Eof, R_End, Kill
<1>11. CASE C_Fill \/ C_Scan \/ R_Read
  BY <1>4, <1>11 DEF C_Fill, C_Scan, R_Read
<1> QED
  BY <1>6, <1>7, <1>8, <1>9, <1>10, <1>11 DEF NNext, NParent, NChild, Parent, Child

\* So an end that nobody has stays closed for good.
LEMMA NoMoreEnds ==
  ASSUME Wiring, NNext, ~P_Pipe, NEW end \in {"read end", "write end"}, Held(end)'
  PROVE  Held(end)
<1>1. PICK p \in Proc, d \in Descriptors : fd'[p][d] = end
  BY DEF Held
<1>2. PICK q \in Proc, e \in Descriptors : fd'[p][d] = fd[q][e]
  BY <1>1, NothingOpens DEF NoneNew
<1> QED
  BY <1>1, <1>2 DEF Held

\* A parent that can write keeps the pipe open for writing; a child that lives
\* and has standard input keeps it open for reading.
LEMMA WhoHolds ==
  ASSUME Wiring
  PROVE  /\ pc["parent"] \in {"ready", "break"} => Writable
         /\ pc["parent"] = "write" /\ ~NoStdout => Writable /\ fd["parent"][STDOUT] = "write end"
         /\ pc["parent"] = "write" /\ NoStdout => fd["parent"][STDOUT] # "write end"
         /\ pc["child"] \in {"close write end", "ready", "close read end"} => Readable
         /\ pc["child"] = "scan" /\ ~NoStdin => Readable /\ fd["child"][STDIN] = "read end"
<1>1. /\ Has(fd["parent"], ParentReads, ParentWrites) /\ Has(fd["child"], ChildReads, ChildWrites)
      /\ WireTypes /\ Order
  BY DEF Wiring
<1>2. pc["parent"] \in {"ready", "break"} => Writable
  <2>1. SUFFICES ASSUME pc["parent"] \in {"ready", "break"} PROVE Writable
    OBVIOUS
  <2>2. ParentWrites = {pipefd[2]}
    BY <2>1 DEF ParentWrites
  <2> QED
    BY <2>2, HeldWhere DEF Writable
<1>3. ASSUME pc["parent"] = "write"
      PROVE  IF NoStdout THEN fd["parent"][STDOUT] # "write end"
             ELSE Writable /\ fd["parent"][STDOUT] = "write end"
  <2>1. ParentWrites = {STDOUT} \ {pipefd[2]} /\ program = "redirect"
    BY <1>1, <1>3 DEF ParentWrites, Order
  <2>2. fd["parent"][STDOUT] = "write end" <=> STDOUT \in ParentWrites
    BY <1>1, Names DEF Has
  <2> QED
    BY <2>1, <2>2, HeldWhere DEF NoStdout, Writable
<1>4. pc["child"] \in {"close write end", "ready", "close read end"} => Readable
  <2>1. SUFFICES ASSUME pc["child"] \in {"close write end", "ready", "close read end"}
                 PROVE  Readable
    OBVIOUS
  <2>2. pipefd[1] \in ChildReads
    BY <2>1 DEF ChildReads
  <2> QED
    BY <2>2, HeldWhere DEF Readable
<1>5. pc["child"] = "scan" /\ ~NoStdin => Readable /\ fd["child"][STDIN] = "read end"
  <2>1. SUFFICES ASSUME pc["child"] = "scan", ~NoStdin
                 PROVE  Readable /\ fd["child"][STDIN] = "read end"
    OBVIOUS
  <2>2. ChildReads = {STDIN} \ {pipefd[1]} /\ program = "redirect"
    BY <1>1, <2>1 DEF ChildReads, Order
  <2>3. STDIN \in ChildReads
    BY <2>1, <2>2 DEF NoStdin
  <2> QED
    BY <1>1, <2>3, HeldWhere, Names DEF Has, Readable
<1> QED
  BY <1>2, <1>3, <1>4, <1>5

\* Standard output is missing only if standard input is.
LEMMA NoStdoutNoStdin == ASSUME Wiring, NoStdout PROVE NoStdin
<1>1. pipefd[1] \in Nat /\ pipefd[1] < pipefd[2] /\ pipefd[2] = 1 /\ program = "redirect"
  BY Names DEF Wiring, WireTypes, NoStdout
<1> QED
  BY <1>1, Names DEF NoStdin

-----------------------------------------------------------------------------
(* The numbers, step by step                                               *)

\* Nothing has been sent, counted or read.
LEMMA DataInit == NInit => Data
<1> SUFFICES ASSUME NInit PROVE Data
  OBVIOUS
<1> USE DEF NInit, Init
<1>1. <<>> \in Seq(Nat) /\ Len(<<>>) = 0
  BY EmptySeq
<1>2. got = <<>> /\ inbuf = <<>> /\ pipe = <<>> /\ i = 0 /\ val = 0 /\ expected = 0
  OBVIOUS
<1>3. Sent = <<>>
  BY <1>1, <1>2, ConcatEmptySeq DEF Sent
<1>4. pc["parent"] = "pipe" /\ pc["child"] = "none"
  BY Names
<1>5. DataTypes
  <2>1. Len(Numbers) \in Nat /\ CAPACITY \in Nat
    BY RedirectAssumption, LenProperties
  <2>2. Len(Sent) = 0 /\ Len(pipe) = 0
    BY <1>1, <1>2, <1>3
  <2> QED
    BY <1>1, <1>2, <2>1, <2>2 DEF DataTypes
<1>6. InOrder
  BY <1>1, <1>2, <1>3 DEF InOrder
<1>7. AtTheEnd
  BY <1>4 DEF AtTheEnd
<1>8. Counting
  <2>1. Modulus \in Nat \ {0}
    BY PipeNumbersAssumption DEF Modulus
  <2>2. Value(0) = 0
    BY <2>1, ZeroRemainder DEF Value
  <2>3. Len(got) = 0 /\ errors = FALSE
    BY <1>1, <1>2
  <2> QED
    BY <1>2, <2>2, <2>3 DEF Counting
<1> QED
  BY <1>5, <1>6, <1>7, <1>8 DEF Data

\* A step that sends and receives nothing, before or after the pipe is made.
LEMMA DataStays ==
  ASSUME Wiring, Data, NNext, ~P_Pipe,
         UNCHANGED <<program, pipefd, i, pipe, inbuf, got, numbers>>,
         pc'["parent"] = "pipe" => pc["parent"] = "pipe",
         pc["child"] = "killed" => pc'["child"] = "killed",
         pc'["child"] = "exited" => pc["child"] = "exited" \/ NoStdin \/ NothingLeft,
         pc'["parent"] = "break" => pc["parent"] = "break" \/ pc["child"] = "killed",
         pc'["parent"] \in {"wait", "exited"} =>
           \/ pc["parent"] \in {"wait", "exited"}
           \/ pc["child"] = "killed" \/ NoStdin \/ Len(Sent) = Len(Numbers)
  PROVE  Data'
<1>1. DataTypes /\ InOrder /\ AtTheEnd /\ Counting
  BY DEF Data
<1>2. /\ Sent' = Sent /\ (NoStdin' <=> NoStdin) /\ (NoStdout' <=> NoStdout)
      /\ val' = val /\ expected' = expected /\ errors' = errors
  BY DEF Sent, NoStdin, NoStdout, numbers
<1>3. /\ Readable' => Readable
      /\ Writable' => Writable
  BY NoMoreEnds DEF Readable, Writable
<1>4. DataTypes'
  BY <1>1, <1>2 DEF DataTypes
<1>5. InOrder'
  <2>1. Len(Sent') <= i' /\ \A k \in 1 .. Len(Sent') : Sent'[k] = Numbers[k]
    BY <1>1, <1>2 DEF InOrder
  <2>2. Readable' /\ ~NoStdout' => Len(Sent') = i'
    BY <1>1, <1>2, <1>3 DEF InOrder
  <2> QED
    BY <2>1, <2>2 DEF InOrder
<1>6. AtTheEnd'
  <2>1. NothingLeft => NothingLeft'
    BY <1>3 DEF NothingLeft
  <2>2. pc'["child"] = "exited" => NoStdin' \/ NothingLeft'
    BY <1>1, <1>2, <2>1 DEF AtTheEnd
  <2>3. pc'["parent"] = "break" => pc'["child"] = "killed"
    BY <1>1 DEF AtTheEnd
  <2>4. pc'["parent"] \in {"wait", "exited"} =>
          pc'["child"] = "killed" \/ NoStdin' \/ Len(Sent') = Len(Numbers)
    BY <1>1, <1>2 DEF AtTheEnd
  <2> QED
    BY <2>2, <2>3, <2>4 DEF AtTheEnd
<1>7. Counting'
  BY <1>1, <1>2 DEF Counting
<1> QED
  BY <1>4, <1>5, <1>6, <1>7 DEF Data

\* pipe(): nothing has been sent, and there is no child.
LEMMA PipeData == ASSUME Wiring, Wiring', Data, P_Pipe, UNCHANGED numbers PROVE Data'
<1>1. DataTypes /\ InOrder /\ AtTheEnd /\ Counting /\ Order
  BY DEF Data, Wiring
<1>2. /\ pc["parent"] = "pipe" /\ pc["child"] = "none"
      /\ program' = program /\ Sent' = Sent /\ i' = i /\ pipe' = pipe /\ inbuf' = inbuf /\ got' = got
      /\ val' = val /\ expected' = expected /\ errors' = errors
      /\ i = 0 /\ Len(Sent) = 0
  BY <1>1 DEF P_Pipe, env, numbers, Sent, Order, DataTypes
<1>3. pc'["parent"] \in {"fork", "failed"} /\ pc'["child"] = "none"
  BY <1>2, PcAfter DEF P_Pipe, Quit
<1>4. DataTypes'
  BY <1>1, <1>2, <1>3 DEF DataTypes
<1>5. InOrder'
  BY <1>2 DEF InOrder
<1>6. AtTheEnd'
  BY <1>3 DEF AtTheEnd
<1>7. Counting'
  BY <1>1, <1>2 DEF Counting
<1> QED
  BY <1>4, <1>5, <1>6, <1>7 DEF Data

\* The steps that set the processes up.
LEMMA SetUpData ==
  ASSUME Wiring, Data, NNext, UNCHANGED numbers,
         \/ P_Fork \/ P_CloseRead \/ P_Dup2 \/ P_CloseWrite
         \/ C_CloseWrite \/ C_Dup2 \/ C_CloseRead
  PROVE  Data'
<1>1. UNCHANGED <<program, i, pipe, inbuf, got, pipefd>>
  BY DEF P_Fork, P_CloseRead, P_Dup2, P_CloseWrite, C_CloseWrite, C_Dup2, C_CloseRead, env
<1>2. CASE P_CloseRead \/ P_Dup2 \/ P_CloseWrite
  <2>1. /\ pc["parent"] # "pipe" /\ pc'["child"] = pc["child"]
        /\ pc'["parent"] \in {"ready", "close write end", "write"}
    BY <1>2, PcAfter DEF P_CloseRead, P_Dup2, P_CloseWrite
  <2>2. ~P_Pipe
    BY <2>1 DEF P_Pipe
  <2> QED
    BY <1>1, <2>1, <2>2, DataStays
<1>3. CASE C_CloseWrite \/ C_Dup2 \/ C_CloseRead
  <2>1. /\ pc["child"] \in {"close write end", "ready", "close read end"}
        /\ pc'["parent"] = pc["parent"]
        /\ pc'["child"] \in {"ready", "close read end", "scan"}
    BY <1>3, PcAfter DEF C_CloseWrite, C_Dup2, C_CloseRead
  <2>2. ~P_Pipe
    BY <2>1, PcAfter DEF P_Pipe, Order
  <2> QED
    BY <1>1, <2>1, <2>2, DataStays
<1>4. CASE P_Fork
  <2>1. /\ pc["parent"] = "fork" /\ pc["child"] = "none"
        /\ pc'["parent"] \in {"close read end", "failed"}
        /\ pc'["child"] \in {"none", "close write end"}
    BY <1>4, PcAfter, Names DEF P_Fork, Order, Quit
  <2>2. ~P_Pipe
    BY <2>1 DEF P_Pipe
  <2> QED
    BY <1>1, <2>1, <2>2, DataStays
<1> QED
  BY <1>2, <1>3, <1>4

\* With a reader that lives, a parent that is able to write has written all it
\* has counted.
LEMMA Counted ==
  ASSUME Wiring, Data, pc["parent"] \in {"ready", "write"}, pc["child"] # "killed", ~NoStdin
  PROVE  Len(Sent) = i
<1>1. InOrder /\ AtTheEnd /\ Order /\ ~NoStdout /\ pc["child"] \in ChildSteps
  BY NoStdoutNoStdin DEF Data, Wiring, WireTypes
<1>2. Writable
  BY <1>1, WhoHolds
<1>3. pc["child"] # "exited" /\ pc["child"] # "none"
  BY <1>1, <1>2 DEF AtTheEnd, NothingLeft, Order
<1>4. Readable
  BY <1>1, <1>3, WhoHolds DEF ChildSteps
<1> QED
  BY <1>1, <1>4 DEF InOrder

\* The parent has written all its numbers, or given up.
LEMMA CloseData ==
  ASSUME Wiring, Data, NNext, (P_CloseOut /\ UNCHANGED numbers) \/ W_Close
  PROVE  Data'
<1>1. /\ UNCHANGED <<program, pipefd, i, pipe, inbuf, got, numbers>>
      /\ pc'["parent"] = "wait" /\ pc'["child"] = pc["child"]
  BY PcAfter DEF P_CloseOut, W_Close, env
<1>2. /\ pc["parent"] \in {"write", "ready", "break"}
      /\ pc["parent"] # "break" => i = Len(Numbers)
  <2>1. Len(Numbers) = COUNT
    BY PipeNumbersAssumption
  <2> QED
    BY <2>1 DEF P_CloseOut, W_Close
<1>3. ~P_Pipe
  BY <1>2 DEF P_Pipe
<1>4. pc["child"] = "killed" \/ NoStdin \/ Len(Sent) = Len(Numbers)
  <2>1. CASE pc["parent"] = "break"
    BY <2>1 DEF Data, AtTheEnd
  <2>2. CASE pc["parent"] # "break"
    BY <1>2, <2>2, Counted
  <2> QED
    BY <2>1, <2>2
<1> QED
  BY <1>1, <1>2, <1>3, <1>4, DataStays

\* A process ends by itself or is killed.
LEMMA EndData ==
  ASSUME Wiring, Data, NNext, UNCHANGED numbers,
         P_Wait \/ C_Eof \/ R_End \/ \E p \in Proc : Kill(p)
  PROVE  Data'
<1>1. UNCHANGED <<program, i, pipe, inbuf, got, pipefd>>
  BY DEF P_Wait, C_Eof, R_End, Kill, env
<1>2. CASE P_Wait
  <2>1. /\ pc["parent"] = "wait" /\ pc'["parent"] = "exited" /\ pc'["child"] = pc["child"]
    BY <1>2, PcAfter DEF P_Wait, Quit
  <2>2. ~P_Pipe
    BY <2>1 DEF P_Pipe
  <2> QED
    BY <1>1, <2>1, <2>2, DataStays
<1>3. CASE C_Eof \/ R_End
  <2>1. /\ pc["child"] \in {"scan", "ready"} /\ pc'["child"] = "exited"
        /\ pc'["parent"] = pc["parent"] /\ pc["parent"] # "pipe"
    BY <1>3, PcAfter DEF C_Eof, R_End, Quit, Order
  <2>2. ~P_Pipe
    BY <2>1 DEF P_Pipe
  <2>3. NoStdin \/ NothingLeft
    <3>1. CASE C_Eof
      BY <3>1, <2>1, WhoHolds DEF C_Eof, NothingLeft, Writable
    <3>2. CASE R_End
      <4>1. inbuf = <<>>
        BY <3>2 DEF R_End, Data, DataTypes
      <4> QED
        BY <3>2, <4>1, <2>1 DEF R_End, NothingLeft, Writable
    <3> QED
      BY <1>3, <3>1, <3>2
  <2> QED
    BY <1>1, <2>1, <2>2, <2>3, DataStays
<1>4. ASSUME NEW p \in Proc, Kill(p) PROVE Data'
  <2>1. /\ pc[p] \notin Dead \cup {"none"} /\ Goto(p, "killed") /\ UNCHANGED pipefd
    BY <1>4 DEF Kill, Quit
  <2>2. ~P_Pipe
    <3>1. CASE pc["parent"] # "pipe"
      BY <3>1 DEF P_Pipe
    <3>2. CASE pc["parent"] = "pipe"
      <4>1. p = "parent"
        BY <2>1, <3>2, PcAfter, Names DEF Order
      <4>2. pc'["parent"] = "killed"
        BY <2>1, <4>1, PcAfter
      <4>3. P_Pipe => pc'["parent"] \in {"fork", "failed"}
        BY PcAfter DEF P_Pipe, Quit
      <4> QED
        BY <4>2, <4>3
    <3> QED
      BY <3>1, <3>2
  <2>3. CASE p = "parent"
    <3>1. pc'["parent"] = "killed" /\ pc'["child"] = pc["child"]
      BY <2>1, <2>3, PcAfter
    <3> QED
      BY <1>1, <2>2, <3>1, DataStays
  <2>4. CASE p = "child"
    <3>1. pc'["child"] = "killed" /\ pc'["parent"] = pc["parent"]
      BY <2>1, <2>4, PcAfter
    <3> QED
      BY <1>1, <2>2, <3>1, DataStays
  <2> QED
    BY <2>3, <2>4, Names
<1> QED
  BY <1>2, <1>3, <1>4

\* A writer that nobody reads is killed or breaks off.
LEMMA NoReaderData ==
  ASSUME Wiring, Data, NNext,
         UNCHANGED <<program, pipefd, i, pipe, inbuf, got, numbers>>,
         \/ pc["parent"] \in {"write", "ready"} /\ Goto("parent", "killed")
         \/ /\ pc["parent"] = "ready" /\ program = "numbers" /\ ~Readable
            /\ Goto("parent", "break")
  PROVE  Data'
<1>1. /\ pc["parent"] \in {"write", "ready"} /\ pc'["child"] = pc["child"]
      /\ pc'["parent"] \in {"killed", "break"}
  BY PcAfter
<1>2. ~P_Pipe
  BY <1>1 DEF P_Pipe
<1>3. pc'["parent"] = "break" => pc["child"] = "killed"
  <2>1. SUFFICES ASSUME pc'["parent"] = "break" PROVE pc["child"] = "killed"
    OBVIOUS
  <2>2. pc["parent"] = "ready" /\ program = "numbers" /\ ~Readable
    <3>1. Goto("parent", "killed") => pc'["parent"] = "killed"
      BY PcAfter
    <3> QED
      BY <2>1, <3>1
  <2>3. Writable /\ ~NoStdin
    BY <2>2, WhoHolds DEF NoStdin
  <2>4. pc["child"] \notin {"exited", "none", "scan"}
    BY <2>2, <2>3, PcAfter DEF Data, AtTheEnd, NothingLeft, Order
  <2>5. pc["child"] \notin {"close write end", "ready", "close read end"}
    BY <2>2, WhoHolds
  <2> QED
    BY <2>4, <2>5, PcAfter DEF WireTypes, ChildSteps
<1> QED
  BY <1>1, <1>2, <1>3, DataStays

\* Nothing changes for the descriptors.
LEMMA SameEnds ==
  ASSUME UNCHANGED <<program, fd, pipefd>>
  PROVE  /\ Readable' <=> Readable
         /\ Writable' <=> Writable
         /\ (NoStdin' <=> NoStdin) /\ (NoStdout' <=> NoStdout)
BY DEF Held, Readable, Writable, NoStdin, NoStdout

\* The next number goes into the pipe.
LEMMA SendData ==
  ASSUME Wiring, Data, UNCHANGED <<program, pc, fd, pipefd, inbuf, got, expected, errors>>,
         pc["parent"] \in {"ready", "write"}, ~NoStdout, Readable, Writable,
         Len(pipe) < CAPACITY, i < Len(Numbers),
         pipe' = Append(pipe, Numbers[i + 1]), i' = i + 1,
         program = "numbers" => val' = Value(i + 1)
  PROVE  Data' /\ Len(Sent) = i /\ Sent' = Append(Sent, Numbers[i + 1])
<1>1. DataTypes /\ InOrder /\ AtTheEnd /\ Counting
  BY DEF Data
<1>2. /\ Readable' /\ Writable' /\ ~NoStdout' /\ (NoStdin' <=> NoStdin)
  BY SameEnds
<1>3. /\ got \in Seq(Nat) /\ inbuf \in Seq(Nat) /\ pipe \in Seq(Nat) /\ i \in 0 .. Len(Numbers)
      /\ Len(Numbers) \in Nat /\ CAPACITY \in Nat /\ Len(pipe) \in Nat /\ Len(Sent) \in Nat
      /\ Sent \in Seq(Nat)
  BY <1>1, RedirectAssumption, LenProperties, Pieces DEF DataTypes, Sent
<1>4. i + 1 \in 1 .. Len(Numbers) /\ Numbers[i + 1] \in Nat
  <2>1. i + 1 \in 1 .. Len(Numbers)
    BY <1>3
  <2> QED
    BY <2>1, RedirectAssumption, ElementOfSeq
<1>5. Len(Sent) = i
  BY <1>1 DEF InOrder
<1>6. Sent' = Append(Sent, Numbers[i + 1])
  <2>1. Sent' = got \o inbuf \o Append(pipe, Numbers[i + 1])
    BY DEF Sent
  <2>2. \A x \in Nat : got \o inbuf \o Append(pipe, x) = Append(got \o inbuf \o pipe, x)
    <3>1. got \in Seq(Nat) /\ inbuf \in Seq(Nat) /\ pipe \in Seq(Nat)
      BY <1>3
    <3> QED
      BY <3>1, Appended, Zenon
  <2> QED
    BY <1>4, <2>1, <2>2, Zenon DEF Sent
<1>7. /\ Len(Sent') = i + 1
      /\ \A k \in 1 .. i : Sent'[k] = Sent[k]
      /\ Sent'[i + 1] = Numbers[i + 1]
  BY <1>3, <1>4, <1>5, <1>6, AppendProperties
<1>8. DataTypes'
  <2>1. pipe' \in Seq(Nat) /\ Len(pipe') = Len(pipe) + 1
    BY <1>3, <1>4, AppendProperties
  <2>2. Len(pipe') <= CAPACITY /\ i' \in 0 .. Len(Numbers)
    BY <1>3, <1>4, <2>1
  <2> QED
    BY <1>1, <2>1, <2>2 DEF DataTypes
<1>9. InOrder'
  <2>1. \A k \in 1 .. i + 1 : Sent'[k] = Numbers[k]
    <3>1. ASSUME NEW k \in 1 .. i + 1 PROVE Sent'[k] = Numbers[k]
      <4>1. CASE k = i + 1
        BY <1>7, <4>1
      <4>2. CASE k # i + 1
        <5>1. k \in 1 .. i
          BY <1>3, <4>2
        <5> QED
          BY <1>1, <1>5, <1>7, <5>1 DEF InOrder
      <4> QED
        BY <4>1, <4>2
    <3> QED
      BY <3>1
  <2> QED
    BY <1>3, <1>7, <2>1 DEF InOrder
<1>10. AtTheEnd'
  BY <1>1, <1>2 DEF AtTheEnd, NothingLeft
<1>11. Counting'
  BY <1>1 DEF Counting
<1> QED
  BY <1>5, <1>6, <1>8, <1>9, <1>10, <1>11 DEF Data

\* The next number is lost: nobody can read, or standard output is closed.
LEMMA LostData ==
  ASSUME Wiring, Data, UNCHANGED <<program, pc, fd, pipefd, pipe, inbuf, got, numbers>>,
         program = "redirect", pc["parent"] = "write", NoStdout \/ ~Readable,
         i < Len(Numbers), i' = i + 1
  PROVE  Data'
<1>1. DataTypes /\ InOrder /\ AtTheEnd /\ Counting
  BY DEF Data
<1>2. /\ (Readable' <=> Readable) /\ (Writable' <=> Writable)
      /\ (NoStdout' <=> NoStdout) /\ (NoStdin' <=> NoStdin)
      /\ Sent' = Sent /\ errors' = errors
  BY SameEnds DEF Sent, numbers
<1>3. i \in 0 .. Len(Numbers) /\ Len(Numbers) \in Nat /\ Len(Sent) \in Nat /\ Len(Sent) <= i
  BY <1>1, RedirectAssumption, LenProperties, Pieces DEF DataTypes, Sent, InOrder
<1>4. DataTypes'
  BY <1>1, <1>2, <1>3 DEF DataTypes
<1>5. InOrder'
  <2>1. Len(Sent') <= i'
    BY <1>2, <1>3
  <2> QED
    BY <1>1, <1>2, <2>1 DEF InOrder
<1>6. AtTheEnd'
  BY <1>1, <1>2 DEF AtTheEnd, NothingLeft
<1>7. Counting'
  BY <1>1, <1>2 DEF Counting
<1> QED
  BY <1>4, <1>5, <1>6, <1>7 DEF Data

\* A write sends the next number or nothing.
SentOn ==
  \/ Sent' = Sent
  \/ /\ Writable /\ Len(Sent) < Len(Numbers) /\ Sent' = Append(Sent, Numbers[Len(Sent) + 1])
     /\ UNCHANGED <<pc, fd>>

\* A pass of the loop of 6.2_f.c,
LEMMA WriteData ==
  ASSUME Wiring, Data, NNext, P_Write, UNCHANGED numbers
  PROVE  Data' /\ SentOn
<1>1. /\ pc["parent"] = "write" /\ i < Len(Numbers) /\ program = "redirect" /\ program # "numbers"
      /\ UNCHANGED <<program, pipefd, inbuf, got>>
      /\ UNCHANGED <<expected, errors>>
  BY PcAfter DEF P_Write, Order, env, numbers
<1>2. fd["parent"][STDOUT] = "write end" <=> ~NoStdout
  BY <1>1, WhoHolds
<1>3. CASE /\ fd["parent"][STDOUT] = "write end" /\ Readable
           /\ Len(pipe) < CAPACITY
           /\ pipe' = Append(pipe, Numbers[i + 1]) /\ i' = i + 1
           /\ UNCHANGED <<pc, fd>>
  <2>1. ~NoStdout /\ Writable
    BY <1>1, <1>2, <1>3, WhoHolds
  <2>2. Data' /\ Len(Sent) = i /\ Sent' = Append(Sent, Numbers[i + 1])
    BY <1>1, <1>3, <2>1, SendData
  <2> QED
    BY <1>1, <1>3, <2>1, <2>2 DEF SentOn
<1>4. CASE Quit("parent", "killed") /\ UNCHANGED <<i, pipe>>
  BY <1>1, <1>4, NoReaderData DEF Quit, SentOn, Sent
<1>5. CASE /\ \/ fd["parent"][STDOUT] # "write end"
              \/ ~Readable /\ sigpipe = "ignored"
           /\ i' = i + 1
           /\ UNCHANGED <<pc, fd, pipe>>
  <2>1. Sent' = Sent
    BY <1>1, <1>5 DEF Sent
  <2> QED
    BY <1>1, <1>2, <1>5, <2>1, LostData DEF SentOn
<1> QED
  BY <1>3, <1>4, <1>5 DEF P_Write, Readable

\* and of that of 6.2_1.c.
LEMMA CountData == ASSUME Wiring, Data, NNext, W_Write PROVE Data' /\ SentOn
<1>1. /\ pc["parent"] = "ready" /\ i < COUNT /\ program = "numbers"
      /\ UNCHANGED <<program, pipefd, inbuf, got, expected, errors>>
      /\ ~NoStdout /\ Writable
  BY WhoHolds DEF W_Write, env, NoStdout
<1>2. Len(Numbers) = COUNT /\ i \in Nat /\ val = Value(i)
  BY <1>1, PipeNumbersAssumption DEF Data, DataTypes, Counting
<1>3. CASE /\ Readable /\ Len(pipe) < CAPACITY
           /\ pipe' = Append(pipe, val) /\ val' = After(val) /\ i' = i + 1
           /\ UNCHANGED <<pc, fd>>
  <2>1. Numbers[i + 1] = val
    <3>1. i + 1 \in 1 .. COUNT /\ (i + 1) - 1 = i /\ COUNT \in Nat
      BY <1>1, <1>2, PipeNumbersAssumption
    <3> QED
      BY <1>2, <3>1, PipeNumbersAssumption DEF Modulus, Value
  <2>2. val' = Value(i + 1)
    BY <1>2, <1>3, AfterValue
  <2>3. pipe' = Append(pipe, Numbers[i + 1]) /\ i < Len(Numbers)
    BY <1>1, <1>2, <1>3, <2>1
  <2>4. Data' /\ Len(Sent) = i /\ Sent' = Append(Sent, Numbers[i + 1])
    BY <1>1, <1>3, <2>2, <2>3, SendData
  <2> QED
    BY <1>1, <1>3, <2>3, <2>4 DEF SentOn
<1>4. CASE /\ ~Readable
           /\ Quit("parent", "killed") \/ Goto("parent", "break")
           /\ UNCHANGED <<pipe, val, i>>
  <2>1. UNCHANGED numbers
    BY <1>1, <1>4 DEF numbers
  <2>2. Sent' = Sent
    BY <1>1, <1>4 DEF Sent
  <2> QED
    BY <1>1, <1>4, <2>1, <2>2, NoReaderData DEF Quit, SentOn
<1> QED
  BY <1>3, <1>4 DEF W_Write, Readable

\* Numbers move on towards the reader.
LEMMA MoveData ==
  ASSUME Wiring, Data, UNCHANGED <<program, pc, fd, pipefd, i>>, pc["child"] # "exited",
         Sent' = Sent, pipe' \in Seq(Nat), inbuf' \in Seq(Nat), got' \in Seq(Nat),
         Len(pipe') <= CAPACITY, program = "numbers" => inbuf' = <<>>,
         program = "numbers" => val' = val /\ expected' = Value(Len(got')), errors' = FALSE
  PROVE  Data'
<1>1. DataTypes /\ InOrder /\ AtTheEnd /\ Counting
  BY DEF Data
<1>2. (Readable' <=> Readable) /\ (NoStdout' <=> NoStdout) /\ (NoStdin' <=> NoStdin)
  BY SameEnds
<1>3. DataTypes'
  BY <1>1 DEF DataTypes
<1>4. InOrder'
  BY <1>1, <1>2 DEF InOrder
<1>5. AtTheEnd'
  BY <1>1, <1>2 DEF AtTheEnd
<1>6. Counting'
  BY <1>1 DEF Counting
<1> QED
  BY <1>3, <1>4, <1>5, <1>6 DEF Data

\* A read takes the next number or none.
ReadOn ==
  /\ Sent' = Sent
  /\ \/ got' = got
     \/ /\ pc["child"] # "exited" /\ Len(got) < Len(Sent)
        /\ got' = Append(got, Sent[Len(got) + 1])

\* The child of 6.2_f.c fills its buffer and scans it.
LEMMA ScanData ==
  ASSUME Wiring, Data, C_Fill \/ C_Scan, UNCHANGED numbers
  PROVE  Data' /\ ReadOn
<1>1. /\ got \in Seq(Nat) /\ inbuf \in Seq(Nat) /\ pipe \in Seq(Nat) /\ Len(pipe) <= CAPACITY
      /\ errors = FALSE
  BY DEF Data, DataTypes, Counting
<1>2. /\ UNCHANGED <<program, pc, fd, pipefd, i>> /\ pc["child"] = "scan"
      /\ program = "redirect" /\ program # "numbers" /\ errors' = FALSE
  BY <1>1, PcAfter DEF C_Fill, C_Scan, Order, env, numbers
<1>3. CASE C_Fill
  <2>1. got' = got /\ inbuf = <<>> /\ inbuf' = pipe /\ pipe' = <<>>
    BY <1>3 DEF C_Fill
  <2>2. got \o pipe \o <<>> = got \o <<>> \o pipe
    BY <1>1, Moved
  <2>3. Sent' = Sent
    BY <2>1, <2>2 DEF Sent
  <2>4. <<>> \in Seq(Nat) /\ Len(<<>>) <= CAPACITY
    BY EmptySeq, RedirectAssumption
  <2> QED
    BY <1>1, <1>2, <2>1, <2>3, <2>4, MoveData DEF ReadOn
<1>4. CASE C_Scan
  <2>1. inbuf # <<>> /\ pipe' = pipe /\ got' = Append(got, Head(inbuf)) /\ inbuf' = Tail(inbuf)
    BY <1>4 DEF C_Scan
  <2>2. Append(got, Head(inbuf)) \o Tail(inbuf) = got \o inbuf
    BY <1>1, <2>1, TakenOut
  <2>3. Sent' = Sent
    BY <2>1, <2>2 DEF Sent
  <2>4. got' \in Seq(Nat) /\ inbuf' \in Seq(Nat)
    BY <1>1, <2>1, HeadTailProperties, AppendProperties
  <2>5. Len(got) < Len(Sent) /\ Sent[Len(got) + 1] = Head(inbuf)
    BY <1>1, <2>1, FollowsReceived DEF Sent
  <2>6. ReadOn
    BY <1>2, <2>1, <2>3, <2>5 DEF ReadOn
  <2> QED
    BY <1>1, <1>2, <2>1, <2>3, <2>4, <2>6, MoveData
<1> QED
  BY <1>3, <1>4

\* That of 6.2_1.c reads from the pipe, and finds the number it expects.
LEMMA ReadData ==
  ASSUME Wiring, Data, R_Read
  PROVE  Data' /\ ReadOn
<1>1. /\ got \in Seq(Nat) /\ inbuf = <<>> /\ pipe \in Seq(Nat) /\ Len(pipe) <= CAPACITY
      /\ errors = FALSE /\ expected = Value(Len(got)) /\ i \in 0 .. Len(Numbers)
      /\ Len(Sent) <= i /\ \A k \in 1 .. Len(Sent) : Sent[k] = Numbers[k]
  BY DEF R_Read, Data, DataTypes, Counting, InOrder
<1>2. /\ UNCHANGED <<program, pc, fd, pipefd, i>> /\ pc["child"] = "ready" /\ inbuf' = inbuf
      /\ val' = val /\ pipe # <<>> /\ got' = Append(got, Head(pipe)) /\ pipe' = Tail(pipe)
      /\ errors' = (errors \/ Head(pipe) # expected) /\ expected' = After(Head(pipe))
  BY DEF R_Read, env
<1>3. <<>> \in Seq(Nat) /\ Len(got) \in Nat /\ Len(pipe) \in Nat /\ CAPACITY \in Nat
  BY <1>1, EmptySeq, LenProperties, RedirectAssumption
<1>4. Sent' = Sent
  <2>1. got \o <<>> = got
    BY <1>1, ConcatEmptySeq
  <2>2. Append(got, Head(pipe)) \in Seq(Nat)
    BY <1>1, <1>2, HeadTailProperties, AppendProperties
  <2>3. Append(got, Head(pipe)) \o <<>> = Append(got, Head(pipe))
    BY <2>2, ConcatEmptySeq, Zenon
  <2>4. Append(got, Head(pipe)) \o Tail(pipe) = got \o pipe
    BY <1>1, <1>2, TakenOut
  <2> QED
    BY <1>1, <1>2, <2>1, <2>3, <2>4 DEF Sent
<1>5. Len(got) < Len(Sent) /\ Sent[Len(got) + 1] = Head(pipe)
  BY <1>1, <1>2, <1>3, FollowsReceived DEF Sent
<1>6. Head(pipe) = Value(Len(got))
  <2>1. Len(Sent) \in Nat
    BY <1>1, <1>3, Pieces DEF Sent
  <2>2. Len(got) + 1 \in 1 .. Len(Sent) /\ Len(got) + 1 \in 1 .. COUNT /\ (Len(got) + 1) - 1 = Len(got)
    <3>1. Len(Numbers) = COUNT /\ COUNT \in Nat
      BY PipeNumbersAssumption
    <3> QED
      BY <1>1, <1>3, <1>5, <2>1, <3>1
  <2>3. Sent[Len(got) + 1] = Numbers[Len(got) + 1]
    BY <1>1, <2>2
  <2>4. Numbers[Len(got) + 1] = Value(Len(got))
    BY <2>2, PipeNumbersAssumption DEF Value, Modulus
  <2> QED
    BY <1>5, <2>3, <2>4
<1>7. errors' = FALSE /\ Len(got') = Len(got) + 1 /\ expected' = Value(Len(got'))
  <2>1. Len(got') = Len(got) + 1
    BY <1>1, <1>2, HeadTailProperties, AppendProperties
  <2>2. expected' = Value(Len(got) + 1)
    BY <1>2, <1>3, <1>6, AfterValue
  <2> QED
    BY <1>1, <1>2, <1>6, <2>1, <2>2
<1>8. got' \in Seq(Nat) /\ pipe' \in Seq(Nat) /\ Len(pipe') <= CAPACITY
  <2>1. got' \in Seq(Nat) /\ pipe' \in Seq(Nat) /\ Len(pipe') = Len(pipe) - 1
    BY <1>1, <1>2, HeadTailProperties, AppendProperties
  <2> QED
    BY <1>1, <1>3, <2>1
<1>9. ReadOn
  BY <1>2, <1>4, <1>5 DEF ReadOn
<1> QED
  BY <1>1, <1>2, <1>3, <1>4, <1>7, <1>8, <1>9, MoveData

\* Any step.
LEMMA DataNext ==
  ASSUME Wiring, Wiring', Data, [NNext]_<<vars, numbers>>
  PROVE  Data'
<1>1. CASE NNext
  <2>1. CASE P_Pipe /\ UNCHANGED numbers
    BY <2>1, PipeData
  <2>2. CASE /\ \/ P_Fork \/ P_CloseRead \/ P_Dup2 \/ P_CloseWrite
                \/ C_CloseWrite \/ C_Dup2 \/ C_CloseRead
             /\ UNCHANGED numbers
    BY <1>1, <2>2, SetUpData
  <2>3. CASE (P_CloseOut /\ UNCHANGED numbers) \/ W_Close
    BY <1>1, <2>3, CloseData
  <2>4. CASE (P_Wait \/ C_Eof \/ \E p \in Proc : Kill(p)) /\ UNCHANGED numbers
    BY <1>1, <2>4, EndData
  <2>5. CASE R_End
    <3>1. UNCHANGED numbers
      BY <2>5 DEF R_End
    <3> QED
      BY <1>1, <2>5, <3>1, EndData
  <2>6. CASE P_Write /\ UNCHANGED numbers
    BY <1>1, <2>6, WriteData
  <2>7. CASE W_Write
    BY <1>1, <2>7, CountData
  <2>8. CASE (C_Fill \/ C_Scan) /\ UNCHANGED numbers
    BY <2>8, ScanData
  <2>9. CASE R_Read
    BY <2>9, ReadData
  <2> QED
    BY <1>1, <2>1, <2>2, <2>3, <2>4, <2>5, <2>6, <2>7, <2>8, <2>9
    DEF NNext, NParent, NChild, Parent, Child
<1>2. CASE UNCHANGED <<vars, numbers>>
  <2>1. UNCHANGED <<program, pc, fd, pipefd, i, pipe, inbuf, got, val, expected, errors>>
    BY <1>2 DEF vars, env, numbers
  <2>2. /\ Sent' = Sent /\ (Readable' <=> Readable) /\ (Writable' <=> Writable)
        /\ (NoStdin' <=> NoStdin) /\ (NoStdout' <=> NoStdout)
    BY <2>1, SameEnds DEF Sent
  <2>3. DataTypes'
    BY <2>1, <2>2 DEF Data, DataTypes
  <2>4. InOrder'
    BY <2>1, <2>2 DEF Data, InOrder
  <2>5. AtTheEnd'
    BY <2>1, <2>2 DEF Data, AtTheEnd, NothingLeft
  <2>6. Counting'
    BY <2>1 DEF Data, Counting
  <2> QED
    BY <2>3, <2>4, <2>5, <2>6 DEF Data
<1> QED
  BY <1>1, <1>2

\* What has been sent is always the beginning of the numbers, the whole of what
\* the parent has counted as long as somebody can read, and everything when the
\* parent stops to wait; the two counts of 6.2_1.c go together.
THEOREM DataInvariance == NSpec => []Data
<1>1. NInit => Data
  BY DataInit
<1>2. Wiring /\ Wiring' /\ Data /\ [NNext]_<<vars, numbers>> => Data'
  BY DataNext
<1> QED
  BY <1>1, <1>2, WiringInvariance, PTL DEF NSpec

-----------------------------------------------------------------------------
(* What the program promises                                               *)

\* Where the ends are, when both processes have set themselves up.
LEMMA PlumbingHolds == ASSUME Wiring, Data PROVE Plumbing
<1>1. TypeOK
  <2>1. pc \in [Proc -> Dead \cup {"none", "pipe", "fork", "close read end", "ready",
                              "close write end", "write", "break", "wait", "scan"}]
    <3>1. \A l \in ParentSteps \cup ChildSteps :
            l \in Dead \cup {"none", "pipe", "fork", "close read end", "ready",
                             "close write end", "write", "break", "wait", "scan"}
      BY DEF ParentSteps, ChildSteps, Dead
    <3>2. pc \in [Proc -> ParentSteps \cup ChildSteps]
      BY DEF Wiring, WireTypes
    <3> QED
      BY <3>1, <3>2
  <2> QED
    BY <2>1 DEF TypeOK, Wiring, WireTypes, Refs, Data, DataTypes
<1>2. OneOfEachEnd
  <2>1. SUFFICES ASSUME ~NoStdin PROVE OneOfEachEnd
    BY DEF OneOfEachEnd
  <2>2. /\ Has(fd["parent"], ParentReads, ParentWrites) /\ Has(fd["child"], ChildReads, ChildWrites)
        /\ Order /\ ~NoStdout
    BY <2>1, NoStdoutNoStdin DEF Wiring
  <2>3. ASSUME pc["child"] = "scan"
        PROVE  /\ fd["child"][STDIN] = "read end"
               /\ \A d \in Descriptors \ {STDIN} : fd["child"][d] \notin {"read end", "write end"}
    <3>1. ChildReads = {STDIN} /\ ChildWrites = {}
      BY <2>1, <2>2, <2>3 DEF ChildReads, ChildWrites, NoStdin, Order
    <3> QED
      BY <2>2, <3>1, Names DEF Has
  <2>4. ASSUME pc["parent"] = "write"
        PROVE  /\ fd["parent"][STDOUT] = "write end"
               /\ \A d \in Descriptors \ {STDOUT} : fd["parent"][d] \notin {"read end", "write end"}
    <3>1. ParentWrites = {STDOUT} /\ ParentReads = {}
      BY <2>2, <2>4 DEF ParentReads, ParentWrites, NoStdout, Order
    <3> QED
      BY <2>2, <3>1, Names DEF Has
  <2> QED
    BY <2>3, <2>4 DEF OneOfEachEnd
<1> QED
  BY <1>1, <1>2 DEF Plumbing

\* The two descriptors of the redirection are where the comments of
\* 6.2_f.c:65-72 and :87-93 say they are and the pipe has no other.
THEOREM PlumbingInvariance == NSpec => []Plumbing
<1>1. Wiring /\ Data => Plumbing
  BY PlumbingHolds
<1> QED
  BY <1>1, WiringInvariance, DataInvariance, PTL

\* A step that does not send moves a number to the reader or none.
LEMMA CountStays ==
  ASSUME EveryPassCounts, Data, UNCHANGED <<program, i>>,
         \/ UNCHANGED <<pipe, got>>
         \/ program = "redirect"
         \/ pipe # <<>> /\ pipe' = Tail(pipe) /\ got' = Append(got, Head(pipe))
  PROVE  EveryPassCounts'
<1>1. got \in Seq(Nat) /\ pipe \in Seq(Nat)
  BY DEF Data, DataTypes
<1>2. CASE pipe # <<>> /\ pipe' = Tail(pipe) /\ got' = Append(got, Head(pipe))
  <2>1. Len(got') = Len(got) + 1 /\ Len(pipe') = Len(pipe) - 1
        /\ Len(got) \in Nat /\ Len(pipe) \in Nat
    BY <1>1, <1>2, HeadTailProperties, AppendProperties
  <2> QED
    BY <2>1 DEF EveryPassCounts
<1> QED
  BY <1>2 DEF EveryPassCounts

\* Any step: only a write that succeeds counts.
LEMMA CountNext ==
  ASSUME Wiring, Data, EveryPassCounts, [NNext]_<<vars, numbers>>
  PROVE  EveryPassCounts'
<1>1. /\ pc["parent"] = "write" => program = "redirect"
      /\ pc["child"] = "scan" => program = "redirect"
  BY PcAfter DEF Order
<1>2. CASE P_Write \/ C_Fill \/ C_Scan
  <2>1. program = "redirect" /\ program' = program
    BY <1>1, <1>2 DEF P_Write, C_Fill, C_Scan, env
  <2> QED
    BY <2>1 DEF EveryPassCounts
<1>3. CASE W_Write
  <2>1. /\ program' = program /\ got' = got
        /\ \/ pipe' = Append(pipe, val) /\ i' = i + 1
           \/ UNCHANGED <<pipe, i>>
    BY <1>3 DEF W_Write, env
  <2>2. /\ pipe \in Seq(Nat) /\ got \in Seq(Nat) /\ i \in Int
        /\ Len(pipe) \in Nat /\ Len(got) \in Nat
    BY RedirectAssumption, LenProperties DEF Data, DataTypes
  <2>3. CASE pipe' = Append(pipe, val) /\ i' = i + 1
    <3>1. program = "numbers" => val \in Nat
      BY <2>2, PipeNumbersAssumption, SMT DEF Data, Counting, Value, Modulus
    <3>2. program = "numbers" => Len(pipe') = Len(pipe) + 1
      BY <2>2, <2>3, <3>1, AppendProperties
    <3> QED
      BY <2>1, <2>2, <2>3, <3>2 DEF EveryPassCounts
  <2>4. CASE UNCHANGED <<pipe, i>>
    BY <2>1, <2>4 DEF EveryPassCounts
  <2> QED
    BY <2>1, <2>3, <2>4
<1>4. CASE R_Read
  BY <1>4, CountStays DEF R_Read, env
<1>5. CASE \/ P_Pipe \/ P_Fork \/ P_CloseRead \/ P_Dup2 \/ P_CloseWrite \/ P_CloseOut \/ P_Wait
           \/ C_CloseWrite \/ C_Dup2 \/ C_CloseRead \/ C_Eof \/ W_Close \/ R_End
           \/ (\E p \in Proc : Kill(p)) \/ UNCHANGED <<vars, numbers>>
  <2>1. UNCHANGED <<program, i, pipe, got>>
    BY <1>5 DEF P_Pipe, P_Fork, P_CloseRead, P_Dup2, P_CloseWrite, P_CloseOut, P_Wait, C_CloseWrite,
                C_Dup2, C_CloseRead, C_Eof, W_Close, R_End, Kill, vars, env
  <2> QED
    BY <2>1, CountStays
<1> QED
  BY <1>2, <1>3, <1>4, <1>5 DEF NNext, NParent, NChild, Parent, Child

\* In every behaviour a pass of the writer's loop has sent its number (6.2_1.c:37-40).
THEOREM CountInvariance == NSpec => []EveryPassCounts
<1>1. NInit => EveryPassCounts
  BY LenProperties, EmptySeq DEF NInit, Init, EveryPassCounts
<1>2. Wiring /\ Data /\ EveryPassCounts /\ [NNext]_<<vars, numbers>> => EveryPassCounts'
  BY CountNext
<1> QED
  BY <1>1, <1>2, WiringInvariance, DataInvariance, PTL DEF NSpec

\* Everything was sent, nothing is left on the way: it has arrived.
LEMMA NumbersArriveHolds == ASSUME Wiring, Data, EveryPassCounts PROVE NumbersArrive
<1>1. NoErrors
  BY DEF NoErrors, Data, Counting
<1>2. AllReceived
  <2>1. SUFFICES ASSUME pc["parent"] = "exited", pc["child"] # "killed", ~NoStdin
                 PROVE  got = Numbers
    BY DEF AllReceived
  <2>2. pc["child"] = "exited"
    BY <2>1, PcAfter DEF Order, WireTypes, ChildSteps, Dead
  <2>3. /\ inbuf = <<>> /\ pipe = <<>> /\ Len(Sent) = Len(Numbers) /\ got \in Seq(Nat)
        /\ \A k \in 1 .. Len(Sent) : Sent[k] = Numbers[k]
    BY <2>1, <2>2 DEF Data, DataTypes, InOrder, AtTheEnd, NothingLeft
  <2>4. Sent = got
    BY <2>3, ConcatEmptySeq DEF Sent
  <2>5. Numbers \in Seq(Nat) /\ Len(got) = Len(Numbers) /\ \A k \in 1 .. Len(got) : got[k] = Numbers[k]
    BY <2>3, <2>4, RedirectAssumption
  <2> QED
    BY <2>3, <2>5, SeqEqual
<1> QED
  BY <1>1, <1>2 DEF NumbersArrive

\* When main() returns the child has received every number, unless it was
\* killed or there was no standard input; the reader of 6.2_1.c never finds a
\* number that it does not expect, and its writer counts what it sent.
THEOREM Arrival == NSpec => []NumbersArrive
<1>1. Wiring /\ Data /\ EveryPassCounts => NumbersArrive
  BY NumbersArriveHolds
<1> QED
  BY <1>1, WiringInvariance, DataInvariance, CountInvariance, PTL

-----------------------------------------------------------------------------
(* The stream                                                              *)

\* What the writer and the reader know of the stream.
Open == pc["parent"] = "pipe" \/ Held("write end")
Told == pc["child"] = "exited" /\ ~NoStdin

\* A step of the stream in these terms.
LEMMA StreamStep ==
  ASSUME \/ /\ Sent' = Sent /\ got' = got /\ (Told' <=> Told) /\ (Open' => Open)
         \/ /\ Sent' = Sent /\ got' = got /\ ~Open /\ ~Open' /\ got = Sent /\ Told'
         \/ /\ Open /\ Len(Sent) < Len(Numbers) /\ Sent' = Append(Sent, Numbers[Len(Sent) + 1])
            /\ got' = got /\ (Told' <=> Told) /\ (Open' <=> Open)
         \/ /\ ~Told /\ Len(got) < Len(Sent) /\ got' = Append(got, Sent[Len(got) + 1])
            /\ Sent' = Sent /\ (Told' <=> Told) /\ (Open' <=> Open)
  PROVE  [S!Next]_(S!vars)
<1>1. CASE Sent' = Sent /\ got' = got /\ (Told' <=> Told) /\ (Open' <=> Open)
  BY <1>1 DEF S!vars, Sent, Open, Told
<1>2. CASE Sent' = Sent /\ got' = got /\ (Told' <=> Told) /\ Open /\ ~Open'
  BY <1>2 DEF S!Next, S!Close, Sent, Open, Told
<1>3. CASE Sent' = Sent /\ got' = got /\ ~Open /\ ~Open' /\ got = Sent /\ Told'
  BY <1>3 DEF S!Next, S!End, Sent, Open, Told
<1>4. CASE /\ Open /\ Len(Sent) < Len(Numbers) /\ Sent' = Append(Sent, Numbers[Len(Sent) + 1])
           /\ got' = got /\ (Told' <=> Told) /\ (Open' <=> Open)
  BY <1>4 DEF S!Next, S!Send, Sent, Open, Told
<1>5. CASE /\ ~Told /\ Len(got) < Len(Sent) /\ got' = Append(got, Sent[Len(got) + 1])
           /\ Sent' = Sent /\ (Told' <=> Told) /\ (Open' <=> Open)
  BY <1>5 DEF S!Next, S!Receive, Sent, Open, Told
<1> QED
  BY <1>1, <1>2, <1>3, <1>4, <1>5

\* The pipe is opened once.
LEMMA OpensOnce ==
  ASSUME Wiring, NNext, ~P_Pipe
  PROVE  Open' => Open
<1>1. pc'["parent"] = "pipe" => pc["parent"] = "pipe"
  <2>1. CASE UNCHANGED pc
    BY <2>1
  <2>2. CASE \E l : Goto("child", l)
    BY <2>2, PcAfter
  <2>3. CASE \E l \in Dead \cup {"ready", "close write end", "write", "wait", "break"} : Goto("parent", l)
    BY <2>3, PcAfter DEF Dead
  <2>4. CASE P_Fork
    <3>1. pc'["parent"] = "close read end" \/ Goto("parent", "failed")
      BY <2>4, Names DEF P_Fork, Quit
    <3> QED
      BY <2>3, <3>1 DEF Dead
  <2>5. CASE P_CloseRead \/ P_Dup2 \/ P_CloseWrite \/ P_CloseOut \/ W_Close
    BY <2>3, <2>5 DEF P_CloseRead, P_Dup2, P_CloseWrite, P_CloseOut, W_Close
  <2>6. CASE P_Write \/ W_Write
    BY <2>1, <2>3, <2>6 DEF P_Write, W_Write, Quit, Dead
  <2>7. CASE P_Wait
    BY <2>3, <2>7 DEF P_Wait, Quit, Dead
  <2>8. CASE C_CloseWrite \/ C_Dup2 \/ C_CloseRead \/ C_Eof \/ R_End
    BY <2>2, <2>8 DEF C_CloseWrite, C_Dup2, C_CloseRead, C_Eof, R_End, Quit
  <2>9. CASE C_Fill \/ C_Scan \/ R_Read
    BY <2>1, <2>9 DEF C_Fill, C_Scan, R_Read
  <2>10. CASE \E p \in Proc : Kill(p)
    BY <2>2, <2>3, <2>10, Names DEF Kill, Quit, Dead
  <2> QED
    BY <2>4, <2>5, <2>6, <2>7, <2>8, <2>9, <2>10 DEF NNext, NParent, NChild, Parent, Child
<1>2. Held("write end")' => Held("write end")
  BY NoMoreEnds
<1> QED
  BY <1>1, <1>2 DEF Open

\* Every step of the programs is one of the stream or leaves it alone.
LEMMA StreamNext ==
  ASSUME Wiring, Data, [NNext]_<<vars, numbers>>
  PROVE  [S!Next]_(S!vars)
<1>1. CASE P_Pipe
  <2>1. Sent' = Sent /\ got' = got /\ pc["child"] = "none" /\ pc'["child"] = "none"
    BY <1>1, PcAfter DEF P_Pipe, Quit, Order, Sent
  <2>2. Open
    BY <1>1 DEF P_Pipe, Open
  <2> QED
    BY <2>1, <2>2, StreamStep DEF Told
<1>2. CASE NNext /\ ((P_Write /\ UNCHANGED numbers) \/ W_Write)
  <2>1. /\ got' = got /\ UNCHANGED <<program, pipefd>> /\ pc["parent"] # "pipe"
        /\ pc'["child"] = pc["child"]
    BY <1>2, PcAfter DEF P_Write, W_Write, env, Quit
  <2>2. ~P_Pipe /\ (Told' <=> Told)
    BY <2>1 DEF P_Pipe, Told, NoStdin
  <2>3. SentOn
    BY <1>2, WriteData, CountData
  <2>4. CASE Sent' = Sent
    BY <1>2, <2>1, <2>2, <2>4, OpensOnce, StreamStep
  <2>5. CASE /\ Writable /\ Len(Sent) < Len(Numbers) /\ Sent' = Append(Sent, Numbers[Len(Sent) + 1])
             /\ UNCHANGED <<pc, fd>>
    <3>1. Open /\ Open'
      BY <2>5 DEF Open, Writable, Held
    <3> QED
      BY <2>1, <2>2, <2>5, <3>1, StreamStep
  <2> QED
    BY <2>3, <2>4, <2>5 DEF SentOn
<1>3. CASE ((C_Fill \/ C_Scan) /\ UNCHANGED numbers) \/ R_Read
  <2>1. UNCHANGED <<program, pipefd, pc, fd>>
    BY <1>3 DEF C_Fill, C_Scan, R_Read, env
  <2>2. (Open' <=> Open) /\ (Told' <=> Told)
    BY <2>1 DEF Open, Told, Held, NoStdin
  <2>3. ReadOn
    BY <1>3, ScanData, ReadData
  <2> QED
    BY <2>2, <2>3, StreamStep DEF ReadOn, Told
<1>4. CASE NNext /\ (C_Eof \/ R_End)
  <2>1. /\ pc["child"] \in {"scan", "ready"} /\ pc'["child"] = "exited"
        /\ pc'["parent"] = pc["parent"] /\ pc["parent"] # "pipe"
        /\ UNCHANGED <<program, pipefd>> /\ got' = got /\ Sent' = Sent
    BY <1>4, PcAfter DEF C_Eof, R_End, Quit, Order, env, Sent
  <2>2. (NoStdin' <=> NoStdin) /\ ~P_Pipe /\ (Open' => Open)
    BY <1>4, <2>1, OpensOnce DEF NoStdin, P_Pipe
  <2>3. CASE NoStdin
    BY <2>1, <2>2, <2>3, StreamStep DEF Told
  <2>4. CASE ~NoStdin
    <3>1. inbuf = <<>> /\ pipe = <<>> /\ ~Held("write end")
      <4>1. CASE C_Eof
        BY <4>1, <2>1, <2>4, WhoHolds DEF C_Eof
      <4>2. CASE R_End
        BY <4>2 DEF R_End, Data, DataTypes
      <4> QED
        BY <1>4, <4>1, <4>2
    <3>2. got \in Seq(Nat)
      BY DEF Data, DataTypes
    <3>3. got = Sent
      BY <3>1, <3>2, ConcatEmptySeq DEF Sent
    <3>4. ~Open
      BY <2>1, <3>1 DEF Open
    <3> QED
      BY <2>1, <2>2, <2>4, <3>3, <3>4, StreamStep DEF Told
  <2> QED
    BY <2>3, <2>4
<1>5. CASE /\ NNext
           /\ \/ P_Fork \/ P_CloseRead \/ P_Dup2 \/ P_CloseWrite \/ P_CloseOut \/ W_Close \/ P_Wait
              \/ C_CloseWrite \/ C_Dup2 \/ C_CloseRead
              \/ \E p \in Proc : Kill(p)
  <2>1. UNCHANGED <<program, pipefd, got>> /\ Sent' = Sent
    BY <1>5 DEF P_Fork, P_CloseRead, P_Dup2, P_CloseWrite, P_CloseOut, W_Close, P_Wait,
                C_CloseWrite, C_Dup2, C_CloseRead, Kill, env, Sent
  <2>2. pc'["child"] = "exited" <=> pc["child"] = "exited"
    <3>1. CASE \E l : Goto("parent", l)
      BY <3>1, PcAfter
    <3>2. CASE pc["child"] # "exited" /\ \E l : l # "exited" /\ Goto("child", l)
      BY <3>2, PcAfter
    <3>3. CASE P_Fork
      <4>1. CASE Quit("parent", "failed")
        BY <3>1, <4>1 DEF Quit
      <4>2. CASE ~Quit("parent", "failed")
        BY <3>3, <4>2, PcAfter, Names DEF P_Fork, Order
      <4> QED
        BY <4>1, <4>2
    <3>4. CASE P_CloseRead \/ P_Dup2 \/ P_CloseWrite \/ P_CloseOut \/ W_Close \/ P_Wait
      BY <3>1, <3>4 DEF P_CloseRead, P_Dup2, P_CloseWrite, P_CloseOut, W_Close, P_Wait, Quit
    <3>5. CASE C_CloseWrite \/ C_Dup2 \/ C_CloseRead
      BY <3>2, <3>5 DEF C_CloseWrite, C_Dup2, C_CloseRead
    <3>6. CASE \E p \in Proc : Kill(p)
      BY <3>1, <3>2, <3>6, Names DEF Kill, Quit, Dead
    <3> QED
      BY <1>5, <3>3, <3>4, <3>5, <3>6
  <2>3. Told' <=> Told
    BY <2>1, <2>2 DEF Told, NoStdin
  <2>4. CASE P_Pipe
    BY <1>1, <2>4
  <2>5. CASE ~P_Pipe
    BY <1>5, <2>1, <2>3, <2>5, OpensOnce, StreamStep
  <2> QED
    BY <2>4, <2>5
<1>6. CASE UNCHANGED <<vars, numbers>>
  <2>1. UNCHANGED <<program, pc, fd, pipefd, pipe, inbuf, got>>
    BY <1>6 DEF vars, env
  <2>2. Sent' = Sent /\ (Open' <=> Open) /\ (Told' <=> Told)
    BY <2>1 DEF Sent, Open, Told, Held, NoStdin
  <2> QED
    BY <2>1, <2>2, StreamStep
<1> QED
  BY <1>1, <1>2, <1>3, <1>4, <1>5, <1>6 DEF NNext, NParent, NChild, Parent, Child

\* Whoever is killed and whatever descriptors the shell has closed, what the two
\* processes have in their descriptors, the pipe and the child's buffer is a
\* stream (module Stream): the numbers arrive once each and in order, and the
\* child is told of the end only when all that was sent has arrived and
\* nothing more can be sent.
THEOREM StreamRefinement == NSpec => StreamSpec
<1>1. NInit => S!Init
  <2> SUFFICES ASSUME NInit PROVE S!Init
    OBVIOUS
  <2>1. /\ pc["parent"] = "pipe" /\ pc["child"] = "none"
        /\ got = <<>> /\ inbuf = <<>> /\ pipe = <<>>
    BY Names DEF NInit, Init
  <2>2. got \o inbuf \o pipe = <<>>
    BY <2>1, EmptySeq, ConcatEmptySeq
  <2>3. Open /\ ~Told
    BY <2>1 DEF Open, Told
  <2> QED
    BY <2>1, <2>2, <2>3 DEF S!Init, Open, Told
<1>2. Wiring /\ Data /\ [NNext]_<<vars, numbers>> => [S!Next]_(S!vars)
  BY StreamNext
<1> QED
  BY <1>1, <1>2, WiringInvariance, DataInvariance, PTL DEF NSpec, StreamSpec, S!Spec
=============================================================================
