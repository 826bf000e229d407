----------------------------- MODULE SignalSync -----------------------------
(***************************************************************************)
(* 6_part/6.1/6.1_2f.c: a writer (the parent) and a reader (its fork)      *)
(* share one anonymous page.  SIGUSR1 tells the reader that the page is    *)
(* full, SIGUSR2 tells the writer that it has been read; SIGINT and        *)
(* SIGTERM set `stop'.  SIGUSR1 and SIGUSR2 are blocked except inside      *)
(* sigsuspend(&old); SIGINT and SIGTERM never are.                         *)
(*                                                                         *)
(* pc holds where each process is.  "call" is the point between the test   *)
(* of the flags and the moment sigsuspend has taken effect, "asleep" is    *)
(* inside sigsuspend, "dead" is a terminated process (a zombie, or         *)
(* collected).  One slot of the page is written or read per step.          *)
(***************************************************************************)
EXTENDS Integers

CONSTANTS
  N,               \* slots in the page: pg_sz / sizeof(int)
  UINT_MAX,        \* largest unsigned int
  UserSignals,     \* what the user may send with kill(1) or Ctrl-C: [sig, to]
  ForkMayFail,     \* may fork() return -1
  SigchldIgnored   \* SIGCHLD inherited as ignored: no zombies

ASSUME ConstantsAssumption ==
  /\ N \in Nat \ {0}
  /\ UINT_MAX \in Nat \ {0}
  /\ ForkMayFail \in BOOLEAN
  /\ SigchldIgnored \in BOOLEAN

W == "writer"
R == "reader"
Proc == {W, R}
Slot == 0 .. N - 1
UInt == 0 .. UINT_MAX
Halt == {"INT", "TERM"}            \* the signals that are never blocked
Sync == {"USR1", "USR2"}           \* the signals of `mask'
Signal == Halt \cup Sync

ASSUME UserSignalsAssumption ==
  UserSignals \subseteq [sig : Signal \cup {"KILL"}, to : SUBSET Proc]

VARIABLES
  pc,         \* control point of each process
  pid,        \* the writer's `pid': the reader, or -1 when fork failed
  buf,        \* the shared page
  val, wi,    \* the writer's next value and its loop index
  exp, ri,    \* the reader's expected value and its loop index
  got_sig, stop, sig_type,   \* the flags the handler sets, one copy each
  pending,    \* signals generated for a process and not yet delivered
  astray,     \* signals the program sent to a process outside the pair
  turn, seen  \* history: whose turn the signals say it is; what was read

flags == <<got_sig, stop, sig_type>>
page  == <<buf, val, wi, exp, ri, turn, seen>>
vars  == <<pc, pid, flags, page, pending, astray>>

-----------------------------------------------------------------------------
(* The kernel's part: existence of processes, kill(2), delivery.           *)

Alive(p) == pc[p] \notin {"none", "dead"}

\* kill() finds the reader while it runs and while it is a zombie; a zombie
\* stays until its parent collects it, which this writer never does.
ReaderExists == Alive(R) \/ (pc[R] = "dead" /\ ~SigchldIgnored)

\* The signals of S are generated for the processes in to.
Generate(S, to) ==
  pending' = [p \in Proc |-> IF p \in to /\ Alive(p) THEN pending[p] \cup S
                                                     ELSE pending[p]]

Goto(p, l) == pc' = [pc EXCEPT ![p] = l]

AfterSlot(i) == IF i < N - 1 THEN i + 1 ELSE 0

\* hdl run by p for every signal of S.
hdl(p, S) ==
  /\ stop' = [stop EXCEPT ![p] = @ \/ S \cap Halt # {}]
  /\ got_sig' = [got_sig EXCEPT ![p] = @ \/ S \cap Sync # {}]
  /\ \E s \in (IF S \cap Halt = {} THEN {sig_type[p]} ELSE S \cap Halt) :
       sig_type' = [sig_type EXCEPT ![p] = s]

-----------------------------------------------------------------------------
(* Faulty variants of the actions below, kept to show that the properties  *)
(* tell the program from a program with a likely mistake in it.            *)

\* SIGUSR1 and SIGUSR2 not blocked: the handler may run between the test of
\* the flags and sigsuspend.
Interrupt_Unmasked(p) ==
  /\ Alive(p)
  /\ pc[p] # "asleep"
  /\ \E s \in pending[p] :
       /\ hdl(p, {s})
       /\ pending' = [pending EXCEPT ![p] = @ \ {s}]
  /\ UNCHANGED <<pc, pid, page, astray>>

\* buf[i] = ++val
W_Fill_PreIncrement ==
  /\ pc[W] = "fill"
  /\ val' = IF val = UINT_MAX THEN 0 ELSE val + 1
  /\ buf' = [buf EXCEPT ![wi] = val']
  /\ wi' = AfterSlot(wi)
  /\ Goto(W, IF wi < N - 1 THEN "fill" ELSE "kill")
  /\ UNCHANGED <<pid, flags, exp, ri, turn, seen, pending, astray>>

\* The writer leaves without a signal to the reader.
W_Bye_NoKill ==
  /\ pc[W] = "bye"
  /\ Goto(W, "exit")
  /\ UNCHANGED <<pid, flags, page, pending, astray>>

\* got_sig is not reset before the scan.
R_Brk_KeepsFlag ==
  /\ pc[R] = "brk"
  /\ Goto(R, IF stop[R] THEN "bye" ELSE "scan")
  /\ ri' = IF stop[R] THEN ri ELSE 0
  /\ UNCHANGED <<pid, flags, buf, val, wi, exp, turn, seen, pending, astray>>

\* for (i = 0; i < n - 1; i++)
R_Scan_ShortByOne ==
  /\ pc[R] = "scan"
  /\ exp' = IF buf[ri] = UINT_MAX THEN 0 ELSE buf[ri] + 1
  /\ seen' = [seen EXCEPT ![ri] = buf[ri]]
  /\ ri' = IF ri < N - 2 THEN ri + 1 ELSE 0
  /\ Goto(R, IF ri < N - 2 THEN "scan" ELSE "kill")
  /\ UNCHANGED <<pid, flags, buf, val, wi, turn, pending, astray>>

\* kill(getpid(), SIGUSR2)
R_Kill_Self ==
  /\ pc[R] = "kill"
  /\ Generate({"USR2"}, {R})
  /\ Goto(R, "loop")
  /\ UNCHANGED <<pid, flags, page, astray>>

-----------------------------------------------------------------------------
\* SIGINT or SIGTERM reaches a process that is not in sigsuspend.
Interrupt(p) ==
  /\ Alive(p)
  /\ pc[p] # "asleep"
  /\ \E s \in pending[p] \cap Halt :
       /\ hdl(p, {s})
       /\ pending' = [pending EXCEPT ![p] = @ \ {s}]
  /\ UNCHANGED <<pc, pid, page, astray>>

\* sigsuspend returns (always -1 with errno EINTR) once the handlers of all
\* the signals that were pending have run.
Wake(p) ==
  /\ pc[p] = "asleep"
  /\ pending[p] # {}
  /\ hdl(p, pending[p])
  /\ pending' = [pending EXCEPT ![p] = {}]
  /\ Goto(p, "check")
  /\ UNCHANGED <<pid, page, astray>>

\* Entering sigsuspend; common to both loops.
Suspend(p) ==
  /\ pc[p] = "call"
  /\ Goto(p, "asleep")
  /\ UNCHANGED <<pid, page, flags, pending, astray>>

\* kill(1) from a terminal, or Ctrl-C, which reaches both processes.
UserSignal ==
  \E u \in UserSignals :
    /\ \E p \in u.to : Alive(p)
    /\ IF u.sig = "KILL"
       THEN /\ pc' = [p \in Proc |-> IF p \in u.to /\ Alive(p) THEN "dead" ELSE pc[p]]
            /\ UNCHANGED pending
       ELSE /\ Generate({u.sig}, u.to)
            /\ UNCHANGED pc
    /\ UNCHANGED <<pid, page, flags, astray>>

-----------------------------------------------------------------------------
(* main() up to the fork, and the writer.                                  *)

Init ==
  /\ pc = [p \in Proc |-> IF p = W THEN "fork" ELSE "none"]
  /\ pid = "unset"
  /\ buf = [i \in Slot |-> 0]
  /\ val = 0 /\ wi = 0 /\ exp = 0 /\ ri = 0
  /\ got_sig = [p \in Proc |-> FALSE]
  /\ stop = [p \in Proc |-> FALSE]
  /\ sig_type = [p \in Proc |-> "none"]
  /\ pending = [p \in Proc |-> {}]
  /\ astray = {}
  /\ turn = W
  /\ seen = [i \in Slot |-> 0]

\* The child starts with the flags its parent has; when fork() fails the
\* parent goes on as the writer all the same, with pid = -1.
W_Fork ==
  /\ pc[W] = "fork"
  /\ \/ /\ pid' = R
        /\ pc' = [p \in Proc |-> "loop"]
        /\ got_sig' = [got_sig EXCEPT ![R] = got_sig[W]]
        /\ stop' = [stop EXCEPT ![R] = stop[W]]
        /\ sig_type' = [sig_type EXCEPT ![R] = sig_type[W]]
     \/ /\ ForkMayFail
        /\ pid' = "every"
        /\ Goto(W, "loop")
        /\ UNCHANGED flags
  /\ UNCHANGED <<page, pending, astray>>

W_Loop ==
  /\ pc[W] = "loop"
  /\ Goto(W, IF stop[W] THEN "bye" ELSE "fill")
  /\ wi' = 0
  /\ UNCHANGED <<pid, flags, buf, val, exp, ri, turn, seen, pending, astray>>

\* buf[i] = (val == UINT_MAX) ? (val = 0) : val++
W_Fill ==
  /\ pc[W] = "fill"
  /\ buf' = [buf EXCEPT ![wi] = IF val = UINT_MAX THEN 0 ELSE val]
  /\ val' = IF val = UINT_MAX THEN 0 ELSE val + 1
  /\ wi' = AfterSlot(wi)
  /\ Goto(W, IF wi < N - 1 THEN "fill" ELSE "kill")
  /\ UNCHANGED <<pid, flags, exp, ri, turn, seen, pending, astray>>

\* kill(pid, SIGUSR1), and break when it returns -1.  With pid = -1 the call
\* goes to every process the user may signal except the caller, and fails
\* only when there is none.
W_Kill ==
  /\ pc[W] = "kill"
  /\ \/ /\ pid = R /\ ReaderExists
        /\ Generate({"USR1"}, {R})
        /\ turn' = IF Alive(R) THEN R ELSE turn
        /\ Goto(W, "check")
        /\ UNCHANGED astray
     \/ /\ pid = R /\ ~ReaderExists
        /\ Goto(W, "bye")
        /\ UNCHANGED <<pending, turn, astray>>
     \/ /\ pid = "every"
        /\ astray' = astray \cup {"USR1"}
        /\ Goto(W, "check")
        /\ UNCHANGED <<pending, turn>>
     \/ /\ pid = "every"
        /\ Goto(W, "bye")
        /\ UNCHANGED <<pending, turn, astray>>
  /\ UNCHANGED <<pid, flags, buf, val, wi, exp, ri, seen>>

\* while (!got_sig && !stop): the test only.  sigsuspend never sets ECHILD,
\* so the statement that tests for it changes nothing.
W_Check ==
  /\ pc[W] = "check"
  /\ Goto(W, IF ~got_sig[W] /\ ~stop[W] THEN "call" ELSE "clear")
  /\ UNCHANGED <<pid, flags, page, pending, astray>>

W_Clear ==
  /\ pc[W] = "clear"
  /\ got_sig' = [got_sig EXCEPT ![W] = FALSE]
  /\ Goto(W, "loop")
  /\ UNCHANGED <<pid, stop, sig_type, page, pending, astray>>

\* The last message, then kill(pid, SIGTERM).
W_Bye ==
  /\ pc[W] = "bye"
  /\ IF pid = R THEN Generate({"TERM"}, {R}) /\ UNCHANGED astray
                ELSE astray' = astray \cup {"TERM"} /\ UNCHANGED pending
  /\ Goto(W, "exit")
  /\ UNCHANGED <<pid, flags, page>>

W_Exit ==
  /\ pc[W] = "exit"
  /\ Goto(W, "dead")
  /\ UNCHANGED <<pid, flags, page, pending, astray>>

-----------------------------------------------------------------------------
(* The reader.                                                             *)

R_Loop ==
  /\ pc[R] = "loop"
  /\ Goto(R, IF stop[R] THEN "bye" ELSE "check")
  /\ UNCHANGED <<pid, flags, page, pending, astray>>

R_Check ==
  /\ pc[R] = "check"
  /\ Goto(R, IF ~got_sig[R] /\ ~stop[R] THEN "call" ELSE "brk")
  /\ UNCHANGED <<pid, flags, page, pending, astray>>

\* if (stop) break; got_sig = 0.
R_Brk ==
  /\ pc[R] = "brk"
  /\ \/ /\ stop[R]
        /\ Goto(R, "bye")
        /\ UNCHANGED <<got_sig, ri>>
     \/ /\ ~stop[R]
        /\ Goto(R, "scan")
        /\ got_sig' = [got_sig EXCEPT ![R] = FALSE]
        /\ ri' = 0
  /\ UNCHANGED <<pid, stop, sig_type, buf, val, wi, exp, turn, seen, pending, astray>>

\* A slot that does not hold the expected value is reported, and the reader
\* goes on from the value it found.
R_Scan ==
  /\ pc[R] = "scan"
  /\ exp' = IF buf[ri] = UINT_MAX THEN 0 ELSE buf[ri] + 1
  /\ seen' = [seen EXCEPT ![ri] = buf[ri]]
  /\ ri' = AfterSlot(ri)
  /\ Goto(R, IF ri < N - 1 THEN "scan" ELSE "kill")
  /\ UNCHANGED <<pid, flags, buf, val, wi, turn, pending, astray>>

\* kill(getppid(), SIGUSR2).  Once the writer has gone the parent is another
\* process.
R_Kill ==
  /\ pc[R] = "kill"
  /\ IF Alive(W)
     THEN /\ Generate({"USR2"}, {W})
          /\ turn' = W
          /\ UNCHANGED astray
     ELSE /\ astray' = astray \cup {"USR2"}
          /\ UNCHANGED <<pending, turn>>
  /\ Goto(R, "loop")
  /\ UNCHANGED <<pid, flags, buf, val, wi, exp, ri, seen>>

R_Bye ==
  /\ pc[R] = "bye"
  /\ Goto(R, "dead")
  /\ UNCHANGED <<pid, flags, page, pending, astray>>

-----------------------------------------------------------------------------
Writer == \/ W_Fork \/ W_Loop \/ W_Fill \/ W_Kill \/ W_Check \/ Suspend(W)
          \/ W_Clear \/ W_Bye \/ W_Exit

Reader == \/ R_Loop \/ R_Check \/ Suspend(R) \/ R_Brk \/ R_Scan \/ R_Kill
          \/ R_Bye

Deliver(p) == Interrupt(p) \/ Wake(p)

Next == Writer \/ Reader \/ (\E p \in Proc : Deliver(p)) \/ UserSignal

Spec == Init /\ [][Next]_vars

\* Both processes are scheduled and the kernel delivers what is pending; the
\* user need not do anything.
Fairness == /\ WF_vars(Writer) /\ WF_vars(Reader)
            /\ \A p \in Proc : WF_vars(Deliver(p))

FairSpec == Spec /\ Fairness

-----------------------------------------------------------------------------
(* What holds.                                                             *)

Label == {"none", "fork", "loop", "fill", "kill", "check", "call", "asleep",
          "clear", "brk", "scan", "bye", "exit", "dead"}

\* The range of every variable.
TypeOK ==
  /\ pc \in [Proc -> Label]
  /\ pid \in {"unset", R, "every"}
  /\ buf \in [Slot -> UInt] /\ seen \in [Slot -> UInt]
  /\ val \in UInt /\ exp \in UInt
  /\ wi \in Slot /\ ri \in Slot
  /\ got_sig \in [Proc -> BOOLEAN] /\ stop \in [Proc -> BOOLEAN]
  /\ sig_type \in [Proc -> Halt \cup {"none"}]
  /\ pending \in [Proc -> SUBSET Signal]
  /\ astray \subseteq Sync \cup {"TERM"}
  /\ turn \in Proc

\* The page is never written and read at the same time: what the exchange of
\* SIGUSR1 and SIGUSR2 is for.
Exclusion == ~(pc[W] = "fill" /\ pc[R] = "scan")

\* When both processes sleep in sigsuspend a signal is on its way to one of
\* them: blocking the two signals around the test leaves no moment at which
\* one of them can be lost.
NoLostWakeup ==
  pc[W] = "asleep" /\ pc[R] = "asleep" => \E p \in Proc : pending[p] # {}

\* A writer that returns from main() has told a reader that is still there to
\* stop, whatever ended its loop (6_part/6.1/6.1_2f.c:229-233): a signal, or a
\* kill() that did not find the reader.
ReaderTold ==
  pc[W] = "exit" /\ Alive(R) => stop[R] \/ "TERM" \in pending[R]

\* The signals of the pair reach other processes only when one of the two is
\* not there: SIGUSR1 and SIGTERM when fork() failed, whose result -1 stands for
\* every process as the target of kill() (6_part/6.1/6.1_2f.c:124, 206, 230);
\* SIGUSR2 when the writer has gone and getppid() names another one (:171).
StraySignals ==
  /\ astray \cap {"USR1", "TERM"} # {} => pid = "every"
  /\ "USR2" \in astray => pc[W] = "dead"

\* Who is signalled, and who is not.
SignalsReach == ReaderTold /\ StraySignals

\* The reader reports a mismatch only where the writer's numbering wraps: it
\* finds 0 when it expects UINT_MAX, which the writer never stores, or when
\* it expects 1, because the writer stores 0 twice.
MismatchOnlyAtWrap ==
  [][R_Scan /\ buf[ri] # exp => buf[ri] = 0 /\ exp \in {1, UINT_MAX}]_vars

\* The pair implements the handoff of a page between a writer and a reader:
\* in particular the reader gives the page back only when it has read it all,
\* and nothing changes meanwhile.
H == INSTANCE Handoff WITH Slots <- Slot, Values <- UInt,
                           page <- buf, taken <- seen
HandoffSpec == H!Spec

\* With nobody stopping them the two take turns for ever.
Undisturbed ==
  pid # "every" /\ \A p \in Proc : pc[p] # "dead" /\ ~stop[p] /\ pending[p] \cap Halt = {}
PingPong == []Undisturbed => []<>(turn = R) /\ []<>(turn = W)

\* A writer that is asked to stop ends, wherever the signal finds it, as long
\* as its reader runs: the reader's SIGUSR2 wakes a writer that went to sleep
\* with stop = 1.
WriterStops ==
  stop[W] ~> pc[W] = "dead" \/ stop[R] \/ pc[R] = "dead" \/ pid = "every"

-----------------------------------------------------------------------------
(* Why it holds: the inductive invariant.                                  *)

\* Which control points belong to whom, and what `pid' says about the reader.
Pairing ==
  /\ pc[W] \notin {"none", "brk", "scan"}
  /\ pc[R] \notin {"fork", "fill", "clear", "exit"}
  /\ pc[W] = "fork" => pid = "unset"
  /\ pid = R <=> pc[R] # "none"
  /\ pc[R] = "none" => turn = W /\ pending[R] = {}

\* A synchronisation signal, pending or already noted in got_sig, is at the
\* process whose turn it is, and there is only one of it; whoever works on
\* the page has consumed it.
OneToken ==
  /\ "USR2" \notin pending[R] /\ "USR1" \notin pending[W]
  /\ "USR1" \in pending[R] \/ got_sig[R] => turn = R
  /\ "USR2" \in pending[W] \/ got_sig[W] => turn = W
  /\ got_sig[R] => "USR1" \notin pending[R]
  /\ got_sig[W] => "USR2" \notin pending[W]
  /\ pc[W] \in {"fork", "fill", "kill"} =>
       turn = W /\ ~got_sig[W] /\ "USR2" \notin pending[W]
  /\ pc[W] = "loop" /\ ~stop[W] =>
       turn = W /\ ~got_sig[W] /\ "USR2" \notin pending[W]
  /\ pc[W] = "clear" => got_sig[W] \/ stop[W]
  /\ pc[R] = "brk" => got_sig[R] \/ stop[R]
  /\ pc[R] \in {"scan", "kill"} =>
       turn = R /\ ~got_sig[R] /\ "USR1" \notin pending[R]

\* A process that waits for a signal during its own turn has it coming.
TokenComing ==
  /\ \A p \in Proc : pc[p] \in {"call", "asleep"} => ~got_sig[p]
  /\ pc[W] \in {"check", "call", "asleep"} /\ turn = W /\ Alive(R) =>
       got_sig[W] \/ "USR2" \in pending[W]
  /\ pc[R] \in {"loop", "check", "call", "asleep"} /\ turn = R /\ Alive(W) =>
       got_sig[R] \/ "USR1" \in pending[R]

\* What the reader has copied of the page it is reading.
CopySoFar ==
  /\ pc[R] = "scan" => \A i \in Slot : i < ri => seen[i] = buf[i]
  /\ pc[R] = "kill" => seen = buf

\* What the reader expects after the value v; whether it may find b where it
\* expects e; and whether it may expect e when the writer's next value is val.
Expect(v)  == IF v = UINT_MAX THEN 0 ELSE v + 1
Follows(e, b) == b = e \/ (b = 0 /\ e \in {1, UINT_MAX})
InStep(e)  == e = val \/ (e = 1 /\ val = 0)

\* The page holds consecutive numbers, up to the wrap, from the slot the
\* reader looks at next to the last one filled.
Numbering ==
  /\ pc[W] = "fill" /\ wi = 0 => InStep(exp)
  /\ pc[W] = "fill" /\ wi > 0 =>
       /\ InStep(Expect(buf[wi - 1]))
       /\ Follows(exp, buf[0])
       /\ \A i \in Slot : i + 1 < wi => Follows(Expect(buf[i]), buf[i + 1])
  /\ pc[W] = "kill" \/ got_sig[R] \/ "USR1" \in pending[R] => Follows(exp, buf[0])
  /\ \/ pc[W] = "kill" \/ got_sig[R] \/ "USR1" \in pending[R]
     \/ pc[R] \in {"scan", "kill"}
     => /\ InStep(Expect(buf[N - 1]))
        /\ \A i \in Slot : i + 1 < N => Follows(Expect(buf[i]), buf[i + 1])
  /\ pc[R] = "scan" /\ ri = 0 => Follows(exp, buf[0])
  /\ pc[R] = "scan" /\ ri > 0 => exp = Expect(buf[ri - 1])
  /\ pc[R] = "kill" => exp = Expect(buf[N - 1])
  /\ got_sig[W] \/ "USR2" \in pending[W] => InStep(exp)
  /\ pc[W] = "fork" \/ (pc[W] = "loop" /\ ~stop[W]) => InStep(exp)

\* The inductive invariant, for a user who leaves SIGUSR1 and SIGUSR2 to the
\* program.
IInv == TypeOK /\ Pairing /\ OneToken /\ TokenComing /\ CopySoFar /\ Numbering

OnlyStops == \A u \in UserSignals : u.sig \notin Sync

-----------------------------------------------------------------------------
(* What the comments of the program say and the program does not do.       *)

\* A process that is asked to stop leaves its loops (6_part/6.1/6.1_2f.c:39-40).
StopEnds == \A p \in Proc : stop[p] ~> pc[p] = "dead"

\* When the reader has died the writer notices and leaves its loops
\* (6_part/6.1/6.1_2f.c:206-208, 215-216).
WriterFollows == pc[R] = "dead" ~> pc[W] = "dead"
=============================================================================
