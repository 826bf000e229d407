---------------------------- MODULE CopyOnWrite ----------------------------
(***************************************************************************)
(* 5_part/5.1/5.1_d.c: a process and its fork print, before and after the  *)
(* child changes them, the values of a global and of a local variable and  *)
(* the numbers (PFN) of the physical frames they are in.                   *)
(*                                                                         *)
(* A page is known by the variable on it: "data" holds global_var, "stack" *)
(* holds local_var; its content is the value of the variable.  The kernel  *)
(* copies a frame when a process writes to it and another one uses it too. *)
(* fork() copies more than variables: output that stdio has not written    *)
(* yet is in memory as well.                                               *)
(***************************************************************************)
EXTENDS Integers, Sequences, Functions, FiniteSets

CONSTANTS
  Frames,    \* PFNs of the frames the kernel may use
  Killable,  \* processes a user may kill
  Signals,   \* signals that end a process
  Garbage    \* what may be on the stack where main() has its status

P == "parent"
C == "child"
Proc == {P, C}
Page == {"data", "stack"}
None == 0     \* get_page()'s failure, and no frame
NoCode == -1  \* the parent prints no exit code

ASSUME CopyOnWriteAssumption ==
  /\ Frames \subseteq Nat \ {None}
  /\ Killable \subseteq Proc
  /\ Signals \subseteq 1 .. 64
  /\ Garbage \subseteq Int

VARIABLES
  pc,       \* where each process is
  table,    \* the page table of each process
  content,  \* what is in each frame
  buf,      \* of each process, reports that stdio has not written yet
  out,      \* the reports on standard output
  fate,     \* how each process ended, as the kernel keeps it for waitpid()
  status,   \* the parent's status
  code,     \* the exit code that the parent prints
  env       \* what the program finds when it starts; see Init

vars == <<pc, table, content, buf, out, fate, status, code, env>>

pages == <<table, content>>
output == <<buf, out>>
endings == <<fate, status, code>>

Dead == {"none", "exited", "killed"}
Running == {p \in Proc : pc[p] \notin Dead}
NoPages == [page \in Page |-> None]

At(p, l) == pc[p] = l
Goto(p, l) == pc' = [pc EXCEPT ![p] = l]

Shared(p, page) ==
  \E q \in Proc, r \in Page : <<q, r>> # <<p, page>> /\ table[q][r] = table[p][page]

Free == {f \in Frames : \A p \in Proc, page \in Page : table[p][page] # f}

\* The value that p finds in a page.
Value(p, page) == content[table[p][page]]

\* The word that waitpid() stores: the low byte of exit()'s argument in bits 8 to
\* 15, or the signal in bits 0 to 6 with bit 7 for a core dump.
ExitWord(n) == (n % 256) * 256
KillWords == {signal + core : signal \in Signals, core \in {0, 128}}

WIFEXITED(word) == word % 128 = 0
WEXITSTATUS(word) == (word \div 256) % 256

\* tty: standard output is a terminal, so that stdio writes every line at once.
\* calls_near: what main() and the functions it calls keep on the stack is on
\* the page of local_var.  privileged: pagemap shows PFNs to this user.
\* autoreap: SIGCHLD was ignored when the program was started.
Init ==
  /\ pc = [p \in Proc |-> IF p = P THEN "before" ELSE "none"]
  /\ \E d \in Frames : \E s \in Frames \ {d} :
       /\ table = [p \in Proc |-> IF p = C THEN NoPages
                     ELSE [page \in Page |-> IF page = "data" THEN d ELSE s]]
       /\ content = [f \in Frames |-> CASE f = d -> 100 [] f = s -> 10 [] OTHER -> 0]
  /\ buf = [p \in Proc |-> <<>>] /\ out = <<>>
  /\ fate = [p \in Proc |-> 0] /\ status \in Garbage /\ code = NoCode
  /\ env \in [tty : BOOLEAN, calls_near : BOOLEAN, privileged : BOOLEAN, autoreap : BOOLEAN]

-----------------------------------------------------------------------------
(* Faulty variants *)

\* The frame is written although another process uses it (shared memory).
Store_InPlace(p, page, value) ==
  /\ content' = [content EXCEPT ![table[p][page]] = value]
  /\ UNCHANGED table

\* fork() copies the frames at once.
P_Fork_Eager ==
  /\ At(P, "fork")
  /\ \E d \in Free : \E s \in Free \ {d} :
       /\ table' = [table EXCEPT ![C] = [page \in Page |-> IF page = "data" THEN d ELSE s]]
       /\ content' = [content EXCEPT ![d] = Value(P, "data"), ![s] = Value(P, "stack")]
  /\ pc' = [p \in Proc |-> "forked"]
  /\ buf' = [buf EXCEPT ![C] = buf[P]]
  /\ UNCHANGED <<out, endings, env>>

\* With fflush(stdout) before the fork.
P_Fork_Flushed ==
  /\ At(P, "fork")
  /\ pc' = [p \in Proc |-> "forked"]
  /\ table' = [table EXCEPT ![C] = table[P]]
  /\ out' = out \o buf[P] /\ buf' = [p \in Proc |-> <<>>]
  /\ UNCHANGED <<content, endings, env>>

\* Without WIFEXITED.
P_Report_Unchecked ==
  /\ At(P, "report")
  /\ code' = WEXITSTATUS(status)
  /\ Goto(P, "return")
  /\ UNCHANGED <<pages, output, fate, status, env>>

\* The parent calls waitpid() again until the child has called exit().
P_Wait_Exited ==
  /\ At(P, "wait") /\ At(C, "exited")
  /\ status' = IF env.autoreap THEN status ELSE fate[C]
  /\ Goto(P, "report")
  /\ UNCHANGED <<pages, output, fate, code, env>>

-----------------------------------------------------------------------------
(* Memory *)

\* p writes to a page: in place when the frame is its own, into a copy otherwise.
Store(p, page, value) ==
  \/ /\ ~Shared(p, page)
     /\ content' = [content EXCEPT ![table[p][page]] = value]
     /\ UNCHANGED table
  \/ /\ Shared(p, page)
     /\ \E f \in Free :
          /\ table' = [table EXCEPT ![p][page] = f]
          /\ content' = [content EXCEPT ![f] = value]

\* The PFN of a page in RAM, 0 without the right to know it.
get_page(p, page) == IF env.privileged THEN table[p][page] ELSE 0

\* What one call of print_ptrs() prints.
Report(p, label) ==
  [by |-> p, label |-> label,
   pfn |-> [page \in Page |-> get_page(p, page)],
   val |-> [page \in Page |-> Value(p, page)]]

\* No other process changes p's table or its pages, so the call is one step.  Its
\* own stack frame is on a page that p has had for itself since Returned.
print_ptrs(p, label, next) ==
  /\ At(p, label)
  /\ \/ env.tty /\ out' = Append(out, Report(p, label)) /\ UNCHANGED buf
     \/ ~env.tty /\ buf' = [buf EXCEPT ![p] = Append(@, Report(p, label))] /\ UNCHANGED out
  /\ Goto(p, next)
  /\ UNCHANGED <<pages, endings, env>>

\* exit(n): stdio writes what it holds, the kernel takes the pages back.
Exit(p, n) ==
  /\ out' = out \o buf[p] /\ buf' = [buf EXCEPT ![p] = <<>>]
  /\ table' = [table EXCEPT ![p] = NoPages]
  /\ fate' = [fate EXCEPT ![p] = ExitWord(n)]
  /\ Goto(p, "exited")
  /\ UNCHANGED <<content, status, code, env>>

-----------------------------------------------------------------------------
(* The processes *)

\* Parent and child share every frame; the child has the parent's buffer too.
P_Fork ==
  /\ At(P, "fork")
  /\ pc' = [p \in Proc |-> "forked"]
  /\ table' = [table EXCEPT ![C] = table[P]]
  /\ buf' = [buf EXCEPT ![C] = buf[P]]
  /\ UNCHANGED <<content, out, endings, env>>

P_ForkFails == At(P, "fork") /\ Exit(P, 1)

\* fork() returns in p, which writes to its stack; local_var keeps its value.
Returned(p, next) ==
  /\ At(p, "forked")
  /\ \/ env.calls_near /\ Store(p, "stack", Value(p, "stack"))
     \/ ~env.calls_near /\ UNCHANGED pages
  /\ Goto(p, next)
  /\ UNCHANGED <<output, endings, env>>

C_WriteGlobal ==
  /\ At(C, "write global")
  /\ Store(C, "data", 200)
  /\ Goto(C, "write local")
  /\ UNCHANGED <<output, endings, env>>

C_WriteLocal ==
  /\ At(C, "write local")
  /\ Store(C, "stack", 20)
  /\ Goto(C, "written")
  /\ UNCHANGED <<output, endings, env>>

C_Exit == At(C, "exit") /\ Exit(C, 5)

\* waitpid() returns when the child is gone.  With SIGCHLD ignored it fails then,
\* and status stays uninitialised.
P_Wait ==
  /\ At(P, "wait") /\ pc[C] \in Dead
  /\ status' = IF env.autoreap THEN status ELSE fate[C]
  /\ Goto(P, "report")
  /\ UNCHANGED <<pages, output, fate, code, env>>

P_Report ==
  /\ At(P, "report")
  /\ code' = IF WIFEXITED(status) THEN WEXITSTATUS(status) ELSE code
  /\ Goto(P, "return")
  /\ UNCHANGED <<pages, output, fate, status, env>>

P_Return == At(P, "return") /\ Exit(P, 0)

\* A user kills p: what stdio holds is lost.
Kill(p) ==
  /\ p \in Running \cap Killable
  /\ table' = [table EXCEPT ![p] = NoPages]
  /\ buf' = [buf EXCEPT ![p] = <<>>]
  /\ \E word \in KillWords : fate' = [fate EXCEPT ![p] = word]
  /\ Goto(p, "killed")
  /\ UNCHANGED <<content, out, status, code, env>>

\* sleep(2) before the parent's last report orders nothing.
Parent ==
  \/ print_ptrs(P, "before", "fork")
  \/ P_Fork \/ P_ForkFails
  \/ Returned(P, "after")
  \/ print_ptrs(P, "after", "wait")
  \/ P_Wait \/ P_Report \/ P_Return

Child ==
  \/ Returned(C, "read")
  \/ print_ptrs(C, "read", "write global")
  \/ C_WriteGlobal \/ C_WriteLocal
  \/ print_ptrs(C, "written", "exit")
  \/ C_Exit

Next == Parent \/ Child \/ \E p \in Proc : Kill(p)

Spec == Init /\ [][Next]_vars

\* The scheduler runs a process that can go on; users need not kill.
FairSpec == Spec /\ WF_vars(Parent) /\ WF_vars(Child)

-----------------------------------------------------------------------------
(* Properties *)

\* All reports made and not lost, written or not.
Shown == Range(out) \cup UNION {Range(buf[p]) : p \in Proc}

Copies(label) == Cardinality({k \in DOMAIN out : out[k].label = label})

\* Every variable has its type, and a process that runs has all its pages, each
\* in a frame of its own or in one it shares with the same page of the other.
TypeOK ==
  /\ pc \in [Proc -> Dead \cup {"before", "fork", "forked", "after", "wait", "report", "return",
                                "read", "write global", "write local", "written", "exit"}]
  /\ table \in [Proc -> [Page -> Frames \cup {None}]]
  /\ \A p \in Proc, page \in Page : (table[p][page] = None) = (p \notin Running)
  /\ \A p \in Running, q \in Running : table[p]["data"] # table[q]["stack"]
  /\ content \in [Frames -> {0, 10, 20, 100, 200}]
  /\ fate \in [Proc -> Int] /\ status \in Int /\ code \in Int
  /\ \A r \in Shown : r.by \in Proc /\ r.label \in {"before", "read", "written", "after"}

\* What the processes that run find in their pages.
MemoryOf == [p \in Running |-> [page \in Page |-> Value(p, page)]]

\* The child starts with its parent's memory, and from then on no write of one
\* is seen by the other, whoever copies a frame first and whoever is gone (lines
\* 116-120, 142-144).
PM == INSTANCE PrivateMemory WITH Parent <- P, Child <- C, Pages <- Page, running <- Running,
        memory <- MemoryOf
PrivateMemorySpec == PM!Spec

\* The values printed are those of the program's text: 200 and 20 in the child
\* after it has written, 100 and 10 everywhere else, at whatever time the parent
\* prints (lines 142-145).
ShownIsPrivate ==
  \A r \in Shown : <<r.val["data"], r.val["stack"]>> =
                     IF r.label = "written" THEN <<200, 20>> ELSE <<100, 10>>

\* The frame of global_var that is printed: the child's is the parent's until
\* it writes (lines 109-111), another one after that (122-124) unless nobody
\* was left to share it with, and the parent's never changes (142-144).
DataFrame ==
  env.privileged =>
    \A r \in Shown, b \in Shown :
      b.label = "before" =>
        IF r.label = "written"
        THEN ~At(P, "killed") => r.pfn["data"] # b.pfn["data"]
        ELSE r.pfn["data"] = b.pfn["data"]

\* Pages, frames and what is printed of them.
ReportsTrue == TypeOK /\ ShownIsPrivate /\ DataFrame

\* On a terminal a report is printed once; in a file or a pipe the first one,
\* which is in the buffer when main() forks, comes once from each process that
\* calls exit() (lines 87-94, 129, 162).
PrintedOnce ==
  /\ \A label \in {"read", "written", "after"} : Copies(label) <= 1
  /\ env.tty => Copies("before") <= 1
  /\ ~env.tty => Copies("before") = Cardinality({p \in Proc : At(p, "exited")})

\* In a file the child's reports are before the parent's last one, since the
\* parent waits for the child before it returns (lines 153, 162); on a terminal
\* only the sleep speaks for it.
ChildFirstInFile ==
  ~env.tty => \A j \in DOMAIN out, k \in DOMAIN out :
                out[j].label = "after" /\ out[k].by = C => k < j

\* Each report comes as often as it should, and in a file in order.
Printed == PrintedOnce /\ ChildFirstInFile

\* The parent prints a code only when the child has called exit(), the code is the
\* one that the child passed to it, and then all that the child printed is out; and
\* when the child has called exit() the code is printed (lines 127-129, 147-159).
\* It holds unless SIGCHLD is ignored: then status may be anything.
CodeIsTheChilds ==
  ~env.autoreap =>
    /\ code # NoCode => At(C, "exited") /\ code = 5 /\ Copies("read") = 1 /\ Copies("written") = 1
    /\ At(P, "return") => (code # NoCode) = At(C, "exited")

\* Both processes end, whoever is killed: the parent does not wait for ever.
AllEnd == <>[](Running = {})
=============================================================================
