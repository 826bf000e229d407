------------------------------- MODULE Family -------------------------------
(***************************************************************************)
(* 5_part/5.2: three programs that show what becomes of processes whose    *)
(* parent does not wait.  5.2_d.c holds two of them (5.2.c and 5.2_2.c     *)
(* with comments): in `zombie' the parent sleeps while its child has       *)
(* ended, in `orphan' it ends before its child.  5.2_3.c (`three') has a   *)
(* grandfather (Ded), a father (Papa) and a son (Syn) and does both.       *)
(*                                                                         *)
(* What a process does is a list of steps; a sleep may take any time.      *)
(***************************************************************************)
EXTENDS Sequences, FiniteSets, Integers

CONSTANTS
  Killable   \* processes a user may kill

Proc == {"first", "second", "third"}
Outside == {"shell", "adopter"}   \* who started the program; who takes orphans

ASSUME FamilyAssumption == Killable \subseteq Proc

VARIABLES
  program,   \* "zombie", "orphan" or "three"
  tty,       \* standard output is a terminal
  autoreap,  \* SIGCHLD inherited as ignored: children leave no zombies
  pc,        \* number of the step a process is at
  life,      \* "none", "running", "zombie", "gone"
  parent,    \* who getppid() names
  killed,    \* the processes that did not end by themselves
  buf, out,  \* lines in the stdio buffer of each process, and written
  told       \* history: what getppid() has answered to each process

env  == <<program, tty, autoreap>>
vars == <<env, pc, life, parent, killed, buf, out, told>>

Line(line) == [op |-> "print", line |-> line]
PpidLine(line) == [op |-> "ppid", line |-> line]
Sleep == [op |-> "sleep"]
Wait == [op |-> "wait"]
Exit == [op |-> "exit"]
Fork(child) == [op |-> "fork", child |-> child]

\* Faulty: the parent waits before it sleeps.
zombie_Waits ==
  [first  |-> <<Fork("second"), Wait, Line("sleeps"), Sleep, Exit>>,
   second |-> <<Line("becomes a zombie"), Exit>>,
   third  |-> <<>>]

\* 5.2_d.c:6-41
zombie == [first  |-> <<Fork("second"), Line("sleeps"), Sleep, Exit>>,
           second |-> <<Line("becomes a zombie"), Exit>>,
           third  |-> <<>>]

\* 5.2_d.c:49-90
orphan == [first  |-> <<Fork("second"), Line("created a child"), Exit>>,
           second |-> <<PpidLine("original parent"), Sleep, Line("awake"),
                        PpidLine("new parent"), Sleep, Exit>>,
           third  |-> <<>>]

\* Faulty: wait(NULL) forgotten; Ded prints before he forks.
three_NoWait ==
  [first  |-> <<Fork("second"), Line("my child"), Line("I sleep"), Sleep, Line("collected"), Exit>>,
   second |-> <<PpidLine("Ded is my parent"), Fork("third"), Line("created Syn"), Exit>>,
   third  |-> <<Sleep, PpidLine("living Papa"), PpidLine("new parent"), Sleep, Line("I end"), Exit>>]
three_PrintFirst ==
  [three_NoWait EXCEPT !.first = <<Line("my child"), Fork("second"), Line("I sleep"), Sleep, Wait,
                                   Line("collected"), Exit>>]
\* 5.2_3.c:6-53
three ==
  [first  |-> <<Fork("second"), Line("my child"), Line("I sleep"), Sleep, Wait,
                Line("collected"), Exit>>,
   second |-> <<PpidLine("Ded is my parent"), Fork("third"), Line("created Syn"), Exit>>,
   third  |-> <<Sleep, PpidLine("living Papa"), PpidLine("new parent"), Sleep, Line("I end"), Exit>>]

Script == CASE program = "zombie" -> zombie [] program = "orphan" -> orphan
            [] program = "three" -> three

Init ==
  /\ program \in {"zombie", "orphan", "three"} /\ tty \in BOOLEAN /\ autoreap \in BOOLEAN
  /\ pc = [p \in Proc |-> 1]
  /\ life = [p \in Proc |-> IF p = "first" THEN "running" ELSE "none"]
  /\ parent = [p \in Proc |-> "shell"]
  /\ killed = {} /\ out = <<>>
  /\ buf = [p \in Proc |-> <<>>] /\ told = [p \in Proc |-> <<>>]

-----------------------------------------------------------------------------
(* The kernel.                                                             *)

\* p is about to do a step of the kind op.
At(p, op) == life[p] = "running" /\ Script[p][pc[p]].op = op

Children(p) == {c \in Proc : life[c] \in {"running", "zombie"} /\ parent[c] = p}

\* p ends: a zombie until its parent collects it, unless its parent ignores
\* SIGCHLD; its own children, zombies too, get another parent.
Ends(p) ==
  /\ life' = [life EXCEPT ![p] = IF autoreap /\ parent[p] \in Proc THEN "gone" ELSE "zombie"]
  /\ parent' = [c \in Proc |-> IF c \in Children(p) THEN "adopter" ELSE parent[c]]

\* The shell and the adopter collect their children.
Reap(p) ==
  /\ life[p] = "zombie" /\ parent[p] \in Outside
  /\ life' = [life EXCEPT ![p] = "gone"]
  /\ UNCHANGED <<env, pc, parent, killed, buf, out, told>>

Kill(p) ==
  /\ p \in Killable /\ life[p] = "running"
  /\ Ends(p) /\ killed' = killed \cup {p}
  /\ UNCHANGED <<env, pc, buf, out, told>>

-----------------------------------------------------------------------------
(* The steps.                                                              *)

OneStep(p) == pc' = [pc EXCEPT ![p] = @ + 1]

\* A line, written at once or kept in the buffer until the process ends.
Put(p, line) ==
  IF tty THEN out' = Append(out, line) /\ UNCHANGED buf
         ELSE buf' = [buf EXCEPT ![p] = Append(@, line)] /\ UNCHANGED out

DoPrint(p) ==
  /\ At(p, "print") /\ OneStep(p)
  /\ Put(p, Script[p][pc[p]].line)
  /\ UNCHANGED <<env, life, parent, killed, told>>

\* A line with the answer of getppid().
DoPrintPpid(p) ==
  /\ At(p, "ppid") /\ OneStep(p)
  /\ Put(p, Script[p][pc[p]].line)
  /\ told' = [told EXCEPT ![p] = Append(@, parent[p])]
  /\ UNCHANGED <<env, life, parent, killed>>

DoSleep(p) ==
  /\ At(p, "sleep") /\ OneStep(p)
  /\ UNCHANGED <<env, life, parent, killed, buf, out, told>>

\* exit() writes what is left in the buffer.
DoExit(p) ==
  /\ At(p, "exit")
  /\ out' = out \o buf[p]
  /\ Ends(p)
  /\ UNCHANGED <<env, pc, killed, buf, told>>

\* The child starts with a copy of its parent's buffer.  A process that cannot
\* have a child exits.
DoFork(p) ==
  /\ At(p, "fork")
  /\ \/ LET c == Script[p][pc[p]].child
        IN /\ life' = [life EXCEPT ![c] = "running"]
           /\ parent' = [parent EXCEPT ![c] = p]
           /\ buf' = [buf EXCEPT ![c] = buf[p]]
           /\ OneStep(p)
           /\ UNCHANGED out
     \/ out' = out \o buf[p] /\ Ends(p) /\ UNCHANGED <<pc, buf>>
  /\ UNCHANGED <<env, killed, told>>

\* Faulty: wait() is called until it collects a child.
DoWait_UntilSuccess(p) ==
  /\ At(p, "wait")
  /\ \E c \in Children(p) : life[c] = "zombie" /\ life' = [life EXCEPT ![c] = "gone"]
  /\ OneStep(p)
  /\ UNCHANGED <<env, parent, killed, buf, out, told>>

\* wait(NULL) collects a child; it fails, which nobody notices, without one.
DoWait(p) ==
  /\ At(p, "wait") /\ OneStep(p)
  /\ \/ \E c \in Children(p) : life[c] = "zombie" /\ life' = [life EXCEPT ![c] = "gone"]
     \/ Children(p) = {} /\ UNCHANGED life
  /\ UNCHANGED <<env, parent, killed, buf, out, told>>

Run(p) ==
  DoPrint(p) \/ DoPrintPpid(p) \/ DoSleep(p) \/ DoExit(p) \/ DoFork(p) \/ DoWait(p)

Next == \E p \in Proc : Run(p) \/ Reap(p) \/ Kill(p)

Spec == Init /\ [][Next]_vars

\* Processes are scheduled, sleeps end, and who is outside collects its children.
FairSpec == Spec /\ \A p \in Proc : WF_vars(Run(p)) /\ WF_vars(Reap(p))

-----------------------------------------------------------------------------
(* Properties *)

Forker(p) == IF p = "third" THEN "second" ELSE "first"
Written(line) == {k \in DOMAIN out : out[k] = line}

\* Types, and the kernel's tree: a running process never has a parent that has
\* ended, it is its forker's or has been adopted.
TypeOK ==
  /\ \A p \in Proc : life[p] = "none" \/ pc[p] \in 1 .. Len(Script[p])
  /\ life \in [Proc -> {"none", "running", "zombie", "gone"}]
  /\ parent["first"] = "shell" /\ killed \subseteq Proc
  /\ \A p \in Proc \ {"first"} : life[p] = "running" =>
       parent[p] = IF life[Forker(p)] = "running" THEN Forker(p) ELSE "adopter"

\* "Papa has been collected" (5.2_3.c:21) is true when it is printed, although
\* the result of wait() is not looked at (:20): no zombie is left, whether Papa
\* ended by itself or not and whoever collected him.
CollectedTruly ==
  (\E p \in Proc : \E k \in DOMAIN buf[p] : buf[p][k] = "collected") \/ Written("collected") # {} =>
    life["second"] = "gone"

\* A line is printed once by whoever prints it, with one exception: into a file
\* or a pipe Papa's first line (5.2_3.c:24) is still in his buffer when he forks,
\* and Syn prints it as well, if both live to print it.
LinesOnce ==
  \A line \in {out[k] : k \in DOMAIN out} :
    Cardinality(Written(line)) <= IF line = "Ded is my parent" /\ ~tty THEN 2 ELSE 1

\* Papa says that he has created Syn before Ded says that Papa has been
\* collected; into a file, Ded writes nothing at all before Papa has written it
\* (5.2_3.c:15-21, 35): what keeps the order is wait(), not the sleeps.
OutputOrder ==
  \A k \in Written("created Syn"), l \in DOMAIN out :
    out[l] = "collected" \/ (out[l] \in {"my child", "I sleep"} /\ ~tty) => k < l

\* A child that is told of another parent (5.2_d.c:70-83, 5.2_3.c:24-44) has
\* lost its own one for good, even where the text says "my original parent" or
\* "my living Papa"; it is told so by every later line.
AdoptedForGood ==
  \A p \in Proc : \A k \in DOMAIN told[p] :
    told[p][k] = "adopter" =>
      /\ life[Forker(p)] # "running"
      /\ \A l \in DOMAIN told[p] : k < l => told[p][l] = "adopter"

\* The lines, and what they say of Papa's end and by naming another parent.  That
\* the text beside the number fits it is not claimed: in 5.2_d.c:70 and
\* 5.2_3.c:41 it need not.
Printed == LinesOnce /\ OutputOrder
EndsToldTruly == TypeOK /\ CollectedTruly /\ AdoptedForGood

\* A child that has ended stays a zombie while its parent sleeps (5.2_d.c:21-33,
\* 5.2_3.c:17): it goes when its parent waits, or has ended itself.
ZombieStays ==
  [][\A p \in Proc \ {"first"} :
       life[p] = "zombie" /\ life'[p] = "gone" =>
         life[Forker(p)] # "running" \/ (program = "three" /\ At("first", "wait"))]_vars

\* In the end no process is left, not even as a zombie, whoever was killed: Ded
\* does not wait for ever for a child that is not there (5.2_3.c:20), and
\* zombies and orphans go with their parents or their adopter.
NobodyLeft == <>(\A p \in Proc : life[p] \in {"none", "gone"})
=============================================================================
