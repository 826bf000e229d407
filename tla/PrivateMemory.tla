--------------------------- MODULE PrivateMemory ---------------------------
(***************************************************************************)
(* What fork() promises: the child starts with a copy of its parent's      *)
(* memory, and from then on neither sees what the other writes.            *)
(***************************************************************************)
EXTENDS Integers

CONSTANTS Parent, Child, Pages

VARIABLES
  running,  \* the processes with an address space
  memory    \* the content of each page of each process

Init ==
  /\ running = {Parent}
  /\ memory \in [{Parent} -> [Pages -> Int]]

Fork ==
  /\ running = {Parent}
  /\ running' = {Parent, Child}
  /\ memory' = [p \in running' |-> memory[Parent]]

Write(p, page, value) ==
  /\ p \in running
  /\ memory' = [memory EXCEPT ![p][page] = value]
  /\ UNCHANGED running

Exit(p) ==
  /\ p \in running
  /\ running' = running \ {p}
  /\ memory' = [q \in running' |-> memory[q]]

Next ==
  \/ Fork
  \/ \E p \in running : Exit(p)
  \/ \E p \in running, page \in Pages :
       Write(p, page, memory'[p][page])

Spec == Init /\ [][Next]_<<running, memory>>
=============================================================================
