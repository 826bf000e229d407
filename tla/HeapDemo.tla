------------------------------ MODULE HeapDemo ------------------------------
(***************************************************************************)
(* main() of 4_part/4.3/4.3.c on the heap of module Heap: a fixed series   *)
(* of calls, each followed by print_heap() and by a wait for Enter.  The   *)
(* only input is standard input, a finite text; getchar() gives EOF for    *)
(* ever once it is used up.                                                *)
(***************************************************************************)
EXTENDS Heap, Sequences

CONSTANT Inputs    \* the texts standard input may hold, over {"x", "nl"}

VARIABLES
  line,     \* the statement of Script that main() is at
  stdin,    \* what has not been read yet
  a         \* main's pointer a

demo == <<vars, line, stdin, a>>

\* The statements of main() after init_heap_file: a request, my_free(a),
\* print_heap and wait_for_enter.
Shown(op, n) == <<[op |-> op, n |-> n], [op |-> "print", n |-> 0], [op |-> "wait", n |-> 0]>>

Script == <<[op |-> "print", n |-> 0], [op |-> "wait", n |-> 0]>>
          \o Shown("malloc", 100) \o Shown("malloc", 200) \o Shown("free", 0)
          \o Shown("malloc", 50) \o Shown("malloc", 50000)

Done == line > Len(Script)
At(op) == pc = "idle" /\ ~Done /\ Script[line].op = op

DemoInit == Init /\ line = 1 /\ stdin \in Inputs /\ a = NULL

Start == init_heap_file /\ UNCHANGED <<line, stdin, a>>

\* One call of my_malloc or print_heap, or the rest of the one under way.
Work ==
  /\ \/ At("malloc") /\ my_malloc(Script[line].n) /\ UNCHANGED line
     \/ At("print") /\ print_heap /\ UNCHANGED line
     \/ Visit /\ line' = IF pc' = "idle" THEN line + 1 ELSE line
  \* The first request is the one whose result is kept in a.
  /\ a' = IF Found /\ Script[line].n = 100 THEN ret' ELSE a
  /\ UNCHANGED stdin

Release ==
  /\ At("free")
  /\ my_free(a)
  /\ line' = line + 1
  /\ UNCHANGED <<stdin, a>>

\* Faulty: one more character is read after the newline.
wait_for_enter_ReadsOn ==
  /\ At("wait")
  /\ IF Len(stdin) < 2
     THEN UNCHANGED <<line, stdin>>
     ELSE IF Head(stdin) = "nl"
     THEN stdin' = Tail(Tail(stdin)) /\ line' = line + 1
     ELSE stdin' = Tail(stdin) /\ UNCHANGED line
  /\ UNCHANGED <<vars, a>>

\* while(getchar() != '\n'): EOF is not a newline.
wait_for_enter ==
  /\ At("wait")
  /\ IF stdin = <<>>
     THEN UNCHANGED <<line, stdin>>
     ELSE /\ stdin' = Tail(stdin)
          /\ line' = IF Head(stdin) = "nl" THEN line + 1 ELSE line
  /\ UNCHANGED <<vars, a>>

DemoNext == Start \/ Work \/ Release \/ wait_for_enter

DemoSpec == DemoInit /\ [][DemoNext]_demo /\ WF_demo(DemoNext)

-----------------------------------------------------------------------------
\* The program leaves in heap.bin the blocks that the recorded
\* 4_part/4.3/heap.bin holds: 50 bytes in use, the 26 left over when the
\* freed 100 were split, 200 in use and 652 that 50000 did not fit in.
RecordedHeap ==
  [b \in {0, 74, 124, 348} |->
     CASE b = 0   -> [size |-> 50,  free |-> FALSE, next |-> 74]
       [] b = 74  -> [size |-> 26,  free |-> TRUE,  next |-> 124]
       [] b = 124 -> [size |-> 200, free |-> FALSE, next |-> 348]
       [] b = 348 -> [size |-> 652, free |-> TRUE,  next |-> NULL]]

EndsAsRecorded == Done /\ heap = 0 => hdr = RecordedHeap /\ ret = NULL

Newlines(text) == SelectSeq(text, LAMBDA c : c = "nl")
Waits == SelectSeq(Script, LAMBDA s : s.op = "wait")
Enough == Len(Newlines(stdin)) >= Len(Waits)

\* With one newline in the input for each wait main() comes to its end, whatever else
\* is typed before the newlines; with fewer it asks for characters for ever after the
\* end of the input (:53).  When mmap has failed it crashes in the first print_heap.
DemoEnds ==
  /\ pc = "start" /\ Enough ~> Done \/ pc = "crashed"
  /\ pc = "start" /\ ~Enough ~> [](At("wait") /\ stdin = <<>>) \/ pc = "crashed"

-----------------------------------------------------------------------------
(* Why: the blocks after each statement, with the sizes of the program.    *)

ProgramSizes == HEAP_SIZE = 1024 /\ HDR = 24 /\ SLACK = 16

Used(n, next) == [size |-> n, free |-> FALSE, next |-> next]
Unused(n, next) == [size |-> n, free |-> TRUE, next |-> next]

\* At the beginning, and after the requests for 100 and 200, my_free(a) and the
\* request for 50.
Blocks0 == [b \in {0} |-> Unused(1000, NULL)]
Blocks1 == [b \in {0, 124} |-> IF b = 0 THEN Used(100, 124) ELSE Unused(876, NULL)]
Blocks2 == [b \in {0, 124, 348} |->
              IF b = 0 THEN Used(100, 124) ELSE IF b = 124 THEN Used(200, 348) ELSE Unused(652, NULL)]
Blocks3 == [b \in {0, 124, 348} |->
              IF b = 0 THEN Unused(100, 124) ELSE IF b = 124 THEN Used(200, 348) ELSE Unused(652, NULL)]

BlocksAt ==
  /\ line \in 1 .. 3 => hdr = Blocks0
  /\ line \in 4 .. 6 => hdr = Blocks1
  /\ line \in 7 .. 9 => hdr = Blocks2
  /\ line \in 10 .. 12 => hdr = Blocks3
  /\ line \in 13 .. 18 => hdr = RecordedHeap

\* Where a walk may be: the first request is served by the first block, the
\* second and the third by the first that is free.
WalkAt ==
  /\ pc = "malloc" => line \in {3, 6, 12, 15} /\ req = Script[line].n
  /\ pc = "malloc" /\ line \in {3, 12} => cur = 0
  /\ pc = "malloc" /\ line = 6 => cur \in {0, 124}
  /\ pc = "malloc" /\ line = 15 => cur \in {0, 74, 124, 348, NULL}
  /\ pc = "print" => line \in {1, 4, 7, 10, 13, 16} /\ cur \in Blocks \cup {NULL}

DemoInv ==
  /\ pc = "start" => line = 1 /\ heap = NULL /\ a = NULL
  /\ heap = 0 =>
       /\ pc \in {"idle", "malloc", "print"} /\ line \in 1 .. 18
       /\ BlocksAt /\ WalkAt
       /\ line >= 4 => a = HDR
       /\ line >= 16 => ret = NULL
=============================================================================
