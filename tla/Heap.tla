-------------------------------- MODULE Heap --------------------------------
(***************************************************************************)
(* 4_part/4.3/4.3.c: a heap in a mapped file, as a list of blocks.  Each   *)
(* block starts with a header (block_t) and my_malloc takes the first free *)
(* block that is large enough, splitting it when enough is left over.      *)
(*                                                                         *)
(* Addresses are offsets from the start of the mapping.  hdr holds the     *)
(* headers written so far, by address.  One step per block of the list     *)
(* visited; the caller of the heap is anybody who passes to my_free only   *)
(* pointers my_malloc gave it.                                             *)
(***************************************************************************)
EXTENDS Integers

CONSTANTS
  HEAP_SIZE,   \* length of the mapping
  HDR,         \* sizeof(block_t)
  SLACK,       \* a split must leave more than this beside the new header
  WORD,        \* size_t counts modulo WORD
  Requests     \* the sizes asked for

ASSUME HeapAssumption ==
  /\ HDR \in Nat \ {0} /\ SLACK \in Nat
  /\ HEAP_SIZE \in Nat /\ HEAP_SIZE >= HDR
  /\ WORD \in Nat /\ WORD > HEAP_SIZE + HDR + SLACK
  /\ Requests \subseteq 0 .. WORD - 1

NULL == -1
MAP_FAILED == -2

VARIABLES
  pc,       \* what the program is doing: "start", "idle", "malloc", "print", "crashed"
  heap,     \* the global pointer
  hdr,      \* the headers in the mapping
  cur, req, \* my_malloc's cursor (or print_heap's) and argument
  ret,      \* what my_malloc returned last
  live      \* the pointers the caller holds, with the size it asked for

vars == <<pc, heap, hdr, cur, req, ret, live>>

Blocks == DOMAIN hdr
End(b) == b + HDR + hdr[b].size

\* size_t arithmetic.
Plus(x, y)  == IF x + y < WORD THEN x + y ELSE x + y - WORD
Minus(x, y) == IF x >= y THEN x - y ELSE x - y + WORD

Init ==
  /\ pc = "start"
  /\ heap = NULL
  /\ hdr = [b \in {} |-> [size |-> 0, free |-> TRUE, next |-> NULL]]
  /\ cur = NULL /\ req = 0 /\ ret = NULL
  /\ live = [p \in {} |-> 0]

\* When open or ftruncate fails heap stays NULL; when mmap fails it is left
\* at MAP_FAILED.
init_heap_file ==
  /\ pc = "start"
  /\ pc' = "idle"
  /\ \/ /\ heap' = 0
        /\ hdr' = [b \in {0} |-> [size |-> HEAP_SIZE - HDR, free |-> TRUE, next |-> NULL]]
     \/ /\ heap' \in {NULL, MAP_FAILED}
        /\ UNCHANGED hdr
  /\ UNCHANGED <<cur, req, ret, live>>

\* Entering a walk of the list.
Walk(what) ==
  /\ pc = "idle"
  /\ pc' = what
  /\ cur' = heap
  /\ UNCHANGED <<heap, hdr, ret, live>>

\* Back to the caller; the locals are gone.
Return == pc' = "idle" /\ cur' = NULL /\ req' = 0

my_malloc(size) == Walk("malloc") /\ req' = size
print_heap == Walk("print") /\ UNCHANGED req

\* Faulty: > instead of >=.
Fits_Strict(b) == hdr[b].free /\ hdr[b].size > req

\* Faulty: the sum wraps around for a request near SIZE_MAX.
Fits_Wraps(b) == hdr[b].free /\ Plus(hdr[b].size, HDR) >= Plus(req, HDR)

\* The test of the block at the cursor, and the test for a split.
Fits(b) == hdr[b].free /\ hdr[b].size >= req
Splits(b) == hdr[b].size > Plus(Plus(req, HDR), SLACK)

\* Faulty: the header of the new block is not paid for.
Split_NoHeader(b) ==
  LET new == b + HDR + req IN
  [x \in Blocks \cup {new} |->
     IF x = new THEN [size |-> Minus(hdr[b].size, req), free |-> TRUE,
                      next |-> hdr[b].next]
     ELSE IF x = b THEN [size |-> req, free |-> FALSE, next |-> new]
     ELSE hdr[x]]

\* Faulty: the pointers are set in the wrong order, so that new_block->next
\* is new_block.
Split_SelfLoop(b) ==
  LET new == b + HDR + req IN
  [x \in Blocks \cup {new} |->
     IF x = new THEN [size |-> Minus(Minus(hdr[b].size, req), HDR), free |-> TRUE,
                      next |-> new]
     ELSE IF x = b THEN [size |-> req, free |-> FALSE, next |-> new]
     ELSE hdr[x]]

\* The headers after req bytes are cut off the block b.
Split(b) ==
  LET new == b + HDR + req IN
  [x \in Blocks \cup {new} |->
     IF x = new THEN [size |-> Minus(Minus(hdr[b].size, req), HDR), free |-> TRUE,
                      next |-> hdr[b].next]
     ELSE IF x = b THEN [size |-> req, free |-> FALSE, next |-> new]
     ELSE hdr[x]]

\* Faulty: cur->free = 0 is done only after a split.
Take_NotMarked(b) == hdr

Take(b) == [hdr EXCEPT ![b].free = FALSE]

Found ==
  /\ pc = "malloc" /\ cur \in Blocks /\ Fits(cur)
  /\ hdr' = IF Splits(cur) THEN Split(cur) ELSE Take(cur)
  /\ ret' = cur + HDR
  /\ live' = [p \in DOMAIN live \cup {ret'} |-> IF p = ret' THEN req ELSE live[p]]
  /\ Return
  /\ UNCHANGED heap

\* cur = cur->next
Advance ==
  /\ cur \in Blocks
  /\ \/ pc = "malloc" /\ ~Fits(cur)
     \/ pc = "print"
  /\ cur' = hdr[cur].next
  /\ UNCHANGED <<pc, heap, hdr, req, ret, live>>

\* The end of the list.
NotFound ==
  /\ pc = "malloc" /\ cur = NULL
  /\ ret' = NULL
  /\ Return
  /\ UNCHANGED <<heap, hdr, live>>

Printed ==
  /\ pc = "print" /\ cur = NULL
  /\ Return
  /\ UNCHANGED <<heap, hdr, ret, live>>

\* A pointer that is no header is followed.
Crash ==
  /\ pc \in {"malloc", "print"}
  /\ cur \notin Blocks \cup {NULL}
  /\ pc' = "crashed"
  /\ UNCHANGED <<heap, hdr, cur, req, ret, live>>

my_free(ptr) ==
  /\ pc = "idle"
  /\ IF ptr = NULL
     THEN UNCHANGED <<hdr, live>>
     ELSE /\ hdr' = [hdr EXCEPT ![ptr - HDR].free = TRUE]
          /\ live' = [p \in DOMAIN live \ {ptr} |-> live[p]]
  /\ UNCHANGED <<pc, heap, cur, req, ret>>

Call == \/ \E n \in Requests : my_malloc(n)
        \/ \E p \in DOMAIN live \cup {NULL} : my_free(p)
        \/ print_heap

Visit == Found \/ Advance \/ NotFound \/ Printed \/ Crash

Next == init_heap_file \/ Call \/ Visit

Spec == Init /\ [][Next]_vars

\* A walk that has begun goes on.
FairSpec == Spec /\ WF_vars(Visit)

-----------------------------------------------------------------------------
(* What holds.                                                             *)

\* The range of every variable; a header's next is the address of a header
\* or NULL, so the list is never left.
Header == [size : 0 .. HEAP_SIZE - HDR, free : BOOLEAN, next : Blocks \cup {NULL}]

TypeOK ==
  /\ pc \in {"start", "idle", "malloc", "print", "crashed"}
  /\ heap \in {NULL, MAP_FAILED, 0}
  /\ Blocks \subseteq 0 .. HEAP_SIZE - HDR
  /\ hdr \in [Blocks -> Header]
  /\ cur \in Blocks \cup {NULL, MAP_FAILED}
  /\ req \in 0 .. WORD - 1
  /\ ret \in Int
  /\ DOMAIN live \subseteq Int
  /\ live \in [DOMAIN live -> 0 .. WORD - 1]

\* The blocks follow each other without a gap and without an overlap from one
\* end of the mapping to the other, in the order of the list.
Tiling ==
  /\ heap = 0 <=> 0 \in Blocks
  /\ pc = "start" => heap = NULL
  /\ Blocks # {} => 0 \in Blocks
  /\ \A b \in Blocks :
       /\ End(b) <= HEAP_SIZE
       /\ hdr[b].next = IF End(b) = HEAP_SIZE THEN NULL ELSE End(b)
       /\ \A c \in Blocks : b < c => End(b) <= c

\* A block is in use exactly when the caller holds a pointer to it, and it is
\* as large as the caller asked.
Owned ==
  /\ \A p \in DOMAIN live :
       /\ p - HDR \in Blocks
       /\ ~hdr[p - HDR].free
       /\ live[p] <= hdr[p - HDR].size
  /\ \A b \in Blocks : ~hdr[b].free => b + HDR \in DOMAIN live

\* my_malloc returns NULL only when no free block is large enough, though it
\* looks at one block at a time.
NullOnlyWhenFull ==
  [][NotFound => \A b \in Blocks : hdr[b].free => hdr[b].size < req]_vars

\* my_malloc takes the free block with the lowest address of those that are
\* large enough: the order of the list is the order of the addresses,
\* whatever was split before.
FirstFit ==
  [][Found => \A b \in Blocks : hdr[b].free /\ hdr[b].size >= req => cur <= b]_vars

\* The size of a block does not change while the caller holds it, whatever
\* is split around it.
SizeKept ==
  [][\A p \in DOMAIN live \cap DOMAIN live' :
        hdr'[p - HDR].size = hdr[p - HDR].size]_vars

\* First fit, one block at a time: nothing is overlooked and nothing is disturbed.
Placement == NullOnlyWhenFull /\ FirstFit /\ SizeKept

\* The program follows a pointer that is no header only when mmap failed and
\* heap was left at MAP_FAILED.
CrashOnlyIfUnmapped == pc = "crashed" => heap = MAP_FAILED

\* The heap implements an allocator: blocks in use are disjoint.
A == INSTANCE Allocator WITH Low <- HDR, High <- HEAP_SIZE
AllocatorSpec == A!Spec

\* Every walk of the list ends: the list has no cycle.
WalkEnds == pc \in {"malloc", "print"} ~> pc \in {"idle", "crashed"}

-----------------------------------------------------------------------------
(* Why it holds: what my_malloc knows while it walks the list.             *)

\* No block before the cursor fits, and none at all once the cursor is NULL.
NoneBefore ==
  /\ pc = "malloc" => \A b \in Blocks : cur = NULL \/ b < cur => ~Fits(b)
  /\ cur = MAP_FAILED => heap = MAP_FAILED

IInv == TypeOK /\ Tiling /\ Owned /\ NoneBefore /\ CrashOnlyIfUnmapped
=============================================================================
