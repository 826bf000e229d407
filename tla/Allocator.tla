----------------------------- MODULE Allocator -----------------------------
(***************************************************************************)
(* What malloc and free promise their caller: a block handed out lies in   *)
(* the arena and shares no byte with another block in use, until it is     *)
(* given back.  A request may always be refused.                           *)
(***************************************************************************)
EXTENDS Integers

CONSTANTS Low, High    \* the arena is the bytes from Low to High - 1

VARIABLE live          \* pointers in use, each with the bytes asked for

Bytes(p, n) == p .. p + n - 1

Init == live = [p \in {} |-> 0]

\* An empty block may stand at the end of the arena.
Alloc(p, n) ==
  /\ p \notin DOMAIN live
  /\ Bytes(p, n) \subseteq Low .. High - 1
  /\ \A q \in DOMAIN live : Bytes(p, n) \cap Bytes(q, live[q]) = {}
  /\ live' = [q \in DOMAIN live \cup {p} |-> IF q = p THEN n ELSE live[q]]

Free(p) ==
  /\ p \in DOMAIN live
  /\ live' = [q \in DOMAIN live \ {p} |-> live[q]]

Next == \/ \E p \in Low .. High, n \in 0 .. High - Low : Alloc(p, n)
        \/ \E p \in DOMAIN live : Free(p)

Spec == Init /\ [][Next]_live
=============================================================================
