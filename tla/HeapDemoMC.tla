----------------------------- MODULE HeapDemoMC -----------------------------
(***************************************************************************)
(* HeapDemo with the sizes of the program: sizeof(block_t) is 24 on the    *)
(* machine that wrote heap.bin.  WORD stands for 2^64 (TLC's integers have *)
(* 32 bits); no sum of the demo reaches it.                                *)
(***************************************************************************)
EXTENDS HeapDemo

MCInputs == UNION {[1 .. k -> {"x", "nl"}] : k \in 0 .. 7}
MCWord   == 1048576
MCRequests == {50, 100, 200, 50000}
=============================================================================
