------------------------------- MODULE HeapMC -------------------------------
(***************************************************************************)
(* Requests for TLC: on both sides of the limits of a split in a heap of a *)
(* few blocks, and near the largest size_t.                                *)
(***************************************************************************)
EXTENDS Heap

MCRequests == {0, 1, 4, WORD - HDR, WORD - 1}
=============================================================================
