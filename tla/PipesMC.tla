------------------------------ MODULE PipesMC ------------------------------
(* Values for the constants of PipeNumbers and Redirect.                   *)
EXTENDS PipeNumbers

\* The numbers wrap around once.
FourNumbers == <<0, 1, 2, 0>>

\* A shell can start a program with any of its descriptors closed.
AnySet == SUBSET (0 .. 2)
=============================================================================
