------------------------------- MODULE Stream -------------------------------
(***************************************************************************)
(* What a pipe promises to a writer and a reader in different processes:   *)
(* the numbers arrive once each and in the order they were sent, and the   *)
(* reader is told that the stream has ended only when nothing more can be  *)
(* sent and everything that was sent has arrived.                          *)
(***************************************************************************)
EXTENDS Sequences, Integers

CONSTANT Numbers  \* what the writer means to send, in order

VARIABLES
  sent,   \* what it has sent
  got,    \* what the reader has received
  open,   \* the stream can still be written to
  ended   \* the reader has been told of the end

vars == <<sent, got, open, ended>>

Init == sent = <<>> /\ got = <<>> /\ open = TRUE /\ ended = FALSE

Send ==
  /\ open /\ Len(sent) < Len(Numbers)
  /\ sent' = Append(sent, Numbers[Len(sent) + 1])
  /\ UNCHANGED <<got, open, ended>>

Receive ==
  /\ ~ended /\ Len(got) < Len(sent)
  /\ got' = Append(got, sent[Len(got) + 1])
  /\ UNCHANGED <<sent, open, ended>>

Close == open /\ open' = FALSE /\ UNCHANGED <<sent, got, ended>>

End ==
  /\ ~open /\ got = sent
  /\ ended' = TRUE
  /\ UNCHANGED <<sent, got, open>>

Next == Send \/ Receive \/ Close \/ End

Spec == Init /\ [][Next]_vars
=============================================================================
