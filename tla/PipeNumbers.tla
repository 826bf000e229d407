---------------------------- MODULE PipeNumbers ----------------------------
(***************************************************************************)
(* 6_part/6.2/6.2_1.c next to 6.2_f.c (module Redirect): the parent writes *)
(* COUNT consecutive unsigned integers into a pipe as they are in memory,  *)
(* the child reads them and compares each with the one it expects.  pipe() *)
(* and fork(), the two first close() and wait() are those of Redirect.  A  *)
(* number of four bytes is written whole and read whole.                   *)
(***************************************************************************)
EXTENDS Redirect

CONSTANTS
  COUNT,     \* passes of the writer's loop
  UINT_MAX   \* largest unsigned int

ASSUME PipeNumbersAssumption ==
  /\ COUNT \in Nat /\ UINT_MAX \in Nat
  /\ Numbers = [k \in 1 .. COUNT |-> (k - 1) % (UINT_MAX + 1)]

VARIABLES
  val,       \* the writer's next number
  expected,  \* the reader's
  errors     \* the reader has printed an error

numbers == <<val, expected, errors>>

After(v) == IF v = UINT_MAX THEN 0 ELSE v + 1

NInit == Init /\ val = 0 /\ expected = 0 /\ errors = FALSE

\* Faulty: val is advanced as in 6.1_2f.c, (val == UINT_MAX) ? (val = 0) : val++.
W_Write_PostIncrement ==
  /\ program = "numbers" /\ pc["parent"] = "ready" /\ i < COUNT
  /\ Held("read end") /\ Len(pipe) < CAPACITY
  /\ pipe' = Append(pipe, IF val = UINT_MAX THEN 0 ELSE val)
  /\ val' = After(val) /\ i' = i + 1
  /\ UNCHANGED <<env, pc, fd, pipefd, inbuf, got, expected, errors>>

\* One pass of the loop: it waits for room in the pipe; when nobody can read the
\* writer is killed or, without the signal, breaks off.
W_Write ==
  /\ program = "numbers" /\ pc["parent"] = "ready" /\ i < COUNT
  /\ \/ /\ Held("read end") /\ Len(pipe) < CAPACITY
        /\ pipe' = Append(pipe, val) /\ val' = After(val) /\ i' = i + 1
        /\ UNCHANGED <<pc, fd>>
     \/ /\ ~Held("read end") /\ sigpipe = "default"
        /\ Quit("parent", "killed")
        /\ UNCHANGED <<pipe, val, i>>
     \/ /\ ~Held("read end") /\ sigpipe = "ignored"
        /\ Goto("parent", "break")
        /\ UNCHANGED <<fd, pipe, val, i>>
  /\ UNCHANGED <<env, pipefd, inbuf, got, expected, errors>>

W_Close ==
  /\ program = "numbers"
  /\ \/ pc["parent"] = "ready" /\ i = COUNT
     \/ pc["parent"] = "break"
  /\ Close("parent", pipefd[2]) /\ Goto("parent", "wait")
  /\ UNCHANGED <<env, pipefd, i, pipe, inbuf, got, numbers>>

\* read() returns a number, which becomes the expected one if it was not.
R_Read ==
  /\ program = "numbers" /\ pc["child"] = "ready" /\ pipe # <<>>
  /\ got' = Append(got, Head(pipe)) /\ pipe' = Tail(pipe)
  /\ errors' = (errors \/ Head(pipe) # expected)
  /\ expected' = After(Head(pipe))
  /\ UNCHANGED <<env, pc, fd, pipefd, i, inbuf, val>>

\* read() returns 0 when nobody can write any more; the child closes and returns.
R_End ==
  /\ program = "numbers" /\ pc["child"] = "ready" /\ pipe = <<>> /\ ~Held("write end")
  /\ Quit("child", "exited")
  /\ UNCHANGED <<env, pipefd, i, pipe, inbuf, got, numbers>>

NParent == (Parent /\ UNCHANGED numbers) \/ W_Write \/ W_Close
NChild == (Child /\ UNCHANGED numbers) \/ R_Read \/ R_End

NNext == NParent \/ NChild \/ \E p \in Proc : Kill(p) /\ UNCHANGED numbers

NSpec == NInit /\ [][NNext]_<<vars, numbers>> /\ WF_<<vars, numbers>>(NParent)
           /\ WF_<<vars, numbers>>(NChild)

\* The reader of 6.2_1.c never prints an error (:19-24), across the wrap-around
\* of the numbers too and whoever is killed: unlike the programs of 6.1, where a
\* slip of the writer or a race makes the reader complain, the two count alike.
NoErrors == errors = FALSE

\* A pass of the writer's loop is a number in the pipe or with the reader: the
\* first write that fails, when the reader is gone and SIGPIPE is ignored, is the
\* last one (:38), and val has not gone on without it.
EveryPassCounts == program = "numbers" => i = Len(got) + Len(pipe)

\* The numbers arrive: all of them in the end, never a wrong one, and none is
\* counted that was not sent.
NumbersArrive == AllReceived /\ NoErrors /\ EveryPassCounts
=============================================================================
