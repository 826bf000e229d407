----------------------------- MODULE SharedRace -----------------------------
(***************************************************************************)
(* 6_part/6.1/6.1_1f.c and 6.1_1.c: a writer and a reader on one shared    *)
(* page without any synchronisation.  The writer numbers the slots round   *)
(* after round, the reader compares each slot with the number it expects.  *)
(*                                                                         *)
(* 6.1_1f.c reads buf[i] for the comparison, for the report and for the    *)
(* new expectation; 6.1_1.c reads it once, into q.  Loads and stores of an *)
(* aligned int are whole.  The writer stops after MAXWRITES stores, which  *)
(* bounds the model; the program goes on for ever.                         *)
(***************************************************************************)
EXTENDS Integers

CONSTANTS
  N,          \* slots of the page
  UINT_MAX,   \* largest unsigned int
  MAXWRITES,  \* stores the writer makes in the model
  Killable    \* processes a user may kill

W == "writer"
R == "reader"
Slot == 0 .. N - 1
UInt == 0 .. UINT_MAX

\* A page holds a power of two of ints, so that numbers and slots wrap together.
ASSUME SharedRaceAssumption ==
  /\ N \in Nat \ {0, 1} /\ UINT_MAX \in Nat /\ UINT_MAX > N
  /\ (UINT_MAX + 1) % N = 0
  /\ MAXWRITES \in Nat \ {0} /\ Killable \subseteq {W, R}

VARIABLES
  program,  \* "6.1_1f" or "6.1_1"
  pc,       \* where each process is
  buf,      \* the page
  val,      \* the writer's next number
  exp, i,   \* the reader's expected number and its loop index
  q,        \* what the reader has compared last
  report,   \* the last report: what was expected and what was found
  stores,   \* history: how many slots have been written
  stamp,    \* history: which store each slot holds
  seen,     \* history: which store the reader compared in each slot
  silent    \* history: no report since the first slot of this round

reader == <<exp, i, q, report, seen, silent>>
writer == <<buf, val, stores, stamp>>
vars == <<program, pc, reader, writer>>

Goto(p, l) == pc' = [pc EXCEPT ![p] = l]

After(v) == IF v = UINT_MAX THEN 0 ELSE v + 1

\* A page starts with zeros: the first slot as the first store will leave it.
Init ==
  /\ program \in {"6.1_1f", "6.1_1"}
  /\ pc = [p \in {W, R} |-> IF p = W THEN "fork" ELSE "none"]
  /\ buf = [s \in Slot |-> 0] /\ val = 0
  /\ exp = 0 /\ i = 0 /\ q = 0 /\ report = <<>>
  /\ stores = 0 /\ stamp = [s \in Slot |-> IF s = 0 THEN 1 ELSE 0]
  /\ seen = stamp /\ silent = FALSE

\* if (fork() == 0): a parent whose fork fails is a writer all the same.
Fork ==
  /\ pc[W] = "fork"
  /\ \/ pc' = [p \in {W, R} |-> IF p = W THEN "store" ELSE "compare"]
     \/ Goto(W, "store")
  /\ UNCHANGED <<program, reader, writer>>

\* buf[i] = (val == UINT_MAX) ? (val = 0) : val++
W_Store ==
  /\ pc[W] = "store" /\ stores < MAXWRITES
  /\ buf' = [buf EXCEPT ![stores % N] = IF val = UINT_MAX THEN 0 ELSE val]
  /\ val' = After(val)
  /\ stores' = stores + 1
  /\ stamp' = [stamp EXCEPT ![stores % N] = stores']
  /\ UNCHANGED <<program, pc, reader>>

-----------------------------------------------------------------------------
(* Faulty variants *)

\* if (buf[i] < exp)
R_Compare_Less ==
  /\ program = "6.1_1f" /\ pc[R] = "compare"
  /\ q' = buf[i] /\ seen' = [seen EXCEPT ![i] = stamp[i]]
  /\ silent' = (i = 0 \/ silent)
  /\ \/ /\ buf[i] >= exp /\ exp' = After(exp) /\ i' = (i + 1) % N /\ UNCHANGED pc
     \/ /\ buf[i] < exp /\ Goto(R, "print") /\ UNCHANGED <<exp, i>>
  /\ UNCHANGED <<program, report, writer>>

\* Each round begins with exp = buf[0].
R_Compare_Restart ==
  /\ program = "6.1_1f" /\ pc[R] = "compare"
  /\ q' = buf[i] /\ seen' = [seen EXCEPT ![i] = stamp[i]]
  /\ silent' = (i = 0 \/ silent)
  /\ \/ /\ i = 0 \/ buf[i] = exp
        /\ exp' = After(buf[i]) /\ i' = (i + 1) % N /\ UNCHANGED pc
     \/ /\ i # 0 /\ buf[i] # exp /\ Goto(R, "print") /\ UNCHANGED <<exp, i>>
  /\ UNCHANGED <<program, report, writer>>

\* The new expectation is taken before the report is printed.
R_Print_Late ==
  /\ pc[R] = "print"
  /\ exp' = buf[i] /\ report' = <<exp', buf[i]>> /\ silent' = FALSE
  /\ Goto(R, "resync")
  /\ UNCHANGED <<program, i, q, seen, writer>>

-----------------------------------------------------------------------------
(* The reader *)

\* if (buf[i] != exp), and with an equal number on to the next slot.
R_Compare ==
  /\ program = "6.1_1f" /\ pc[R] = "compare"
  /\ q' = buf[i] /\ seen' = [seen EXCEPT ![i] = stamp[i]]
  /\ silent' = (i = 0 \/ silent)
  /\ \/ /\ buf[i] = exp /\ exp' = After(exp) /\ i' = (i + 1) % N /\ UNCHANGED pc
     \/ /\ buf[i] # exp /\ Goto(R, "print") /\ UNCHANGED <<exp, i>>
  /\ UNCHANGED <<program, report, writer>>

\* The report.  The race lets the compiler load buf[i] again or not.
R_Print ==
  /\ pc[R] = "print"
  /\ \E g \in {q, buf[i]} : report' = <<exp, g>>
  /\ silent' = FALSE
  /\ Goto(R, "resync")
  /\ UNCHANGED <<program, exp, i, q, seen, writer>>

\* exp = buf[i], loaded again after the call of printf; on to the next slot.
R_Resync ==
  /\ pc[R] = "resync"
  /\ exp' = After(buf[i]) /\ i' = (i + 1) % N
  /\ Goto(R, "compare")
  /\ UNCHANGED <<program, q, report, seen, silent, writer>>

\* 6.1_1.c: one load, and everything else with q.
R_Once ==
  /\ program = "6.1_1" /\ pc[R] = "compare"
  /\ q' = buf[i] /\ seen' = [seen EXCEPT ![i] = stamp[i]]
  /\ report' = IF q' # exp THEN <<exp, q'>> ELSE report
  /\ silent' = ((i = 0 \/ silent) /\ q' = exp)
  /\ exp' = After(q') /\ i' = (i + 1) % N
  /\ UNCHANGED <<program, pc, writer>>

\* Nobody waits for anybody: the other process goes on.
Kill(p) ==
  /\ p \in Killable /\ pc[p] \notin {"none", "killed"}
  /\ Goto(p, "killed")
  /\ UNCHANGED <<program, reader, writer>>

Reader == R_Compare \/ R_Print \/ R_Resync \/ R_Once

Next == Fork \/ W_Store \/ Reader \/ \E p \in {W, R} : Kill(p)

\* The reader, which waits for nothing, is scheduled.
Spec == Init /\ [][Next]_vars /\ WF_vars(Reader)

-----------------------------------------------------------------------------
(* Properties *)

\* The types of the variables.
TypeOK ==
  /\ pc[W] \in {"fork", "store", "killed"}
  /\ pc[R] \in {"none", "compare", "print", "resync", "killed"}
  /\ buf \in [Slot -> UInt] /\ {val, exp, q} \subseteq UInt /\ i \in Slot
  /\ report = <<>> \/ report \in UInt \X UInt
  /\ stores \in 0 .. MAXWRITES
  /\ stamp \in [Slot -> 0 .. MAXWRITES] /\ seen \in [Slot -> 0 .. MAXWRITES]
  /\ silent \in BOOLEAN

\* What silence means.  When the reader has gone round the page without a word
\* (6.1_1f.c:26-34), it has read consecutive stores: one round of the writer and
\* no mixture of two, unless exactly UINT_MAX + 1 stores, or a multiple, lie
\* between them.
SilentRoundIsOnePage ==
  pc[R] = "compare" /\ i = 0 /\ silent =>
    \A s \in 0 .. N - 2 : (seen[s + 1] - seen[s] - 1) % (UINT_MAX + 1) = 0

\* The same with the types of all variables.
Silence == TypeOK /\ SilentRoundIsOnePage

\* A report (6.1_1f.c:29) may say that 5 was expected and 5 was found, but only
\* when the writer has overtaken the reader between its comparison and its report.
EqualMeansOvertaken ==
  [][report' # report /\ report'[1] = report'[2] =>
       program = "6.1_1f" /\ stamp[i] # seen[i]]_vars

\* A reader whose writer has been killed is never silent for good: the page it
\* goes round on no longer has the numbers it expects.  Nothing tells it to end.
ComplainsForEver ==
  pc[W] = "killed" /\ pc[R] # "none" ~> pc[R] = "killed" \/ ~silent
=============================================================================
