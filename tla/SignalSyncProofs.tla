-------------------------- MODULE SignalSyncProofs --------------------------
(***************************************************************************)
(* Proofs about SignalSync, for every page size, every UINT_MAX and every  *)
(* choice of the user's signals; from OneToken on, of users who leave      *)
(* SIGUSR1 and SIGUSR2 to the program.                                     *)
(***************************************************************************)
EXTENDS SignalSync, TLAPS

USE ConstantsAssumption, UserSignalsAssumption DEF W, R, Proc, Slot, UInt, Halt, Sync

\* Where a process may go and which signals it may be sent.
LEMMA Ranges ==
  /\ {"none", "fork", "loop", "fill", "kill", "check", "call", "asleep"} \subseteq Label
  /\ {"clear", "brk", "scan", "bye", "exit", "dead"} \subseteq Label
  /\ {"INT", "TERM", "USR1", "USR2"} = Signal
  BY DEF Label, Signal

LEMMA GotoType ==
  ASSUME NEW p \in Proc, NEW l \in Label, TypeOK, Goto(p, l)
  PROVE  pc' \in [Proc -> Label]
  BY DEF TypeOK, Goto

LEMMA GenerateType ==
  ASSUME NEW S \in SUBSET Signal, NEW to, TypeOK, Generate(S, to)
  PROVE  pending' \in [Proc -> SUBSET Signal]
  BY DEF TypeOK, Generate

LEMMA hdlType ==
  ASSUME NEW p \in Proc, NEW S \in SUBSET Signal, TypeOK, hdl(p, S)
  PROVE  /\ got_sig' \in [Proc -> BOOLEAN] /\ stop' \in [Proc -> BOOLEAN]
         /\ sig_type' \in [Proc -> Halt \cup {"none"}]
  BY DEF TypeOK, hdl

LEMMA TypeInit == Init => TypeOK
  BY Ranges DEF Init, TypeOK

LEMMA TypeNext == TypeOK /\ [Next]_vars => TypeOK'
<1> SUFFICES ASSUME TypeOK, [Next]_vars PROVE TypeOK'
  OBVIOUS
<1> USE Ranges, GotoType DEF TypeOK, flags, page
<1>1. CASE W_Fork
  <2>1. pc' \in [Proc -> Label]
    <3>1. CASE pc' = [p \in Proc |-> "loop"]
      BY <3>1
    <3>2. CASE Goto(W, "loop")
      BY <3>2
    <3> QED
      BY <1>1, <3>1, <3>2 DEF W_Fork
  <2>2. /\ got_sig' \in [Proc -> BOOLEAN] /\ stop' \in [Proc -> BOOLEAN]
        /\ sig_type' \in [Proc -> Halt \cup {"none"}]
    BY <1>1 DEF W_Fork
  <2> QED
    BY <1>1, <2>1, <2>2 DEF W_Fork
<1>2. CASE W_Loop
  <2>1. pc' \in [Proc -> Label]
    BY <1>2 DEF W_Loop
  <2> QED
    BY <1>2, <2>1 DEF W_Loop
<1>3. CASE W_Fill
  <2>1. pc' \in [Proc -> Label]
    BY <1>3 DEF W_Fill
  <2>2. wi' \in Slot
    BY <1>3 DEF W_Fill, AfterSlot
  <2>3. buf' \in [Slot -> UInt] /\ val' \in UInt
    BY <1>3 DEF W_Fill
  <2> QED
    BY <1>3, <2>1, <2>2, <2>3 DEF W_Fill
<1>4. CASE W_Kill
  <2>1. pc' \in [Proc -> Label]
    BY <1>4 DEF W_Kill
  <2>2. pending' \in [Proc -> SUBSET Signal]
    BY <1>4, GenerateType DEF W_Kill
  <2>3. turn' \in Proc /\ astray' \subseteq Sync \cup {"TERM"}
    BY <1>4 DEF W_Kill
  <2> QED
    BY <1>4, <2>1, <2>2, <2>3 DEF W_Kill
<1>5. CASE W_Check
  BY <1>5 DEF W_Check
<1>6. CASE W_Clear
  BY <1>6 DEF W_Clear
<1>7. CASE W_Bye
  <2>1. pending' \in [Proc -> SUBSET Signal]
    BY <1>7, GenerateType DEF W_Bye
  <2> QED
    BY <1>7, <2>1 DEF W_Bye
<1>8. CASE W_Exit
  BY <1>8 DEF W_Exit
<1>9. CASE R_Loop
  BY <1>9 DEF R_Loop
<1>10. CASE R_Check
  BY <1>10 DEF R_Check
<1>11. CASE R_Brk
  <2>1. pc' \in [Proc -> Label]
    BY <1>11 DEF R_Brk
  <2>2. got_sig' \in [Proc -> BOOLEAN]
    BY <1>11 DEF R_Brk
  <2>3. ri' \in Slot
    BY <1>11 DEF R_Brk
  <2> QED
    BY <1>11, <2>1, <2>2, <2>3 DEF R_Brk
<1>12. CASE R_Scan
  <2>1. pc' \in [Proc -> Label]
    BY <1>12 DEF R_Scan
  <2>2. ri' \in Slot
    BY <1>12 DEF R_Scan, AfterSlot
  <2>3. exp' \in UInt /\ seen' \in [Slot -> UInt]
    BY <1>12 DEF R_Scan
  <2> QED
    BY <1>12, <2>1, <2>2, <2>3 DEF R_Scan
<1>13. CASE R_Kill
  <2>1. pending' \in [Proc -> SUBSET Signal]
    BY <1>13, GenerateType DEF R_Kill
  <2> QED
    BY <1>13, <2>1 DEF R_Kill
<1>14. CASE R_Bye
  BY <1>14 DEF R_Bye
<1>15. ASSUME NEW p \in Proc, Suspend(p) PROVE TypeOK'
  BY <1>15 DEF Suspend
<1>16. ASSUME NEW p \in Proc, Interrupt(p) PROVE TypeOK'
  <2>1. pending' \in [Proc -> SUBSET Signal]
    BY <1>16 DEF Interrupt
  <2>2. /\ got_sig' \in [Proc -> BOOLEAN] /\ stop' \in [Proc -> BOOLEAN]
        /\ sig_type' \in [Proc -> Halt \cup {"none"}]
    BY <1>16, hdlType DEF Interrupt
  <2> QED
    BY <1>16, <2>1, <2>2 DEF Interrupt
<1>17. ASSUME NEW p \in Proc, Wake(p) PROVE TypeOK'
  BY <1>17, hdlType DEF Wake
<1>18. CASE UserSignal
  <2>1. pc' \in [Proc -> Label]
    BY <1>18 DEF UserSignal
  <2>2. pending' \in [Proc -> SUBSET Signal]
    BY <1>18, GenerateType DEF UserSignal
  <2> QED
    BY <1>18, <2>1, <2>2 DEF UserSignal
<1>19. CASE UNCHANGED vars
  BY <1>19 DEF vars
<1> QED
  BY <1>1, <1>2, <1>3, <1>4, <1>5, <1>6, <1>7, <1>8, <1>9, <1>10, <1>11, <1>12,
     <1>13, <1>14, <1>15, <1>16, <1>17, <1>18, <1>19
     DEF Next, Writer, Reader, Deliver

\* Every variable keeps its range, whatever the user sends.
THEOREM TypeCorrect == Spec => []TypeOK
  BY TypeInit, TypeNext, PTL DEF Spec

-----------------------------------------------------------------------------
(* Who is told what.                                                       *)

\* pid has its value once the writer runs its loop.
Targets == (pid = "unset" => pc[W] \in {"fork", "dead"}) /\ StraySignals /\ ReaderTold

LEMMA TargetsNext ==
  ASSUME TypeOK, Pairing, Targets, [Next]_vars
  PROVE  Targets'
<1> USE DEF TypeOK, Pairing, Targets, StraySignals, ReaderTold, flags, page, Goto, Alive
<1>1. CASE W_Fork
  BY <1>1 DEF W_Fork
<1>2. CASE W_Kill
  BY <1>2 DEF W_Kill, Generate
<1>3. CASE W_Bye
  BY <1>3 DEF W_Bye, Generate
<1>4. CASE R_Kill
  BY <1>4 DEF R_Kill, Generate
<1>5. CASE R_Brk
  BY <1>5 DEF R_Brk
<1>6. ASSUME NEW p \in Proc, Suspend(p) PROVE Targets'
  BY <1>6 DEF Suspend
<1>7. ASSUME NEW p \in Proc, Interrupt(p) PROVE Targets'
  BY <1>7 DEF Interrupt, hdl
<1>8. ASSUME NEW p \in Proc, Wake(p) PROVE Targets'
  BY <1>8 DEF Wake, hdl
<1>9. CASE UserSignal
  BY <1>9 DEF UserSignal, Generate
<1>10. CASE W_Loop \/ W_Fill \/ W_Check \/ W_Clear \/ W_Exit
  BY <1>10 DEF W_Loop, W_Fill, W_Check, W_Clear, W_Exit
<1>11. CASE R_Loop \/ R_Check \/ R_Scan \/ R_Bye
  BY <1>11 DEF R_Loop, R_Check, R_Scan, R_Bye
<1>12. CASE UNCHANGED vars
  BY <1>12 DEF vars
<1> QED
  BY <1>1, <1>2, <1>3, <1>4, <1>5, <1>6, <1>7, <1>8, <1>9, <1>10, <1>11, <1>12
     DEF Next, Writer, Reader, Deliver

-----------------------------------------------------------------------------
LEMMA PairingNext ==
  ASSUME TypeOK, Pairing, [Next]_vars
  PROVE  Pairing'
<1> USE DEF TypeOK, Pairing, flags, page, Goto, Alive
<1>1. CASE W_Fork
  BY <1>1 DEF W_Fork
<1>2. CASE W_Loop
  BY <1>2 DEF W_Loop
<1>3. CASE W_Fill
  BY <1>3 DEF W_Fill
<1>4. CASE W_Kill
  BY <1>4 DEF W_Kill, Generate, ReaderExists
<1>5. CASE W_Check
  BY <1>5 DEF W_Check
<1>6. CASE W_Clear
  BY <1>6 DEF W_Clear
<1>7. CASE W_Bye
  BY <1>7 DEF W_Bye, Generate
<1>8. CASE W_Exit
  BY <1>8 DEF W_Exit
<1>9. CASE R_Loop
  BY <1>9 DEF R_Loop
<1>10. CASE R_Check
  BY <1>10 DEF R_Check
<1>11. CASE R_Brk
  BY <1>11 DEF R_Brk
<1>12. CASE R_Scan
  BY <1>12 DEF R_Scan
<1>13. CASE R_Kill
  BY <1>13 DEF R_Kill, Generate
<1>14. CASE R_Bye
  BY <1>14 DEF R_Bye
<1>15. ASSUME NEW p \in Proc, Suspend(p) PROVE Pairing'
  BY <1>15 DEF Suspend
<1>16. ASSUME NEW p \in Proc, Interrupt(p) PROVE Pairing'
  BY <1>16 DEF Interrupt, hdl
<1>17. ASSUME NEW p \in Proc, Wake(p) PROVE Pairing'
  BY <1>17 DEF Wake, hdl
<1>18. CASE UserSignal
  BY <1>18 DEF UserSignal, Generate
<1>19. CASE UNCHANGED vars
  BY <1>19 DEF vars
<1> QED
  BY <1>1, <1>2, <1>3, <1>4, <1>5, <1>6, <1>7, <1>8, <1>9, <1>10, <1>11,
     <1>12, <1>13, <1>14, <1>15, <1>16, <1>17, <1>18, <1>19
     DEF Next, Writer, Reader, Deliver

LEMMA OneTokenNext ==
  ASSUME TypeOK, Pairing, OneToken, OnlyStops, [Next]_vars
  PROVE  OneToken'
<1> USE DEF TypeOK, Pairing, OneToken, flags, page, Goto, Alive
<1>1. CASE W_Fork
  BY <1>1 DEF W_Fork
<1>2. CASE W_Loop
  BY <1>2 DEF W_Loop
<1>3. CASE W_Fill
  BY <1>3 DEF W_Fill
<1>4. CASE W_Kill
  BY <1>4 DEF W_Kill, Generate, ReaderExists
<1>5. CASE W_Check
  BY <1>5 DEF W_Check
<1>6. CASE W_Clear
  BY <1>6 DEF W_Clear
<1>7. CASE W_Bye
  BY <1>7 DEF W_Bye, Generate
<1>8. CASE W_Exit
  BY <1>8 DEF W_Exit
<1>9. CASE R_Loop
  BY <1>9 DEF R_Loop
<1>10. CASE R_Check
  BY <1>10 DEF R_Check
<1>11. CASE R_Brk
  BY <1>11 DEF R_Brk
<1>12. CASE R_Scan
  BY <1>12 DEF R_Scan
<1>13. CASE R_Kill
  BY <1>13 DEF R_Kill, Generate
<1>14. CASE R_Bye
  BY <1>14 DEF R_Bye
<1>15. ASSUME NEW p \in Proc, Suspend(p) PROVE OneToken'
  BY <1>15 DEF Suspend
<1>16. ASSUME NEW p \in Proc, Interrupt(p) PROVE OneToken'
  BY <1>16 DEF Interrupt, hdl
<1>17. ASSUME NEW p \in Proc, Wake(p) PROVE OneToken'
  BY <1>17 DEF Wake, hdl
<1>18. CASE UserSignal
  BY <1>18 DEF UserSignal, Generate, OnlyStops
<1>19. CASE UNCHANGED vars
  BY <1>19 DEF vars
<1> QED
  BY <1>1, <1>2, <1>3, <1>4, <1>5, <1>6, <1>7, <1>8, <1>9, <1>10, <1>11,
     <1>12, <1>13, <1>14, <1>15, <1>16, <1>17, <1>18, <1>19
     DEF Next, Writer, Reader, Deliver

LEMMA TokenComingNext ==
  ASSUME TypeOK, Pairing, OneToken, TokenComing, OnlyStops, [Next]_vars
  PROVE  TokenComing'
<1> USE DEF TypeOK, Pairing, OneToken, TokenComing, flags, page, Goto, Alive
<1>1. CASE W_Fork
  BY <1>1 DEF W_Fork
<1>2. CASE W_Loop
  BY <1>2 DEF W_Loop
<1>3. CASE W_Fill
  BY <1>3 DEF W_Fill
<1>4. CASE W_Kill
  BY <1>4 DEF W_Kill, Generate, ReaderExists
<1>5. CASE W_Check
  BY <1>5 DEF W_Check
<1>6. CASE W_Clear
  BY <1>6 DEF W_Clear
<1>7. CASE W_Bye
  BY <1>7 DEF W_Bye, Generate
<1>8. CASE W_Exit
  BY <1>8 DEF W_Exit
<1>9. CASE R_Loop
  BY <1>9 DEF R_Loop
<1>10. CASE R_Check
  BY <1>10 DEF R_Check
<1>11. CASE R_Brk
  BY <1>11 DEF R_Brk
<1>12. CASE R_Scan
  BY <1>12 DEF R_Scan
<1>13. CASE R_Kill
  BY <1>13 DEF R_Kill, Generate
<1>14. CASE R_Bye
  BY <1>14 DEF R_Bye
<1>15. ASSUME NEW p \in Proc, Suspend(p) PROVE TokenComing'
  BY <1>15 DEF Suspend
<1>16. ASSUME NEW p \in Proc, Interrupt(p) PROVE TokenComing'
  BY <1>16 DEF Interrupt, hdl
<1>17. ASSUME NEW p \in Proc, Wake(p) PROVE TokenComing'
  <2>1. CASE p = W
    BY <1>17, <2>1 DEF Wake, hdl
  <2>2. CASE p = R
    BY <1>17, <2>2 DEF Wake, hdl
  <2> QED
    BY <2>1, <2>2
<1>18. CASE UserSignal
  BY <1>18 DEF UserSignal, Generate, OnlyStops
<1>19. CASE UNCHANGED vars
  BY <1>19 DEF vars
<1> QED
  BY <1>1, <1>2, <1>3, <1>4, <1>5, <1>6, <1>7, <1>8, <1>9, <1>10, <1>11,
     <1>12, <1>13, <1>14, <1>15, <1>16, <1>17, <1>18, <1>19
     DEF Next, Writer, Reader, Deliver

LEMMA CopySoFarNext ==
  ASSUME TypeOK, Pairing, OneToken, CopySoFar, [Next]_vars
  PROVE  CopySoFar'
<1> USE DEF TypeOK, Pairing, OneToken, CopySoFar, flags, page, Goto, Alive
<1>1. CASE W_Fork
  BY <1>1 DEF W_Fork
<1>2. CASE W_Loop
  BY <1>2 DEF W_Loop
<1>3. CASE W_Fill
  BY <1>3 DEF W_Fill, AfterSlot
<1>4. CASE W_Kill
  BY <1>4 DEF W_Kill, Generate, ReaderExists
<1>5. CASE W_Check
  BY <1>5 DEF W_Check
<1>6. CASE W_Clear
  BY <1>6 DEF W_Clear
<1>7. CASE W_Bye
  BY <1>7 DEF W_Bye, Generate
<1>8. CASE W_Exit
  BY <1>8 DEF W_Exit
<1>9. CASE R_Loop
  BY <1>9 DEF R_Loop
<1>10. CASE R_Check
  BY <1>10 DEF R_Check
<1>11. CASE R_Brk
  BY <1>11 DEF R_Brk
<1>12. CASE R_Scan
  BY <1>12 DEF R_Scan, AfterSlot
<1>13. CASE R_Kill
  BY <1>13 DEF R_Kill, Generate
<1>14. CASE R_Bye
  BY <1>14 DEF R_Bye
<1>15. ASSUME NEW p \in Proc, Suspend(p) PROVE CopySoFar'
  BY <1>15 DEF Suspend
<1>16. ASSUME NEW p \in Proc, Interrupt(p) PROVE CopySoFar'
  BY <1>16 DEF Interrupt, hdl
<1>17. ASSUME NEW p \in Proc, Wake(p) PROVE CopySoFar'
  BY <1>17 DEF Wake, hdl
<1>18. CASE UserSignal
  BY <1>18 DEF UserSignal, Generate
<1>19. CASE UNCHANGED vars
  BY <1>19 DEF vars
<1> QED
  BY <1>1, <1>2, <1>3, <1>4, <1>5, <1>6, <1>7, <1>8, <1>9, <1>10, <1>11,
     <1>12, <1>13, <1>14, <1>15, <1>16, <1>17, <1>18, <1>19
     DEF Next, Writer, Reader, Deliver

LEMMA NumberingNext ==
  ASSUME TypeOK, Pairing, OneToken, Numbering, OnlyStops, [Next]_vars
  PROVE  Numbering'
<1> USE DEF TypeOK, Pairing, OneToken, Numbering, Expect, Follows, InStep, flags, page, Goto, Alive
<1>1. CASE W_Fork
  BY <1>1 DEF W_Fork
<1>2. CASE W_Loop
  BY <1>2 DEF W_Loop
<1>3. CASE W_Fill
  <2> /\ pc[W] = "fill" /\ turn = W /\ wi \in Slot
      /\ ~got_sig[W] /\ "USR2" \notin pending[W]
      /\ ~got_sig[R] /\ "USR1" \notin pending[R] /\ pc[R] \notin {"scan", "kill"}
      /\ UNCHANGED <<exp, got_sig, pending, ri>> /\ pc'[R] = pc[R]
      /\ wi' = (IF wi < N - 1 THEN wi + 1 ELSE 0)
      /\ pc'[W] = (IF wi < N - 1 THEN "fill" ELSE "kill")
    BY <1>3 DEF W_Fill, AfterSlot
  <2>1. /\ buf'[wi] = IF val = UINT_MAX THEN 0 ELSE val
        /\ val' = IF val = UINT_MAX THEN 0 ELSE val + 1
        /\ \A i \in Slot : i # wi => buf'[i] = buf[i]
        /\ buf' \in [Slot -> UInt] /\ val \in UInt /\ exp \in UInt
    BY <1>3 DEF W_Fill
  <2> HIDE DEF TypeOK, OneToken, Pairing
  <2>2. Expect(buf'[wi]) = val' \/ (Expect(buf'[wi]) = 1 /\ val' = 0)
    BY <2>1
  <2>3. Follows(exp', buf'[0])
    <3>1. CASE wi = 0
      BY <2>1, <3>1
    <3>2. CASE wi # 0
      BY <2>1, <3>2
    <3> QED
      BY <3>1, <3>2
  <2>4. ASSUME NEW i \in Slot, i + 1 \leq wi
        PROVE  Follows(Expect(buf'[i]), buf'[i + 1])
    <3> i \in Nat /\ wi \in Nat /\ wi > 0 /\ i + 1 \in Slot /\ i # wi /\ buf'[i] = buf[i]
      BY <2>1, <2>4
    <3>1. CASE i + 1 = wi
      <4>1. wi - 1 = i
        BY <3>1
      <4>2. InStep(Expect(buf[i]))
        BY <4>1
      <4> QED
        BY <2>1, <3>1, <4>2
    <3>2. CASE i + 1 < wi
      <4>1. Follows(Expect(buf[i]), buf[i + 1])
        BY <3>2
      <4> QED
        BY <2>1, <3>2, <4>1
    <3> QED
      BY <2>4, <3>1, <3>2
  <2>5. CASE wi < N - 1
    BY <2>2, <2>3, <2>4, <2>5
  <2>6. CASE wi = N - 1
    BY <2>2, <2>3, <2>4, <2>6
  <2> QED
    BY <2>5, <2>6
<1>4. CASE W_Kill
  BY <1>4 DEF W_Kill, Generate, ReaderExists
<1>5. CASE W_Check
  BY <1>5 DEF W_Check
<1>6. CASE W_Clear
  BY <1>6 DEF W_Clear
<1>7. CASE W_Bye
  BY <1>7 DEF W_Bye, Generate
<1>8. CASE W_Exit
  BY <1>8 DEF W_Exit
<1>9. CASE R_Loop
  BY <1>9 DEF R_Loop
<1>10. CASE R_Check
  BY <1>10 DEF R_Check
<1>11. CASE R_Brk
  BY <1>11 DEF R_Brk
<1>12. CASE R_Scan
  BY <1>12 DEF R_Scan, AfterSlot
<1>13. CASE R_Kill
  BY <1>13 DEF R_Kill, Generate
<1>14. CASE R_Bye
  BY <1>14 DEF R_Bye
<1>15. ASSUME NEW p \in Proc, Suspend(p) PROVE Numbering'
  BY <1>15 DEF Suspend
<1>16. ASSUME NEW p \in Proc, Interrupt(p) PROVE Numbering'
  BY <1>16 DEF Interrupt, hdl
<1>17. ASSUME NEW p \in Proc, Wake(p) PROVE Numbering'
  BY <1>17 DEF Wake, hdl
<1>18. CASE UserSignal
  <2>1. /\ \A p \in Proc : pc'[p] \in {pc[p], "dead"}
        /\ \A p \in Proc, s \in Sync : s \in pending'[p] <=> s \in pending[p]
        /\ UNCHANGED <<flags, page>>
    BY <1>18 DEF UserSignal, Generate, OnlyStops
  <2> HIDE DEF TypeOK, OneToken, Pairing
  <2> QED
    BY <2>1
<1>19. CASE UNCHANGED vars
  BY <1>19 DEF vars
<1> QED
  BY <1>1, <1>2, <1>3, <1>4, <1>5, <1>6, <1>7, <1>8, <1>9, <1>10, <1>11,
     <1>12, <1>13, <1>14, <1>15, <1>16, <1>17, <1>18, <1>19
     DEF Next, Writer, Reader, Deliver

-----------------------------------------------------------------------------
\* What holds of the targets of the signals, whatever the user sends.
LEMMA TargetsHold == Spec => []Targets
<1>1. Init => TypeOK /\ Pairing /\ Targets
  BY TypeInit DEF Init, Pairing, Targets, StraySignals, ReaderTold, Alive
<1>2. TypeOK /\ Pairing /\ Targets /\ [Next]_vars => (TypeOK /\ Pairing /\ Targets)'
  BY TypeNext, PairingNext, TargetsNext
<1> QED
  BY <1>1, <1>2, PTL DEF Spec

\* A signal of the pair that reaches another process means that fork() failed
\* or that the writer has gone.
THEOREM StraySignalsHolds == Spec => []StraySignals
<1>1. Targets => StraySignals
  BY DEF Targets
<1> QED
  BY <1>1, TargetsHold, PTL

\* A writer about to return has told its reader to stop: the SIGTERM it sends
\* stays pending until the handler has set stop.
THEOREM ReaderToldHolds == Spec => []ReaderTold
<1>1. Targets => ReaderTold
  BY DEF Targets
<1> QED
  BY <1>1, TargetsHold, PTL

LEMMA IInvInit == Init => IInv
<1> SUFFICES ASSUME Init PROVE IInv
  OBVIOUS
<1>1. TypeOK
  BY TypeInit
<1>2. Pairing /\ OneToken /\ TokenComing /\ CopySoFar
  BY DEF Init, Pairing, OneToken, TokenComing, CopySoFar
<1>3. Numbering
  BY DEF Init, Numbering, InStep
<1> QED
  BY <1>1, <1>2, <1>3 DEF IInv

LEMMA IInvNext == ASSUME OnlyStops, IInv, [Next]_vars PROVE IInv'
  BY TypeNext, PairingNext, OneTokenNext, TokenComingNext, CopySoFarNext,
     NumberingNext DEF IInv

\* The inductive invariant, when the user sends neither SIGUSR1 nor SIGUSR2.
THEOREM Invariance == ASSUME OnlyStops PROVE Spec => []IInv
  BY IInvInit, IInvNext, PTL DEF Spec

\* The writer never fills the page while the reader scans it: each works only
\* during its turn (OneToken).
THEOREM ExclusionHolds == ASSUME OnlyStops PROVE Spec => []Exclusion
<1>1. IInv => Exclusion
  BY DEF IInv, OneToken, Exclusion
<1> QED
  BY <1>1, Invariance, PTL

\* Both sleep only with a signal on its way: the one whose turn it is has its
\* signal coming (TokenComing), and it cannot have noted it before it slept.
THEOREM NoLostWakeupHolds == ASSUME OnlyStops PROVE Spec => []NoLostWakeup
<1>1. IInv => NoLostWakeup
  BY DEF IInv, TypeOK, TokenComing, Alive, NoLostWakeup
<1> QED
  BY <1>1, Invariance, PTL

\* A mismatch is reported only at the wrap: between two slots of a page the
\* numbers follow each other (Numbering), and so they do from one page to the
\* next.
THEOREM MismatchOnlyAtWrapHolds == ASSUME OnlyStops PROVE Spec => MismatchOnlyAtWrap
<1>1. ASSUME IInv, R_Scan, buf[ri] # exp
      PROVE  buf[ri] = 0 /\ exp \in {1, UINT_MAX}
  <2> /\ pc[R] = "scan" /\ ri \in Slot
      BY <1>1 DEF IInv, TypeOK, R_Scan
  <2>1. CASE ri = 0
    BY <1>1, <2>1 DEF IInv, Numbering, Follows
  <2>2. CASE ri > 0
    <3> DEFINE j == ri - 1
    <3>1. j \in Slot /\ j + 1 = ri /\ j + 1 < N
      BY <2>2
    <3>2. Follows(Expect(buf[j]), buf[j + 1]) /\ exp = Expect(buf[j])
      BY <1>1, <2>2, <3>1 DEF IInv, Numbering
    <3> QED
      BY <1>1, <3>1, <3>2 DEF Follows
  <2> QED
    BY <2>1, <2>2
<1>2. IInv => [R_Scan /\ buf[ri] # exp => buf[ri] = 0 /\ exp \in {1, UINT_MAX}]_vars
  BY <1>1
<1> QED
  BY <1>2, Invariance, PTL DEF MismatchOnlyAtWrap

\* Who is signalled and who is not (6.1_2f.c:171, 205-206, 229-233).
THEOREM SignalsReachHolds == Spec => []SignalsReach
<1>1. ReaderTold /\ StraySignals => SignalsReach
  BY DEF SignalsReach
<1> QED
  BY <1>1, ReaderToldHolds, StraySignalsHolds, PTL

\* Every step of the two processes is a step of the handoff of a page, or
\* leaves the page, the copy and the turn alone.
THEOREM HandoffHolds == ASSUME OnlyStops PROVE Spec => HandoffSpec
<1>1. Init => H!Init
  BY DEF Init, H!Init
<1>2. ASSUME IInv, [Next]_vars PROVE [H!Next]_(H!hvars)
  <2> USE DEF H!Next, H!hvars, flags, page, Goto
  <2>1. CASE W_Fill
    <3>1. turn = W /\ wi \in Slot /\ val \in UInt
      BY <1>2, <2>1 DEF IInv, OneToken, TypeOK, W_Fill
    <3>2. H!Write(wi, IF val = UINT_MAX THEN 0 ELSE val)
      BY <2>1, <3>1 DEF H!Write, W_Fill
    <3> QED
      BY <3>1, <3>2
  <2>2. CASE W_Kill
    <3>1. turn = W
      BY <1>2, <2>2 DEF IInv, OneToken, W_Kill
    <3> QED
      BY <2>2, <3>1 DEF H!Publish, W_Kill
  <2>3. CASE R_Scan
    <3>1. turn = R /\ ri \in Slot
      BY <1>2, <2>3 DEF IInv, OneToken, TypeOK, R_Scan
    <3>2. H!Read(ri)
      BY <2>3, <3>1 DEF H!Read, R_Scan
    <3> QED
      BY <3>1, <3>2
  <2>4. CASE R_Kill
    <3>1. turn = R /\ seen = buf
      BY <1>2, <2>4 DEF IInv, OneToken, CopySoFar, R_Kill
    <3> QED
      BY <2>4, <3>1 DEF H!Release, R_Kill
  <2>5. CASE \/ W_Fork \/ W_Loop \/ W_Check \/ W_Clear \/ W_Bye \/ W_Exit
             \/ R_Loop \/ R_Check \/ R_Brk \/ R_Bye \/ UserSignal
             \/ \E p \in Proc : Suspend(p) \/ Deliver(p)
    BY <2>5 DEF W_Fork, W_Loop, W_Check, W_Clear, W_Bye, W_Exit, R_Loop, R_Check,
       R_Brk, R_Bye, UserSignal, Suspend, Deliver, Interrupt, Wake
  <2>6. CASE UNCHANGED vars
    BY <2>6 DEF vars
  <2> QED
    BY <1>2, <2>1, <2>2, <2>3, <2>4, <2>5, <2>6 DEF Next, Writer, Reader
<1> QED
  BY <1>1, <1>2, Invariance, PTL DEF HandoffSpec, H!Spec, Spec
=============================================================================
