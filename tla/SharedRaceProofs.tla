-------------------------- MODULE SharedRaceProofs --------------------------
(***************************************************************************)
(* Proofs about SharedRace, for a page of any length, any width of its     *)
(* numbers and any number of stores, whoever may be killed.                *)
(***************************************************************************)
EXTENDS SharedRace, TLAPS

Modulus == UINT_MAX + 1

Steps == {"fork", "store", "none", "compare", "print", "resync", "killed"}

\* The number that the k-th store leaves: UINT_MAX is never stored, because val is
\* set to 0 before it is used (6.1_1f.c:42); 0 stands for no store.
NumberOf(k) ==
  IF k = 0 \/ (k - 1) % Modulus = UINT_MAX THEN 0 ELSE (k - 1) % Modulus

\* What TypeOK leaves open.
Shapes ==
  /\ program \in {"6.1_1f", "6.1_1"}
  /\ pc \in [{W, R} -> Steps]

\* The page has what the writer's stores have left, each slot its own ones.
Page ==
  /\ val = stores % Modulus
  /\ \A s \in Slot :
       /\ buf[s] = NumberOf(stamp[s])
       /\ IF stamp[s] = 0 THEN s # 0 ELSE (stamp[s] - 1) % N = s

\* Between its comparison and its report the reader knows what it compared.  It
\* is silent only after a comparison, and there is no reader before the fork.
Compared ==
  /\ pc[W] = "fork" => pc[R] = "none"
  /\ pc[R] = "print" => program = "6.1_1f" /\ q # exp /\ q = NumberOf(seen[i])
  /\ pc[R] \in {"none", "resync"} => ~silent

\* The stores that the reader has compared in slots s and s + 1 follow each other.
Follows(s) == (seen[s + 1] - seen[s] - 1) % Modulus = 0

\* In the middle of a silent round the slots passed have consecutive stores, and
\* the reader expects the store after the last of them.
Round ==
  pc[R] = "compare" /\ silent =>
    /\ i = 0 => \A s \in 0 .. N - 2 : Follows(s)
    /\ i # 0 => /\ \A s \in 0 .. i - 2 : Follows(s)
                /\ seen[i - 1] # 0 /\ (seen[i - 1] - 1) % N = i - 1
                /\ exp = seen[i - 1] % Modulus

IInv == TypeOK /\ Shapes /\ Page /\ Compared /\ Round

-----------------------------------------------------------------------------
(* Remainders                                                              *)

\* What % and \div are;
LEMMA Division ==
  ASSUME NEW a \in Int, NEW m \in Nat \ {0}
  PROVE  /\ a % m \in 0 .. m - 1 /\ a \div m \in Int
         /\ a = m * (a \div m) + (a % m)
<1>1. m \in Nat /\ m > 0
  OBVIOUS
<1>2. a = m * (a \div m) + (a % m)
  BY <1>1, Z3
<1> QED
  BY <1>2

\* a remainder is known by its bounds.
LEMMA Remainder ==
  ASSUME NEW a \in Int, NEW m \in Nat \ {0}, NEW k \in Int, NEW r \in 0 .. m - 1, a = m * k + r
  PROVE  a % m = r
OBVIOUS

\* Zero has none.
LEMMA ZeroRemainder == ASSUME NEW m \in Nat \ {0} PROVE 0 % m = 0
OBVIOUS

\* Some products.
LEMMA Multiples ==
  ASSUME NEW m \in Int, NEW k \in Int, NEW j \in Int
  PROVE  m * (k + 1) = m * k + m /\ m * (k - j) = m * k - m * j /\ (m * k) * j = m * (k * j)
OBVIOUS

\* The remainder of the next number.
LEMMA Successor ==
  ASSUME NEW a \in Int, NEW m \in Nat \ {0}
  PROVE  (a + 1) % m = IF a % m = m - 1 THEN 0 ELSE (a % m) + 1
<1>1. PICK k \in Int, r \in 0 .. m - 1 : a = m * k + r /\ a % m = r
  BY Division
<1>2. CASE r = m - 1
  <2>1. a + 1 = m * (k + 1) + 0
    BY <1>1, <1>2, Multiples
  <2>2. a + 1 \in Int /\ k + 1 \in Int /\ 0 \in 0 .. m - 1
    OBVIOUS
  <2>3. (a + 1) % m = 0
    BY <2>1, <2>2, Remainder, Zenon
  <2> QED
    BY <1>1, <1>2, <2>3
<1>3. CASE r # m - 1
  <2>1. a + 1 = m * k + (r + 1) /\ r + 1 \in 0 .. m - 1 /\ a + 1 \in Int
    BY <1>1, <1>3
  <2>2. (a + 1) % m = r + 1
    BY <2>1, Remainder, Zenon
  <2> QED
    BY <1>1, <1>3, <2>2
<1> QED
  BY <1>2, <1>3

\* Numbers with the same remainder differ by a multiple.
LEMMA Difference ==
  ASSUME NEW a \in Int, NEW b \in Int, NEW m \in Nat \ {0}, a % m = b % m
  PROVE  (a - b) % m = 0
<1>1. /\ a = m * (a \div m) + (a % m) /\ a % m \in 0 .. m - 1 /\ a \div m \in Int
      /\ b = m * (b \div m) + (b % m) /\ b \div m \in Int
  BY Division
<1>2. /\ a - b = m * (a \div m - b \div m) + 0
      /\ a - b \in Int /\ a \div m - b \div m \in Int /\ 0 \in 0 .. m - 1
  BY <1>1, Multiples
<1> QED
  BY <1>2, Remainder, Zenon

\* With n a divisor of m, the last remainder of m is the last one of n.
LEMMA LastOfBoth ==
  ASSUME NEW a \in Int, NEW m \in Nat \ {0}, NEW n \in Nat \ {0}, m % n = 0, a % m = m - 1
  PROVE  a % n = n - 1
<1>1. PICK k \in Int : m = n * k
  <2>1. m = n * (m \div n) + (m % n) /\ m \div n \in Int
    BY Division
  <2> QED
    BY <2>1
<1>2. PICK j \in Int : a = m * j + (m - 1)
  <2>1. a = m * (a \div m) + (a % m) /\ a \div m \in Int
    BY Division, Zenon
  <2> QED
    BY <2>1
<1>3. k * j + (k - 1) \in Int
  BY <1>1, <1>2
<1>4. m * j = n * (k * j) /\ n * (k * j + (k - 1)) = n * (k * j) + n * (k - 1)
  BY <1>1, <1>2
<1>5. n * (k - 1) = m - n
  BY <1>1
<1>6. a = n * (k * j + (k - 1)) + (n - 1)
  BY <1>2, <1>4, <1>5
<1>7. n - 1 \in 0 .. n - 1
  OBVIOUS
<1> QED
  BY <1>3, <1>6, <1>7, Remainder, Zenon

-----------------------------------------------------------------------------
(* Numbers and slots                                                       *)

\* The constants, as the arithmetic needs them.
LEMMA Constants ==
  /\ N \in Nat \ {0} /\ N >= 2 /\ Modulus \in Nat \ {0} /\ Modulus % N = 0
  /\ UINT_MAX \in Nat /\ Modulus = UINT_MAX + 1 /\ UINT_MAX > N
  /\ Slot = 0 .. N - 1 /\ UInt = 0 .. UINT_MAX
BY SharedRaceAssumption DEF Modulus, Slot, UInt

\* The loop index goes round the page.
LEMMA NextSlot ==
  ASSUME NEW s \in Slot
  PROVE  /\ (s + 1) % N = IF s = N - 1 THEN 0 ELSE s + 1
         /\ (s + 1) % N \in Slot
<1>1. s \in Int /\ s \in 0 .. N - 1 /\ N \in Nat \ {0} /\ 0 \in Int
  BY Constants
<1>2. s = N * 0 + s
  BY <1>1
<1>3. s % N = s
  BY <1>1, <1>2, Remainder, Zenon
<1>4. (s + 1) % N = IF s % N = N - 1 THEN 0 ELSE (s % N) + 1
  BY <1>1, Successor
<1>5. (s + 1) % N = IF s = N - 1 THEN 0 ELSE s + 1
  BY <1>3, <1>4
<1> QED
  BY <1>1, <1>5, Constants

\* The number that follows a number.
LEMMA NextNumber ==
  ASSUME NEW k \in Nat
  PROVE  /\ After(k % Modulus) = (k + 1) % Modulus
         /\ k % Modulus \in UInt
<1>1. /\ k \in Int /\ Modulus \in Nat \ {0}
      /\ UINT_MAX \in Nat /\ Modulus = UINT_MAX + 1 /\ UInt = 0 .. UINT_MAX
  BY Constants
<1>2. /\ k % Modulus \in 0 .. Modulus - 1
      /\ (k + 1) % Modulus = IF k % Modulus = Modulus - 1 THEN 0 ELSE (k % Modulus) + 1
  BY <1>1, Division, Successor
<1> QED
  BY <1>1, <1>2 DEF After

\* A number is an unsigned int.
LEMMA NumberTyped ==
  ASSUME NEW k \in Nat
  PROVE  NumberOf(k) \in UInt
<1>1. k = 0 \/ k - 1 \in Nat
  OBVIOUS
<1> QED
  BY <1>1, NextNumber, Constants DEF NumberOf

\* A store into a slot that is not the last one of the page leaves its remainder,
\* and the number after that is the next store's.
LEMMA InTheMiddle ==
  ASSUME NEW k \in Nat \ {0}, (k - 1) % N # N - 1
  PROVE  /\ NumberOf(k) = (k - 1) % Modulus
         /\ After(NumberOf(k)) = k % Modulus /\ k % Modulus # 0
<1>1. /\ k - 1 \in Nat /\ k - 1 \in Int /\ N \in Nat \ {0} /\ Modulus \in Nat \ {0}
      /\ Modulus % N = 0 /\ (k - 1) + 1 = k /\ Modulus - 1 = UINT_MAX
  BY Constants
<1>2. (k - 1) % Modulus # Modulus - 1
  BY <1>1, LastOfBoth
<1>3. NumberOf(k) = (k - 1) % Modulus
  BY <1>1, <1>2 DEF NumberOf
<1>4. After((k - 1) % Modulus) = ((k - 1) + 1) % Modulus
  BY <1>1, NextNumber, Zenon
<1>5. ((k - 1) + 1) % Modulus = ((k - 1) % Modulus) + 1 /\ (k - 1) % Modulus \in Nat
  <2>1. ((k - 1) + 1) % Modulus =
          IF (k - 1) % Modulus = Modulus - 1 THEN 0 ELSE ((k - 1) % Modulus) + 1
    BY <1>1, Successor, Zenon
  <2>2. (k - 1) % Modulus \in 0 .. Modulus - 1
    BY <1>1, Division, Zenon
  <2> QED
    BY <1>1, <1>2, <2>1, <2>2
<1> QED
  BY <1>1, <1>3, <1>4, <1>5

\* A store whose number is not 0 leaves its remainder.
LEMMA NotZero ==
  ASSUME NEW k \in Nat, NumberOf(k) # 0
  PROVE  k # 0 /\ NumberOf(k) = (k - 1) % Modulus
BY DEF NumberOf

-----------------------------------------------------------------------------
(* The invariant                                                           *)

\* The invariant, part by part.
LEMMA Parts ==
  ASSUME IInv
  PROVE  /\ TypeOK /\ Shapes /\ Page /\ Compared /\ Round
         /\ stores \in Nat /\ i \in Slot /\ i \in Nat
         /\ \A s \in Slot : stamp[s] \in Nat /\ seen[s] \in Nat
         /\ W \in {W, R} /\ R \in {W, R} /\ W # R
<1>1. TypeOK /\ Shapes /\ Page /\ Compared /\ Round
  BY DEF IInv
<1>2. stores \in Nat /\ i \in Slot /\ i \in Nat
  BY <1>1, Constants, SharedRaceAssumption DEF TypeOK
<1>3. \A s \in Slot : stamp[s] \in Nat /\ seen[s] \in Nat
  BY <1>1, SharedRaceAssumption DEF TypeOK
<1>4. W \in {W, R} /\ R \in {W, R} /\ W # R
  BY DEF W, R
<1> QED
  BY <1>1, <1>2, <1>3, <1>4

\* A page of zeros is one that the first store has written in its first slot.
LEMMA InvInit == Init => IInv
<1> SUFFICES ASSUME Init PROVE IInv
  OBVIOUS
<1> USE DEF Init
<1>1. 0 \in Slot /\ 0 \in UInt /\ 0 \in 0 .. MAXWRITES /\ 1 \in 0 .. MAXWRITES
  BY Constants, SharedRaceAssumption
<1>2. TypeOK
  BY <1>1 DEF TypeOK, W, R
<1>3. Shapes
  BY DEF Shapes, Steps, W, R
<1>4. Page
  <2>1. 0 % Modulus = 0 /\ 0 % N = 0
    BY ZeroRemainder, Constants
  <2>2. NumberOf(0) = 0 /\ NumberOf(1) = 0
    BY <2>1 DEF NumberOf
  <2> QED
    BY <2>1, <2>2 DEF Page
<1>5. Compared /\ Round
  BY DEF Compared, Round, W, R
<1> QED
  BY <1>2, <1>3, <1>4, <1>5 DEF IInv

\* A step that stores nothing and is not the reader's.
LEMMA Outside ==
  ASSUME IInv, UNCHANGED <<program, reader, writer>>, pc' \in [{W, R} -> Steps],
         pc'[W] \in {"store", "killed"} \/ pc' = pc,
         \/ pc'[R] = pc[R] \/ pc'[R] = "killed"
         \/ pc'[R] = "compare" /\ ~silent
  PROVE  IInv'
<1>0. UNCHANGED <<program, exp, i, q, report, seen, silent, buf, val, stores, stamp>>
  BY DEF reader, writer
<1>1. TypeOK'
  BY <1>0, Parts DEF TypeOK
<1>2. Shapes' /\ Page'
  BY <1>0, Parts DEF Shapes, Page
<1>3. Compared' /\ Round'
  BY <1>0, Parts DEF Compared, Round, Follows
<1> QED
  BY <1>1, <1>2, <1>3 DEF IInv

\* The writer's store keeps the page: stores % N is the slot of the next store.
LEMMA StoreInv == ASSUME IInv, W_Store PROVE IInv'
<1> DEFINE new == IF val = UINT_MAX THEN 0 ELSE val
<1>0. /\ UNCHANGED <<program, pc, exp, i, q, report, seen, silent>>
      /\ stores < MAXWRITES /\ stores' = stores + 1 /\ val' = After(val)
      /\ buf' = [buf EXCEPT ![stores % N] = new]
      /\ stamp' = [stamp EXCEPT ![stores % N] = stores + 1]
  BY DEF W_Store, reader
<1>1. /\ stores \in Nat /\ stores + 1 # 0 /\ (stores + 1) - 1 = stores
      /\ stores + 1 \in 0 .. MAXWRITES
  BY <1>0, Parts, SharedRaceAssumption
<1>2. stores % N \in Slot
  <2>1. stores \in Int /\ N \in Nat \ {0}
    BY <1>1, Constants
  <2> QED
    BY <2>1, Division, Constants
<1>3. val = stores % Modulus /\ val \in UInt
  BY Parts, <1>1, NextNumber DEF Page
<1>4. new = NumberOf(stores + 1) /\ new \in UInt
  BY <1>1, <1>3, Constants DEF NumberOf
<1>5. val' = (stores + 1) % Modulus /\ val' \in UInt
  <2>1. stores + 1 \in Nat
    BY <1>1
  <2>2. (stores + 1) % Modulus \in UInt
    BY <2>1, NextNumber, Zenon
  <2> QED
    BY <1>0, <1>1, <1>3, <2>2, NextNumber
<1>6. /\ buf \in [Slot -> UInt] /\ stamp \in [Slot -> 0 .. MAXWRITES]
  BY Parts DEF TypeOK
<1>7. TypeOK'
  <2>1. buf' \in [Slot -> UInt] /\ stamp' \in [Slot -> 0 .. MAXWRITES]
    BY <1>0, <1>1, <1>2, <1>4, <1>6
  <2>2. stores' \in 0 .. MAXWRITES
    BY <1>0, <1>1
  <2> QED
    BY <1>0, <1>5, <2>1, <2>2, Parts DEF TypeOK
<1>8. Shapes' /\ Compared' /\ Round'
  BY <1>0, Parts DEF Shapes, Compared, Round, Follows
<1>9. Page'
  <2> SUFFICES ASSUME NEW s \in Slot
               PROVE  /\ buf'[s] = NumberOf(stamp'[s])
                      /\ IF stamp'[s] = 0 THEN s # 0 ELSE (stamp'[s] - 1) % N = s
    BY <1>0, <1>5 DEF Page
  <2>1. CASE s = stores % N
    <3>1. buf'[s] = new /\ stamp'[s] = stores + 1
      BY <1>0, <1>2, <1>6, <2>1
    <3> QED
      BY <1>1, <1>4, <2>1, <3>1
  <2>2. CASE s # stores % N
    <3>1. buf'[s] = buf[s] /\ stamp'[s] = stamp[s]
      BY <1>0, <1>2, <1>6, <2>2
    <3> QED
      BY <3>1, Parts DEF Page
  <2> QED
    BY <2>1, <2>2
<1> QED
  BY <1>7, <1>8, <1>9 DEF IInv

\* A comparison that finds what was expected takes a silent round one slot on.
LEMMA EqualKeepsRound ==
  ASSUME IInv, pc[R] = "compare", pc' = pc, buf[i] = exp,
         seen' = [seen EXCEPT ![i] = stamp[i]], exp' = After(exp),
         i' = (i + 1) % N, silent' => i = 0 \/ silent
  PROVE  Round'
<1> SUFFICES ASSUME silent'
             PROVE  /\ i' = 0 => \A s \in 0 .. N - 2 : Follows(s)'
                    /\ i' # 0 => /\ \A s \in 0 .. i' - 2 : Follows(s)'
                                 /\ seen'[i' - 1] # 0 /\ (seen'[i' - 1] - 1) % N = i' - 1
                                 /\ exp' = seen'[i' - 1] % Modulus
  BY DEF Round
<1>1. /\ i \in Slot /\ i \in Nat /\ stamp[i] \in Nat /\ Slot = 0 .. N - 1
      /\ N \in Nat /\ N >= 2
      /\ i' = IF i = N - 1 THEN 0 ELSE i + 1
  BY Parts, NextSlot, Constants
<1>2. /\ seen'[i] = stamp[i] /\ \A s \in Slot \ {i} : seen'[s] = seen[s]
  BY <1>1, Parts DEF TypeOK
<1>3. /\ buf[i] = NumberOf(stamp[i])
      /\ IF stamp[i] = 0 THEN i # 0 ELSE (stamp[i] - 1) % N = i
  BY <1>1, Parts DEF Page
<1>4. i # 0 => /\ \A s \in 0 .. i - 2 : Follows(s)
               /\ seen[i - 1] # 0 /\ (seen[i - 1] - 1) % N = i - 1
               /\ exp = seen[i - 1] % Modulus
  BY Parts DEF Round
<1>5. ASSUME NEW j \in Nat, i # 0, j = i - 1 PROVE stamp[i] # 0 /\ Follows(j)'
  <2>1. /\ j = i - 1 /\ j \in Slot /\ seen[j] \in Nat \ {0} /\ j # N - 1
        /\ seen'[j] = seen[j] /\ j + 1 = i
    BY <1>1, <1>2, <1>4, <1>5, Parts
  <2>2. exp # 0
    BY <1>4, <1>5, <2>1, InTheMiddle
  <2>3. stamp[i] # 0 /\ (stamp[i] - 1) % Modulus = seen[j] % Modulus
    BY <1>1, <1>3, <1>4, <1>5, <2>2, NotZero
  <2>4. ((stamp[i] - 1) - seen[j]) % Modulus = 0
    <3>1. stamp[i] - 1 \in Int /\ seen[j] \in Int /\ Modulus \in Nat \ {0}
      BY <1>1, <2>1, Constants
    <3> QED
      BY <2>3, <3>1, Difference, Zenon
  <2>5. (stamp[i] - 1) - seen[j] = stamp[i] - seen[j] - 1
    BY <1>1, <2>1
  <2> QED
    BY <1>2, <2>1, <2>3, <2>4, <2>5 DEF Follows
<1>6. stamp[i] # 0 /\ (stamp[i] - 1) % N = i
  <2>1. i # 0 => i - 1 \in Nat
    BY <1>1
  <2> QED
    BY <1>3, <1>5, <2>1
<1>7. \A s \in 0 .. i - 1 : Follows(s)'
  <2> SUFFICES ASSUME NEW s \in 0 .. i - 1 PROVE Follows(s)'
    OBVIOUS
  <2>1. CASE s = i - 1
    <3>1. s \in Nat /\ i # 0
      BY <1>1, <2>1
    <3> QED
      BY <1>5, <2>1, <3>1
  <2>2. CASE s # i - 1
    <3>1. s \in 0 .. i - 2 /\ s \in Slot \ {i} /\ s + 1 \in Slot \ {i} /\ i # 0
      BY <1>1, <2>2
    <3> QED
      BY <1>2, <1>4, <3>1 DEF Follows
  <2> QED
    BY <2>1, <2>2
<1>8. CASE i = N - 1
  BY <1>1, <1>7, <1>8
<1>9. CASE i # N - 1
  <2>1. i' = i + 1 /\ i' # 0 /\ i' - 1 = i /\ i' - 2 = i - 1
    BY <1>1, <1>9
  <2>2. exp' = stamp[i] % Modulus
    <3>1. stamp[i] \in Nat \ {0} /\ (stamp[i] - 1) % N # N - 1
      BY <1>1, <1>6, <1>9
    <3> QED
      BY <1>3, <3>1, InTheMiddle
  <2> QED
    BY <1>2, <1>6, <1>7, <2>1, <2>2
<1> QED
  BY <1>8, <1>9

\* What one comparison does to the rest of the reader's state.
LEMMA CompareTyped ==
  ASSUME IInv, pc[R] = "compare", q' = buf[i], seen' = [seen EXCEPT ![i] = stamp[i]],
         silent' \in BOOLEAN, exp' \in UInt, i' \in Slot,
         report' = report \/ report' \in UInt \X UInt,
         pc' \in [{W, R} -> Steps], pc'[W] = pc[W], pc'[R] \in {"compare", "print"},
         UNCHANGED <<program, writer>>
  PROVE  TypeOK' /\ Shapes' /\ Page' /\ q' = NumberOf(seen'[i])
<1>0. /\ UNCHANGED <<program, buf, val, stores, stamp>>
      /\ buf[i] \in UInt /\ stamp[i] \in 0 .. MAXWRITES /\ i \in Slot
      /\ seen \in [Slot -> 0 .. MAXWRITES]
  BY Parts DEF writer, TypeOK
<1>1. TypeOK'
  <2>1. seen' \in [Slot -> 0 .. MAXWRITES]
    BY <1>0
  <2> QED
    BY <1>0, <2>1, Parts DEF TypeOK
<1>2. Shapes' /\ Page'
  BY <1>0, Parts DEF Shapes, Page
<1>3. q' = NumberOf(seen'[i])
  BY <1>0, Parts DEF Page
<1> QED
  BY <1>1, <1>2, <1>3

\* The number expected after any other is an unsigned int.
LEMMA AfterTyped == ASSUME NEW v \in UInt PROVE After(v) \in UInt
BY Constants DEF After

\* 6.1_1f.c: the comparison.
LEMMA CompareInv == ASSUME IInv, R_Compare PROVE IInv'
<1>0. /\ program = "6.1_1f" /\ pc[R] = "compare" /\ q' = buf[i]
      /\ seen' = [seen EXCEPT ![i] = stamp[i]]
      /\ silent' = (i = 0 \/ silent)
      /\ UNCHANGED <<program, report, writer>>
  BY DEF R_Compare
<1>1. silent' \in BOOLEAN /\ exp \in UInt /\ i \in Slot /\ pc \in [{W, R} -> Steps]
  BY <1>0, Parts DEF TypeOK, Shapes
<1>2. CASE buf[i] = exp /\ exp' = After(exp) /\ i' = (i + 1) % N /\ UNCHANGED pc
  <2>1. exp' \in UInt /\ i' \in Slot
    BY <1>1, <1>2, NextSlot, AfterTyped
  <2>2. TypeOK' /\ Shapes' /\ Page'
    BY <1>0, <1>1, <1>2, <2>1, CompareTyped
  <2>3. Round'
    BY <1>0, <1>2, EqualKeepsRound
  <2>4. Compared'
    BY <1>0, <1>2, Parts DEF Compared
  <2> QED
    BY <2>2, <2>3, <2>4 DEF IInv
<1>3. CASE buf[i] # exp /\ Goto(R, "print") /\ UNCHANGED <<exp, i>>
  <2>1. pc' \in [{W, R} -> Steps] /\ pc'[W] = pc[W] /\ pc'[R] = "print"
    BY <1>1, <1>3, Parts DEF Goto, Steps
  <2>2. TypeOK' /\ Shapes' /\ Page' /\ q' = NumberOf(seen'[i])
    BY <1>0, <1>1, <1>3, <2>1, CompareTyped
  <2>3. Compared' /\ Round'
    BY <1>0, <1>3, <2>1, <2>2, Parts DEF Compared, Round
  <2> QED
    BY <2>2, <2>3 DEF IInv
<1> QED
  BY <1>2, <1>3 DEF R_Compare

\* The report ends the silence,
LEMMA PrintInv == ASSUME IInv, R_Print PROVE IInv'
<1>0. /\ pc[R] = "print" /\ pc' = [pc EXCEPT ![R] = "resync"] /\ silent' = FALSE
      /\ UNCHANGED <<program, exp, i, q, seen, buf, val, stores, stamp>>
      /\ \E g \in {q, buf[i]} : report' = <<exp, g>>
  BY DEF R_Print, Goto, writer
<1>1. pc' \in [{W, R} -> Steps] /\ pc'[W] = pc[W] /\ pc'[R] = "resync"
  BY <1>0, Parts DEF Shapes, Steps
<1>2. report' \in UInt \X UInt
  BY <1>0, Parts DEF TypeOK
<1>3. TypeOK'
  BY <1>0, <1>1, <1>2, Parts DEF TypeOK
<1>4. Shapes' /\ Page' /\ Compared' /\ Round'
  BY <1>0, <1>1, Parts DEF Shapes, Page, Compared, Round
<1> QED
  BY <1>3, <1>4 DEF IInv

\* and the reader starts again from what the slot has by now.
LEMMA ResyncInv == ASSUME IInv, R_Resync PROVE IInv'
<1>0. /\ pc[R] = "resync" /\ pc' = [pc EXCEPT ![R] = "compare"]
      /\ exp' = After(buf[i]) /\ i' = (i + 1) % N
      /\ UNCHANGED <<program, q, report, seen, silent, buf, val, stores, stamp>>
  BY DEF R_Resync, Goto, writer
<1>1. pc' \in [{W, R} -> Steps] /\ pc'[W] = pc[W] /\ pc'[R] = "compare"
  BY <1>0, Parts DEF Shapes, Steps
<1>2. exp' \in UInt /\ i' \in Slot
  <2>1. buf[i] \in UInt /\ i \in Slot
    BY Parts DEF TypeOK
  <2> QED
    BY <1>0, <2>1, NextSlot, AfterTyped
<1>3. TypeOK'
  BY <1>0, <1>1, <1>2, Parts DEF TypeOK
<1>4. Shapes' /\ Page' /\ Compared' /\ Round'
  BY <1>0, <1>1, Parts DEF Shapes, Page, Compared, Round
<1> QED
  BY <1>3, <1>4 DEF IInv

\* 6.1_1.c: one load for all.
LEMMA OnceInv == ASSUME IInv, R_Once PROVE IInv'
<1>0. /\ program = "6.1_1" /\ pc[R] = "compare" /\ q' = buf[i]
      /\ seen' = [seen EXCEPT ![i] = stamp[i]]
      /\ report' = IF q' # exp THEN <<exp, q'>> ELSE report
      /\ silent' = ((i = 0 \/ silent) /\ q' = exp)
      /\ exp' = After(q') /\ i' = (i + 1) % N
      /\ UNCHANGED <<program, pc, writer>>
  BY DEF R_Once
<1>1. /\ silent' \in BOOLEAN /\ exp \in UInt /\ i \in Slot /\ q' \in UInt
      /\ pc \in [{W, R} -> Steps]
  BY <1>0, Parts DEF TypeOK, Shapes
<1>2. exp' \in UInt /\ i' \in Slot /\ (report' = report \/ report' \in UInt \X UInt)
  BY <1>0, <1>1, NextSlot, AfterTyped
<1>3. TypeOK' /\ Shapes' /\ Page'
  BY <1>0, <1>1, <1>2, CompareTyped
<1>4. Compared'
  BY <1>0, Parts DEF Compared
<1>5. Round'
  <2>1. CASE q' = exp
    BY <1>0, <2>1, EqualKeepsRound
  <2>2. CASE q' # exp
    BY <1>0, <2>2 DEF Round
  <2> QED
    BY <2>1, <2>2
<1> QED
  BY <1>3, <1>4, <1>5 DEF IInv

\* No step of the two programs leaves the invariant.
LEMMA InvNext == IInv /\ [Next]_vars => IInv'
<1> SUFFICES ASSUME IInv, [Next]_vars PROVE IInv'
  OBVIOUS
<1>0. pc \in [{W, R} -> Steps] /\ pc[W] \in {"fork", "store", "killed"} /\ W # R
  BY Parts DEF Shapes, TypeOK
<1>1. CASE Fork
  <2>1. pc' \in [{W, R} -> Steps] /\ pc'[W] = "store"
        /\ UNCHANGED <<program, reader, writer>>
    BY <1>0, <1>1 DEF Fork, Goto, Steps
  <2>2. pc'[R] = pc[R] \/ (pc'[R] = "compare" /\ ~silent)
    BY <1>0, <1>1, Parts DEF Fork, Goto, Compared
  <2> QED
    BY <2>1, <2>2, Outside
<1>2. CASE W_Store
  BY <1>2, StoreInv
<1>3. CASE Reader
  BY <1>3, CompareInv, PrintInv, ResyncInv, OnceInv DEF Reader
<1>4. ASSUME NEW p \in {W, R}, Kill(p) PROVE IInv'
  <2>1. /\ pc' = [pc EXCEPT ![p] = "killed"] /\ UNCHANGED <<program, reader, writer>>
    BY <1>4 DEF Kill, Goto
  <2>2. pc[W] = "fork" => p = W
    BY <1>4, Parts DEF Kill, Compared
  <2>3. /\ pc' \in [{W, R} -> Steps] /\ pc'[W] \in {"store", "killed"}
        /\ pc'[R] = pc[R] \/ pc'[R] = "killed"
    BY <1>0, <2>1, <2>2 DEF Steps
  <2> QED
    BY <2>1, <2>3, Outside
<1>5. CASE UNCHANGED vars
  BY <1>0, <1>5, Outside DEF vars
<1> QED
  BY <1>1, <1>2, <1>3, <1>4, <1>5 DEF Next

-----------------------------------------------------------------------------

\* The inductive invariant.
THEOREM Invariance == Spec => []IInv
BY InvInit, InvNext, PTL DEF Spec

\* The variables have their types, and a reader that has gone round the page without
\* a word has read consecutive stores, or stores that lie a multiple of UINT_MAX + 1
\* apart (6.1_1f.c:26-34): what it takes for one page is no mixture of two.
THEOREM SilenceHolds == Spec => []Silence
<1>1. ASSUME IInv PROVE Silence
  <2>1. TypeOK /\ SilentRoundIsOnePage
    BY <1>1, Parts DEF SilentRoundIsOnePage, Round, Follows, Modulus
  <2> QED
    BY <2>1 DEF Silence
<1> QED
  BY <1>1, Invariance, PTL

\* A report that names the same number twice (6.1_1f.c:29) is made only when the slot
\* has been written since it was compared.
THEOREM EqualMeansOvertakenHolds == Spec => EqualMeansOvertaken
<1>1. ASSUME IInv, [Next]_vars, report' # report, report'[1] = report'[2]
      PROVE  program = "6.1_1f" /\ stamp[i] # seen[i]
  <2>1. CASE R_Print
    <3>1. /\ program = "6.1_1f" /\ q # exp /\ q = NumberOf(seen[i])
          /\ buf[i] = NumberOf(stamp[i])
      BY <1>1, <2>1, Parts DEF R_Print, Compared, Page
    <3>2. PICK g \in {q, buf[i]} : report' = <<exp, g>>
      BY <2>1 DEF R_Print
    <3> QED
      BY <1>1, <3>1, <3>2
  <2>2. CASE R_Once
    BY <1>1, <2>2 DEF R_Once
  <2>3. report' = report \/ R_Print \/ R_Once
    BY <1>1 DEF Next, Fork, W_Store, Reader, R_Compare, R_Resync, Kill, reader, vars
  <2> QED
    BY <1>1, <2>1, <2>2, <2>3
<1>2. IInv /\ [Next]_vars =>
        [report' # report /\ report'[1] = report'[2] =>
           program = "6.1_1f" /\ stamp[i] # seen[i]]_vars
  BY <1>1
<1> QED
  BY <1>2, Invariance, PTL DEF Spec, EqualMeansOvertaken
=============================================================================
