----------------------------- MODULE HeapProofs -----------------------------
(***************************************************************************)
(* Proofs about Heap, for every length of the mapping, size of the header, *)
(* slack, width of size_t and set of requests that satisfy HeapAssumption; *)
(* and about HeapDemo, main() with the sizes of the program, for every     *)
(* text on standard input.                                                 *)
(***************************************************************************)
EXTENDS HeapDemo, SequenceTheorems, TLAPS

USE HeapAssumption DEF NULL, MAP_FAILED

\* The headers after a split of a block that fits, in plain arithmetic: no
\* sum or difference leaves the range of size_t.
LEMMA SplitFacts ==
  ASSUME TypeOK, Tiling, NEW b \in Blocks, Fits(b), Splits(b), NEW h, h = Split(b)
  PROVE  LET new == b + HDR + req IN
         /\ new \notin Blocks /\ b < new /\ new + HDR <= End(b) /\ new \in Int
         /\ DOMAIN h = Blocks \cup {new}
         /\ h[new] = [size |-> hdr[b].size - req - HDR, free |-> TRUE,
                      next |-> hdr[b].next]
         /\ h[b] = [size |-> req, free |-> FALSE, next |-> new]
         /\ \A x \in Blocks \ {b} : h[x] = hdr[x]
<1> DEFINE new == b + HDR + req
<1>1. /\ b \in Int /\ hdr[b].size \in Int /\ req \in Nat
      /\ hdr[b].size <= HEAP_SIZE - HDR /\ hdr[b].size >= req
      /\ End(b) = b + HDR + hdr[b].size
  BY DEF TypeOK, Header, Fits, End
<1>2. hdr[b].size > req + HDR + SLACK
  BY <1>1 DEF Splits, Plus
<1>3. Minus(Minus(hdr[b].size, req), HDR) = hdr[b].size - req - HDR
  BY <1>1, <1>2 DEF Minus
<1>4. b < new /\ new + HDR <= End(b) /\ new \in Int
  BY <1>1, <1>2
<1>5. new \notin Blocks
  BY <1>4, <1>1 DEF Tiling
<1> QED
  BY <1>3, <1>4, <1>5 DEF Split

LEMMA HeaderIntro ==
  ASSUME NEW s \in 0 .. HEAP_SIZE - HDR, NEW f \in BOOLEAN, NEW n \in Blocks' \cup {NULL}
  PROVE  [size |-> s, free |-> f, next |-> n] \in Header'
  BY DEF Header

LEMMA HeapInit == Init => IInv
  BY DEF Init, IInv, TypeOK, Tiling, Owned, NoneBefore, CrashOnlyIfUnmapped, Blocks, Header

LEMMA FoundSplit ==
  ASSUME IInv, Found, Splits(cur)
  PROVE  IInv'
<1> DEFINE new == cur + HDR + req
<1> USE DEF IInv
<1>1. cur \in Blocks /\ Fits(cur) /\ TypeOK /\ Tiling
  BY DEF Found
<1>2. hdr' = Split(cur) /\ Blocks' = DOMAIN hdr'
  BY DEF Found, Blocks
<1>3. /\ new \notin Blocks /\ cur < new /\ new + HDR <= End(cur) /\ new \in Int
      /\ Blocks' = Blocks \cup {new}
      /\ hdr'[new] = [size |-> hdr[cur].size - req - HDR, free |-> TRUE,
                      next |-> hdr[cur].next]
      /\ hdr'[cur] = [size |-> req, free |-> FALSE, next |-> new]
      /\ \A x \in Blocks \ {cur} : hdr'[x] = hdr[x]
  BY <1>1, <1>2, SplitFacts
<1>4. /\ pc' = "idle" /\ cur' = NULL /\ req' = 0 /\ heap' = heap /\ ret' = cur + HDR
      /\ live' = [p \in DOMAIN live \cup {cur + HDR} |->
                    IF p = cur + HDR THEN req ELSE live[p]]
  BY DEF Found, Return
<1>5. /\ cur \in Int /\ hdr[cur].size \in 0 .. HEAP_SIZE - HDR /\ req \in Nat
      /\ End(cur) = cur + HDR + hdr[cur].size
  BY <1>1 DEF TypeOK, Header, End
<1>6. TypeOK'
  <2>1. new \in 0 .. HEAP_SIZE - HDR
    BY <1>1, <1>3, <1>5 DEF Tiling, TypeOK
  <2>2. \A x \in Blocks' : hdr'[x] \in Header'
    <3> SUFFICES ASSUME NEW x \in Blocks' PROVE hdr'[x] \in Header'
      OBVIOUS
    <3>1. CASE x = new
      <4>1. hdr[cur].next \in Blocks' \cup {NULL}
        BY <1>1, <1>3 DEF TypeOK, Header
      <4>2. hdr[cur].size - req - HDR \in 0 .. HEAP_SIZE - HDR
        BY <1>3, <1>5
      <4> QED
        BY <1>3, <3>1, <4>1, <4>2, HeaderIntro
    <3>2. CASE x = cur
      <4>1. req \in 0 .. HEAP_SIZE - HDR
        BY <1>1, <1>5 DEF Fits
      <4> QED
        BY <1>3, <3>2, <4>1, HeaderIntro
    <3>3. CASE x \in Blocks \ {cur}
      BY <1>1, <1>3, <3>3 DEF TypeOK, Header
    <3> QED
      BY <1>3, <3>1, <3>2, <3>3
  <2>3. hdr' = [x \in Blocks' |-> hdr'[x]]
    BY <1>2 DEF Split, Blocks
  <2> QED
    BY <2>1, <2>2, <2>3, <1>3, <1>4, <1>5 DEF TypeOK
<1>7. Tiling'
  <2> DEFINE E(x) == x + HDR + hdr'[x].size
  <2>1. /\ E(cur) = new /\ E(new) = End(cur)
        /\ \A x \in Blocks \ {cur} : E(x) = End(x)
    BY <1>3, <1>5 DEF End
  <2>2. \A x \in Blocks : x \in Int /\ End(x) \in Int
    BY <1>1 DEF TypeOK, Header, End
  <2> HIDE DEF E
  <2>3. \A x \in Blocks' : E(x) <= HEAP_SIZE
    <3>1. \A x \in Blocks : End(x) <= HEAP_SIZE
      BY <1>1 DEF Tiling
    <3>2. new <= HEAP_SIZE
      BY <1>1, <1>3, <1>5, <3>1
    <3> QED
      BY <1>1, <1>3, <2>1, <3>1, <3>2
  <2>4. \A x \in Blocks' : hdr'[x].next = IF E(x) = HEAP_SIZE THEN NULL ELSE E(x)
    BY <1>1, <1>3, <1>5, <2>1, <2>2 DEF Tiling
  <2>5. \A x, y \in Blocks' : x < y => E(x) <= y
    <3> SUFFICES ASSUME NEW x \in Blocks', NEW y \in Blocks', x < y PROVE E(x) <= y
      OBVIOUS
    <3>1. CASE x \in Blocks /\ y \in Blocks
      BY <1>1, <1>3, <1>5, <2>1, <2>2, <3>1 DEF Tiling
    <3>2. CASE x = new /\ y \in Blocks
      BY <1>1, <1>3, <1>5, <2>1, <2>2, <3>2 DEF Tiling
    <3>3. CASE x \in Blocks /\ y = new
      <4>1. CASE x = cur
        BY <1>3, <1>5, <2>1, <3>3, <4>1
      <4>2. CASE x < cur
        BY <1>1, <1>3, <1>5, <2>1, <2>2, <3>3, <4>2 DEF Tiling
      <4>3. CASE cur < x
        BY <1>1, <1>3, <1>5, <2>1, <2>2, <3>3, <4>3 DEF Tiling
      <4> QED
        BY <1>5, <2>2, <3>3, <4>1, <4>2, <4>3
    <3> QED
      BY <1>3, <3>1, <3>2, <3>3
  <2> QED
    BY <1>1, <1>3, <1>4, <2>3, <2>4, <2>5 DEF Tiling, End, E
<1>8. Owned'
  BY <1>1, <1>3, <1>4, <1>5 DEF Owned, TypeOK, Fits
<1>9. NoneBefore' /\ CrashOnlyIfUnmapped'
  BY <1>4 DEF NoneBefore, CrashOnlyIfUnmapped
<1> QED
  BY <1>6, <1>7, <1>8, <1>9

LEMMA FoundTake ==
  ASSUME IInv, Found, ~Splits(cur)
  PROVE  IInv'
<1> USE DEF IInv
<1>1. cur \in Blocks /\ Fits(cur) /\ TypeOK /\ Tiling
  BY DEF Found
<1>2. hdr' = [hdr EXCEPT ![cur].free = FALSE]
  BY DEF Found, Take
<1>3. /\ Blocks' = Blocks
      /\ \A x \in Blocks \ {cur} : hdr'[x] = hdr[x]
      /\ hdr'[cur] = [size |-> hdr[cur].size, free |-> FALSE, next |-> hdr[cur].next]
  BY <1>1, <1>2 DEF TypeOK, Header, Blocks
<1>4. /\ pc' = "idle" /\ cur' = NULL /\ req' = 0 /\ heap' = heap /\ ret' = cur + HDR
      /\ live' = [p \in DOMAIN live \cup {cur + HDR} |->
                    IF p = cur + HDR THEN req ELSE live[p]]
  BY DEF Found, Return
<1>5. /\ cur \in Int /\ hdr[cur].size \in 0 .. HEAP_SIZE - HDR /\ req \in Nat
  BY <1>1 DEF TypeOK, Header
<1>6. TypeOK'
  <2>1. \A x \in Blocks : hdr'[x] \in Header'
    <3>1. hdr[cur].next \in Blocks' \cup {NULL}
      BY <1>1, <1>3 DEF TypeOK, Header
    <3>2. hdr'[cur] \in Header'
      BY <1>3, <1>5, <3>1, HeaderIntro
    <3>3. ASSUME NEW x \in Blocks \ {cur} PROVE hdr'[x] \in Header'
      BY <1>1, <1>3 DEF TypeOK, Header
    <3> QED
      BY <3>2, <3>3
  <2>2. hdr' = [x \in Blocks |-> hdr'[x]]
    BY <1>1, <1>2 DEF TypeOK
  <2>3. hdr' \in [Blocks' -> Header']
    BY <1>3, <2>1, <2>2
  <2> QED
    BY <1>1, <1>3, <1>4, <1>5, <2>3 DEF TypeOK
<1>7. Tiling'
  BY <1>1, <1>3, <1>4, <1>5 DEF Tiling, End, TypeOK, Header
<1>8. Owned'
  BY <1>1, <1>3, <1>4, <1>5 DEF Owned, TypeOK, Fits
<1>9. NoneBefore' /\ CrashOnlyIfUnmapped'
  BY <1>4 DEF NoneBefore, CrashOnlyIfUnmapped
<1> QED
  BY <1>6, <1>7, <1>8, <1>9

\* A step that leaves the headers and the pointers alone.
LEMMA Kept ==
  ASSUME IInv, UNCHANGED <<heap, hdr, live>>, pc' = "start" => pc = "start"
  PROVE  Tiling' /\ Owned' /\ Blocks' = Blocks /\ Header' = Header
         /\ hdr' \in [Blocks' -> Header'] /\ heap' \in {NULL, MAP_FAILED, 0}
         /\ Blocks' \subseteq 0 .. HEAP_SIZE - HDR
         /\ DOMAIN live' \subseteq Int /\ live' \in [DOMAIN live' -> 0 .. WORD - 1]
<1>1. Blocks' = Blocks /\ \A x : End(x)' = x' + HDR + hdr[x'].size
  BY DEF Blocks, End
<1>2. Header' = Header
  BY <1>1 DEF Header
<1>3. Tiling'
  BY <1>1 DEF IInv, Tiling, End
<1>4. Owned'
  BY <1>1 DEF IInv, Owned
<1> QED
  BY <1>1, <1>2, <1>3, <1>4 DEF IInv, TypeOK

LEMMA HeapNext == IInv /\ [Next]_vars => IInv'
<1> SUFFICES ASSUME IInv, [Next]_vars PROVE IInv'
  OBVIOUS
<1> USE DEF IInv
<1>1. CASE init_heap_file
  <2>1. /\ Blocks = {} /\ cur # MAP_FAILED
        /\ UNCHANGED <<cur, req, ret, live>> /\ pc' = "idle"
    BY <1>1 DEF init_heap_file, Tiling, NoneBefore
  <2>2. DOMAIN live = {}
    BY <2>1 DEF Owned
  <2>3. CASE /\ heap' = 0
             /\ hdr' = [b \in {0} |-> [size |-> HEAP_SIZE - HDR, free |-> TRUE, next |-> NULL]]
    <3>1. /\ Blocks' = {0}
          /\ hdr'[0] = [size |-> HEAP_SIZE - HDR, free |-> TRUE, next |-> NULL]
      BY <2>3 DEF Blocks
    <3>2. hdr'[0] \in Header'
      <4>1. HEAP_SIZE - HDR \in 0 .. HEAP_SIZE - HDR
        OBVIOUS
      <4> QED
        BY <3>1, <4>1, HeaderIntro
    <3>3. TypeOK'
      BY <2>1, <2>2, <2>3, <3>1, <3>2 DEF TypeOK
    <3>4. Tiling'
      BY <2>1, <2>3, <3>1 DEF Tiling, End
    <3> QED
      BY <2>1, <2>2, <3>1, <3>3, <3>4 DEF Owned, NoneBefore, CrashOnlyIfUnmapped
  <2>4. CASE UNCHANGED hdr /\ heap' \in {NULL, MAP_FAILED}
    BY <2>1, <2>2, <2>4 DEF TypeOK, Tiling, Owned, NoneBefore, CrashOnlyIfUnmapped, Blocks, Header
  <2> QED
    BY <1>1, <2>3, <2>4 DEF init_heap_file
<1>2. ASSUME NEW what \in {"malloc", "print"}, Walk(what), req' \in 0 .. WORD - 1
      PROVE  IInv'
  <2>1. /\ pc = "idle" /\ pc' = what /\ cur' = heap
        /\ UNCHANGED <<heap, hdr, ret, live>>
    BY <1>2 DEF Walk
  <2>2. heap = 0 => 0 \in Blocks /\ \A b \in Blocks : 0 <= b
    BY DEF TypeOK, Tiling
  <2>3. heap # 0 => Blocks = {}
    BY DEF Tiling
  <2>4. TypeOK'
    BY <1>2, <2>1, <2>2, Kept DEF TypeOK
  <2>5. NoneBefore'
    BY <2>1, <2>2, <2>3, Kept DEF NoneBefore, TypeOK
  <2> QED
    BY <2>1, <2>4, <2>5, Kept DEF CrashOnlyIfUnmapped
<1>3. ASSUME NEW p \in DOMAIN live \cup {NULL}, my_free(p) PROVE IInv'
  <2>1. CASE p = NULL
    <3>1. UNCHANGED vars
      BY <1>3, <2>1 DEF my_free, vars
    <3> QED
      BY <3>1, Kept DEF vars, TypeOK, NoneBefore, CrashOnlyIfUnmapped, Fits
  <2>2. CASE p # NULL
    <3> DEFINE f == p - HDR
    <3>1. /\ f \in Blocks /\ p \in DOMAIN live /\ f \in Int
      BY <1>3, <2>2 DEF Owned, TypeOK
    <3>2. /\ Blocks' = Blocks /\ UNCHANGED <<pc, heap, cur, req, ret>> /\ pc = "idle"
          /\ hdr' = [hdr EXCEPT ![f].free = TRUE]
          /\ live' = [q \in DOMAIN live \ {p} |-> live[q]]
      BY <1>3, <2>2 DEF my_free, Blocks, TypeOK
    <3>3. /\ \A x \in Blocks \ {f} : hdr'[x] = hdr[x]
          /\ hdr'[f] = [size |-> hdr[f].size, free |-> TRUE, next |-> hdr[f].next]
      BY <3>1, <3>2 DEF TypeOK, Header
    <3>4. Header' = Header
      BY <3>2 DEF Header
    <3>5. hdr'[f] \in Header
      BY <3>1, <3>3 DEF TypeOK, Header
    <3>6. hdr' \in [Blocks -> Header]
      BY <3>1, <3>2, <3>3, <3>5 DEF TypeOK
    <3>7. TypeOK'
      BY <3>2, <3>4, <3>6 DEF TypeOK
    <3>8. Tiling'
      BY <3>1, <3>2, <3>3 DEF Tiling, End
    <3>9. Owned'
      BY <3>1, <3>2, <3>3 DEF Owned, TypeOK
    <3> QED
      BY <3>2, <3>7, <3>8, <3>9 DEF NoneBefore, CrashOnlyIfUnmapped
  <2> QED
    BY <2>1, <2>2
<1>4. CASE Found
  BY <1>4, FoundSplit, FoundTake
<1>5. CASE Advance
  <2>1. /\ cur \in Blocks /\ cur' = hdr[cur].next /\ UNCHANGED <<pc, heap, hdr, req, ret, live>>
        /\ pc = "malloc" => ~Fits(cur)
    BY <1>5 DEF Advance
  <2>2. cur' \in Blocks \cup {NULL}
    BY <2>1 DEF TypeOK, Header
  <2>3. TypeOK'
    BY <2>1, <2>2, Kept DEF TypeOK
  <2>4. ASSUME pc = "malloc", NEW b \in Blocks, cur' = NULL \/ b < cur' PROVE ~Fits(b)
    <3>1. /\ b \in Int /\ cur \in Int /\ b >= 0 /\ cur >= 0 /\ b <= HEAP_SIZE - HDR
      BY <2>1 DEF TypeOK
    <3>2. CASE b < cur
      BY <2>1, <2>4, <3>1, <3>2 DEF NoneBefore
    <3>3. CASE b = cur
      BY <2>1, <2>4, <3>3
    <3>4. CASE cur < b
      <4>1. End(cur) <= b
        BY <2>1, <3>4 DEF Tiling
      <4>2. cur' = IF End(cur) = HEAP_SIZE THEN NULL ELSE End(cur)
        BY <2>1 DEF Tiling
      <4>3. End(cur) \in Int
        BY <2>1, <3>1 DEF End, TypeOK, Header
      <4>4. End(cur) # HEAP_SIZE /\ End(cur) # NULL
        BY <3>1, <4>1, <4>3, <2>1 DEF End, TypeOK, Header
      <4> QED
        BY <2>1, <2>4, <3>1, <4>1, <4>2, <4>3, <4>4
    <3> QED
      BY <3>1, <3>2, <3>3, <3>4
  <2>5. NoneBefore'
    <3>1. \A b \in Blocks : Fits(b)' <=> Fits(b)
      BY <2>1 DEF Fits
    <3> QED
      BY <2>1, <2>2, <2>4, <3>1, Kept DEF NoneBefore, TypeOK
  <2> QED
    BY <2>1, <2>3, <2>5, Kept DEF CrashOnlyIfUnmapped
<1>6. CASE NotFound \/ Printed
  BY <1>6, Kept DEF NotFound, Printed, Return, TypeOK, NoneBefore, CrashOnlyIfUnmapped
<1>7. CASE Crash
  <2>1. /\ cur = MAP_FAILED /\ pc' = "crashed" /\ UNCHANGED <<heap, hdr, cur, req, ret, live>>
    BY <1>7 DEF Crash, TypeOK
  <2> QED
    BY <2>1, Kept DEF TypeOK, NoneBefore, CrashOnlyIfUnmapped
<1>8. CASE UNCHANGED vars
  BY <1>8, Kept DEF vars, TypeOK, NoneBefore, CrashOnlyIfUnmapped, Fits
<1> QED
  BY <1>1, <1>2, <1>3, <1>4, <1>5, <1>6, <1>7, <1>8
     DEF Next, Call, Visit, my_malloc, print_heap, TypeOK

-----------------------------------------------------------------------------
\* The inductive invariant of the list of blocks.
THEOREM Invariance == Spec => []IInv
  BY HeapInit, HeapNext, PTL DEF Spec

\* From one end of the mapping to the other, without gap or overlap.
THEOREM TilingHolds == Spec => []Tiling
<1>1. IInv => Tiling
  BY DEF IInv
<1> QED
  BY <1>1, Invariance, PTL

\* The caller's pointers are the blocks in use, each large enough.
THEOREM OwnedHolds == Spec => []Owned
<1>1. IInv => Owned
  BY DEF IInv
<1> QED
  BY <1>1, Invariance, PTL

\* A request is refused only when no free block is large enough for it:
\* every block passed on the way was too small (NoneBefore).
THEOREM NullOnlyWhenFullHolds == Spec => NullOnlyWhenFull
<1>1. ASSUME IInv, NotFound, NEW b \in Blocks, hdr[b].free PROVE hdr[b].size < req
  <2>1. ~Fits(b)
    BY <1>1 DEF IInv, NoneBefore, NotFound
  <2>2. hdr[b].size \in Int /\ req \in Int
    BY <1>1, HeapAssumption DEF IInv, TypeOK, Header
  <2> QED
    BY <1>1, <2>1, <2>2 DEF Fits
<1>2. IInv => [NotFound => \A b \in Blocks : hdr[b].free => hdr[b].size < req]_vars
  BY <1>1
<1> QED
  BY <1>2, Invariance, PTL DEF NullOnlyWhenFull

\* The block taken is the first that fits.
THEOREM FirstFitHolds == Spec => FirstFit
<1>1. ASSUME IInv, Found, NEW b \in Blocks, Fits(b) PROVE cur <= b
  <2>1. cur \in Blocks /\ pc = "malloc" /\ ~(b < cur)
    BY <1>1 DEF IInv, NoneBefore, Found
  <2> QED
    BY <1>1, <2>1 DEF IInv, TypeOK
<1>2. IInv => [Found => \A b \in Blocks :
                 hdr[b].free /\ hdr[b].size >= req => cur <= b]_vars
  BY <1>1 DEF Fits
<1> QED
  BY <1>2, Invariance, PTL DEF FirstFit

LEMMA FoundKeeps ==
  ASSUME IInv, Found, NEW x \in Blocks, x # cur
  PROVE  hdr'[x] = hdr[x]
<1>1. cur \in Blocks /\ Fits(cur) /\ TypeOK /\ Tiling
  BY DEF Found, IInv
<1>2. CASE Splits(cur)
  <2>1. hdr' = Split(cur)
    BY <1>2 DEF Found
  <2>2. cur + HDR + req \notin Blocks
    BY <1>1, <1>2, SplitFacts
  <2> QED
    BY <1>1, <2>1, <2>2 DEF Split
<1>3. CASE ~Splits(cur)
  BY <1>1, <1>3 DEF Found, Take, Blocks
<1> QED
  BY <1>2, <1>3

\* While the caller holds a block its size stays: a split changes the size of
\* a free block only.
THEOREM SizeKeptHolds == Spec => SizeKept
<1>1. ASSUME IInv, Next, NEW p \in DOMAIN live \cap DOMAIN live'
      PROVE  hdr'[p - HDR].size = hdr[p - HDR].size
  <2>1. p - HDR \in Blocks /\ ~hdr[p - HDR].free /\ p \in DOMAIN live
    BY <1>1 DEF IInv, Owned
  <2>2. CASE Found
    <3>1. p - HDR # cur /\ cur \in Blocks /\ Fits(cur)
      BY <2>1, <2>2 DEF Found, Fits
    <3> QED
      BY <1>1, <2>1, <2>2, <3>1, FoundKeeps
  <2>3. ASSUME NEW q \in DOMAIN live \cup {NULL}, my_free(q)
        PROVE  hdr'[p - HDR].size = hdr[p - HDR].size
    <3>1. CASE q = NULL
      BY <2>3, <3>1 DEF my_free
    <3>2. CASE q # NULL
      <4>1. hdr[q - HDR] \in Header /\ q - HDR \in Blocks
        BY <1>1, <2>3, <3>2 DEF IInv, Owned, TypeOK
      <4> QED
        BY <2>1, <2>3, <3>2, <4>1 DEF my_free, Blocks, Header
    <3> QED
      BY <3>1, <3>2
  <2>4. CASE init_heap_file
    BY <1>1, <2>1, <2>4 DEF init_heap_file, IInv, Tiling
  <2>5. CASE UNCHANGED hdr
    BY <2>5
  <2> QED
    BY <1>1, <2>2, <2>3, <2>4, <2>5
       DEF Next, Call, Visit, my_malloc, print_heap, Walk, Advance, NotFound, Printed, Crash
<1>2. IInv => [Next => \A p \in DOMAIN live \cap DOMAIN live' :
                          hdr'[p - HDR].size = hdr[p - HDR].size]_vars
  BY <1>1
<1>3. ASSUME [Next]_vars, [Next => \A p \in DOMAIN live \cap DOMAIN live' :
                                     hdr'[p - HDR].size = hdr[p - HDR].size]_vars
      PROVE  [\A p \in DOMAIN live \cap DOMAIN live' :
                 hdr'[p - HDR].size = hdr[p - HDR].size]_vars
  BY <1>3
<1> QED
  BY <1>2, <1>3, Invariance, PTL DEF SizeKept, Spec

\* What a call of my_malloc does to the list (4.3.c:55-74), for a heap, a header
\* and requests of any size.
THEOREM PlacementHolds == Spec => Placement
  BY NullOnlyWhenFullHolds, FirstFitHolds, SizeKeptHolds, PTL DEF Placement

\* Every step is a step of the abstract allocator or leaves the pointers in
\* use alone: the bytes handed out lie inside a block that was free, and the
\* blocks tile the mapping.
THEOREM AllocatorHolds == Spec => AllocatorSpec
<1>1. Init => A!Init
  BY DEF Init, A!Init
<1>2. ASSUME IInv, [Next]_vars PROVE [A!Next]_live
  <2>1. CASE Found
    <3> DEFINE p == cur + HDR
    <3>1. /\ cur \in Blocks /\ Fits(cur) /\ cur \in 0 .. HEAP_SIZE - HDR
          /\ req \in Nat /\ req <= hdr[cur].size /\ hdr[cur].size \in 0 .. HEAP_SIZE - HDR
          /\ hdr[cur].free
      BY <1>2, <2>1 DEF Found, IInv, TypeOK, Header, Fits
    <3>2. live' = [q \in DOMAIN live \cup {p} |-> IF q = p THEN req ELSE live[q]]
      BY <2>1 DEF Found
    <3>3. p \notin DOMAIN live
      BY <1>2, <3>1 DEF IInv, Owned
    <3>4. A!Bytes(p, req) \subseteq HDR .. HEAP_SIZE - 1
      <4>1. End(cur) <= HEAP_SIZE
        BY <1>2, <3>1 DEF IInv, Tiling
      <4> QED
        BY <3>1, <4>1 DEF A!Bytes, End
    <3>5. ASSUME NEW q \in DOMAIN live
          PROVE  A!Bytes(p, req) \cap A!Bytes(q, live[q]) = {}
      <4> DEFINE c == q - HDR
      <4>1. /\ q \in Int /\ c \in Blocks /\ c \in Int /\ c # cur /\ ~hdr[c].free
            /\ live[q] \in Int /\ live[q] <= hdr[c].size
            /\ hdr[c].size \in 0 .. HEAP_SIZE - HDR
        BY <1>2, <3>1 DEF IInv, Owned, TypeOK, Header
      <4>2. CASE c < cur
        <5>1. End(c) <= cur
          BY <1>2, <3>1, <4>1, <4>2 DEF IInv, Tiling
        <5> QED
          BY <3>1, <4>1, <5>1 DEF A!Bytes, End
      <4>3. CASE cur < c
        <5>1. End(cur) <= c
          BY <1>2, <3>1, <4>1, <4>3 DEF IInv, Tiling
        <5> QED
          BY <3>1, <4>1, <5>1 DEF A!Bytes, End
      <4> QED
        BY <3>1, <4>1, <4>2, <4>3
    <3>6. A!Alloc(p, req)
      BY <3>2, <3>3, <3>4, <3>5 DEF A!Alloc
    <3>7. req \in 0 .. HEAP_SIZE - HDR /\ p \in HDR .. HEAP_SIZE
      BY <3>1
    <3> QED
      BY <3>6, <3>7 DEF A!Next
  <2>2. ASSUME NEW p \in DOMAIN live \cup {NULL}, my_free(p) PROVE [A!Next]_live
    <3>1. CASE p = NULL
      BY <2>2, <3>1 DEF my_free
    <3>2. CASE p # NULL
      <4>1. A!Free(p)
        BY <2>2, <3>2 DEF my_free, A!Free
      <4> QED
        BY <2>2, <3>2, <4>1 DEF A!Next
    <3> QED
      BY <3>1, <3>2
  <2>3. CASE init_heap_file \/ print_heap \/ Advance \/ NotFound \/ Printed \/ Crash
             \/ (\E n \in Requests : my_malloc(n))
    BY <2>3 DEF init_heap_file, print_heap, my_malloc, Walk, Advance, NotFound,
                Printed, Crash
  <2>4. CASE UNCHANGED vars
    BY <2>4 DEF vars
  <2> QED
    BY <1>2, <2>1, <2>2, <2>3, <2>4 DEF Next, Call, Visit
<1> QED
  BY <1>1, <1>2, Invariance, PTL DEF AllocatorSpec, A!Spec, Spec

-----------------------------------------------------------------------------
(* main(): what Script is, and what each of its requests does to the heap. *)

Stmt == [op : {"malloc", "free", "print", "wait"}, n : Nat]

\* The three statements of a Shown.
LEMMA ShownFacts ==
  ASSUME NEW op \in {"malloc", "free"}, NEW n \in Nat
  PROVE  /\ Shown(op, n) \in Seq(Stmt) /\ Len(Shown(op, n)) = 3
         /\ Shown(op, n)[1] = [op |-> op, n |-> n]
         /\ Shown(op, n)[2] = [op |-> "print", n |-> 0]
         /\ Shown(op, n)[3] = [op |-> "wait", n |-> 0]
<1> DEFINE x == [op |-> op, n |-> n]
           y == [op |-> "print", n |-> 0]
           z == [op |-> "wait", n |-> 0]
<1>1. x \in Stmt /\ y \in Stmt /\ z \in Stmt
  BY DEF Stmt
<1>2. Shown(op, n) = <<x, y, z>>
  BY DEF Shown
<1> HIDE DEF x, y, z
<1>3. <<x, y, z>> \in Seq(Stmt) /\ Len(<<x, y, z>>) = 3
  BY <1>1
<1>4. <<x, y, z>>[1] = x /\ <<x, y, z>>[2] = y /\ <<x, y, z>>[3] = z
  OBVIOUS
<1> QED
  BY <1>2, <1>3, <1>4 DEF x, y, z

\* Three statements more.
LEMMA Concat3 ==
  ASSUME NEW s \in Seq(Stmt), NEW t \in Seq(Stmt), Len(t) = 3
  PROVE  /\ s \o t \in Seq(Stmt) /\ Len(s \o t) = Len(s) + 3
         /\ \A k \in 1 .. Len(s) : (s \o t)[k] = s[k]
         /\ (s \o t)[Len(s) + 1] = t[1] /\ (s \o t)[Len(s) + 2] = t[2] /\ (s \o t)[Len(s) + 3] = t[3]
<1> DEFINE u == s \o t
           l == Len(s)
<1>1. /\ u \in Seq(Stmt) /\ Len(u) = Len(s) + Len(t)
      /\ \A k \in 1 .. Len(s) + Len(t) : u[k] = IF k <= Len(s) THEN s[k] ELSE t[k - Len(s)]
  BY ConcatProperties, Zenon
<1>2. l \in Nat
  OBVIOUS
<1> HIDE DEF u
<1>3. \A k \in 1 .. l + 3 : u[k] = IF k <= l THEN s[k] ELSE t[k - l]
  BY <1>1
<1> HIDE DEF l
<1>4. /\ \A k \in 1 .. l : u[k] = s[k]
      /\ u[l + 1] = t[1] /\ u[l + 2] = t[2] /\ u[l + 3] = t[3]
  BY <1>2, <1>3
<1> QED
  BY <1>1, <1>4 DEF u, l

\* A series of statements and a Shown after it.
LEMMA Longer ==
  ASSUME NEW s \in Seq(Stmt), NEW op \in {"malloc", "free"}, NEW n \in Nat
  PROVE  LET u == s \o Shown(op, n) IN
         /\ u \in Seq(Stmt) /\ Len(u) = Len(s) + 3
         /\ \A k \in 1 .. Len(s) : u[k] = s[k]
         /\ u[Len(s) + 1] = [op |-> op, n |-> n]
         /\ u[Len(s) + 2] = [op |-> "print", n |-> 0]
         /\ u[Len(s) + 3] = [op |-> "wait", n |-> 0]
<1> DEFINE t == Shown(op, n)
<1>1. /\ t \in Seq(Stmt) /\ Len(t) = 3 /\ t[1] = [op |-> op, n |-> n]
      /\ t[2] = [op |-> "print", n |-> 0] /\ t[3] = [op |-> "wait", n |-> 0]
  BY ShownFacts
<1> HIDE DEF t
<1>2. /\ s \o t \in Seq(Stmt) /\ Len(s \o t) = Len(s) + 3
      /\ \A k \in 1 .. Len(s) : (s \o t)[k] = s[k]
      /\ (s \o t)[Len(s) + 1] = t[1] /\ (s \o t)[Len(s) + 2] = t[2] /\ (s \o t)[Len(s) + 3] = t[3]
  BY <1>1, Concat3, Zenon
<1>3. /\ (s \o t)[Len(s) + 1] = [op |-> op, n |-> n]
      /\ (s \o t)[Len(s) + 2] = [op |-> "print", n |-> 0]
      /\ (s \o t)[Len(s) + 3] = [op |-> "wait", n |-> 0]
  BY <1>1, <1>2, Zenon
<1> QED
  BY <1>2, <1>3, Zenon DEF t

\* The statements of main() by their numbers.
LEMMA ScriptIs ==
  /\ Len(Script) = 17
  /\ \A k \in {1, 4, 7, 10, 13, 16} : Script[k] = [op |-> "print", n |-> 0]
  /\ \A k \in {2, 5, 8, 11, 14, 17} : Script[k] = [op |-> "wait", n |-> 0]
  /\ Script[3] = [op |-> "malloc", n |-> 100]
  /\ Script[6] = [op |-> "malloc", n |-> 200]
  /\ Script[9] = [op |-> "free", n |-> 0]
  /\ Script[12] = [op |-> "malloc", n |-> 50]
  /\ Script[15] = [op |-> "malloc", n |-> 50000]
<1> DEFINE P == [op |-> "print", n |-> 0]
           W == [op |-> "wait", n |-> 0]
           s0 == <<P, W>>
           s1 == s0 \o Shown("malloc", 100)
           s2 == s1 \o Shown("malloc", 200)
           s3 == s2 \o Shown("free", 0)
           s4 == s3 \o Shown("malloc", 50)
           s5 == s4 \o Shown("malloc", 50000)
<1>s. Script = s5
  BY DEF Script
<1> HIDE DEF s1, s2, s3, s4, s5
<1>0. s0 \in Seq(Stmt) /\ Len(s0) = 2 /\ s0[1] = P /\ s0[2] = W
  <2>1. P \in Stmt /\ W \in Stmt
    BY DEF Stmt
  <2> HIDE DEF P, W
  <2> QED
    BY <2>1
<1> HIDE DEF s0, P, W
<1>1. /\ s1 \in Seq(Stmt) /\ Len(s1) = 5 /\ \A k \in 1 .. 2 : s1[k] = s0[k]
      /\ s1[3] = [op |-> "malloc", n |-> 100] /\ s1[4] = P /\ s1[5] = W
  <2>1. /\ s1 \in Seq(Stmt) /\ Len(s1) = Len(s0) + 3
        /\ \A k \in 1 .. Len(s0) : s1[k] = s0[k]
        /\ s1[Len(s0) + 1] = [op |-> "malloc", n |-> 100]
        /\ s1[Len(s0) + 2] = P /\ s1[Len(s0) + 3] = W
    <3>1. s0 \in Seq(Stmt) /\ "malloc" \in {"malloc", "free"} /\ 100 \in Nat
      BY <1>0
    <3> QED
      BY ONLY <3>1, Longer, SMT DEF s1, P, W
  <2> QED
    BY <1>0, <2>1
<1>2. /\ s2 \in Seq(Stmt) /\ Len(s2) = 8 /\ \A k \in 1 .. 5 : s2[k] = s1[k]
      /\ s2[6] = [op |-> "malloc", n |-> 200] /\ s2[7] = P /\ s2[8] = W
  <2>1. /\ s2 \in Seq(Stmt) /\ Len(s2) = Len(s1) + 3
        /\ \A k \in 1 .. Len(s1) : s2[k] = s1[k]
        /\ s2[Len(s1) + 1] = [op |-> "malloc", n |-> 200]
        /\ s2[Len(s1) + 2] = P /\ s2[Len(s1) + 3] = W
    <3>1. s1 \in Seq(Stmt) /\ "malloc" \in {"malloc", "free"} /\ 200 \in Nat
      BY <1>1
    <3> QED
      BY ONLY <3>1, Longer, SMT DEF s2, P, W
  <2> QED
    BY <1>1, <2>1
<1>3. /\ s3 \in Seq(Stmt) /\ Len(s3) = 11 /\ \A k \in 1 .. 8 : s3[k] = s2[k]
      /\ s3[9] = [op |-> "free", n |-> 0] /\ s3[10] = P /\ s3[11] = W
  <2>1. /\ s3 \in Seq(Stmt) /\ Len(s3) = Len(s2) + 3
        /\ \A k \in 1 .. Len(s2) : s3[k] = s2[k]
        /\ s3[Len(s2) + 1] = [op |-> "free", n |-> 0]
        /\ s3[Len(s2) + 2] = P /\ s3[Len(s2) + 3] = W
    <3>1. s2 \in Seq(Stmt) /\ "free" \in {"malloc", "free"} /\ 0 \in Nat
      BY <1>2
    <3> QED
      BY ONLY <3>1, Longer, SMT DEF s3, P, W
  <2> QED
    BY <1>2, <2>1
<1>4. /\ s4 \in Seq(Stmt) /\ Len(s4) = 14 /\ \A k \in 1 .. 11 : s4[k] = s3[k]
      /\ s4[12] = [op |-> "malloc", n |-> 50] /\ s4[13] = P /\ s4[14] = W
  <2>1. /\ s4 \in Seq(Stmt) /\ Len(s4) = Len(s3) + 3
        /\ \A k \in 1 .. Len(s3) : s4[k] = s3[k]
        /\ s4[Len(s3) + 1] = [op |-> "malloc", n |-> 50]
        /\ s4[Len(s3) + 2] = P /\ s4[Len(s3) + 3] = W
    <3>1. s3 \in Seq(Stmt) /\ "malloc" \in {"malloc", "free"} /\ 50 \in Nat
      BY <1>3
    <3> QED
      BY ONLY <3>1, Longer, SMT DEF s4, P, W
  <2> QED
    BY <1>3, <2>1
<1>5. /\ s5 \in Seq(Stmt) /\ Len(s5) = 17 /\ \A k \in 1 .. 14 : s5[k] = s4[k]
      /\ s5[15] = [op |-> "malloc", n |-> 50000] /\ s5[16] = P /\ s5[17] = W
  <2>1. /\ s5 \in Seq(Stmt) /\ Len(s5) = Len(s4) + 3
        /\ \A k \in 1 .. Len(s4) : s5[k] = s4[k]
        /\ s5[Len(s4) + 1] = [op |-> "malloc", n |-> 50000]
        /\ s5[Len(s4) + 2] = P /\ s5[Len(s4) + 3] = W
    <3>1. s4 \in Seq(Stmt) /\ "malloc" \in {"malloc", "free"} /\ 50000 \in Nat
      BY <1>4
    <3> QED
      BY ONLY <3>1, Longer, SMT DEF s5, P, W
  <2> QED
    BY <1>4, <2>1
<1> QED
  BY <1>0, <1>1, <1>2, <1>3, <1>4, <1>5, <1>s DEF P, W


\* The invariant of main() at the start, when init_heap_file returns, and after
\* each kind of statement.
LEMMA DemoInitially == DemoInit => DemoInv
  BY DEF DemoInit, DemoInv, Init

\* Which statement a line holds.
LEMMA Lines ==
  ASSUME NEW l \in 1 .. 18
  PROVE  /\ l > Len(Script) <=> l = 18
         /\ l < 18 /\ Script[l].op = "print" => l \in {1, 4, 7, 10, 13, 16}
         /\ l < 18 /\ Script[l].op = "wait" => l \in {2, 5, 8, 11, 14, 17}
         /\ l < 18 /\ Script[l].op = "malloc" => l \in {3, 6, 12, 15}
         /\ l < 18 /\ Script[l].op = "free" => l = 9
<1>1. l \in {1, 4, 7, 10, 13, 16} \/ l \in {2, 5, 8, 11, 14, 17} \/ l \in {3, 6, 12, 15} \/ l = 9 \/ l = 18
  OBVIOUS
<1>2. /\ l \in {1, 4, 7, 10, 13, 16} => Script[l].op = "print"
      /\ l \in {2, 5, 8, 11, 14, 17} => Script[l].op = "wait"
      /\ l \in {3, 6, 12, 15} => Script[l].op = "malloc"
      /\ l = 9 => Script[l].op = "free"
  BY ScriptIs
<1> QED
  BY <1>1, <1>2, ScriptIs

LEMMA DemoStart == ASSUME ProgramSizes, DemoInv, Start PROVE DemoInv'
<1> USE DEF ProgramSizes, DemoInv, Start, init_heap_file
<1>1. CASE heap' = 0
  <2>1. hdr' = Blocks0 /\ pc' = "idle" /\ line' = 1 /\ a' = NULL
    BY <1>1 DEF Blocks0, Unused
  <2> QED
    BY <1>1, <2>1 DEF BlocksAt, WalkAt
<1> QED
  BY <1>1

\* A call begins.
LEMMA DemoCall ==
  ASSUME DemoInv, heap = 0,
         \/ At("malloc") /\ my_malloc(Script[line].n) /\ UNCHANGED line
         \/ At("print") /\ print_heap /\ UNCHANGED line,
         a' = IF Found /\ Script[line].n = 100 THEN ret' ELSE a
  PROVE  DemoInv'
<1> USE DEF DemoInv
<1>1. pc = "idle" /\ line' = line /\ line \in 1 .. 18 /\ heap' = 0 /\ hdr' = hdr /\ ret' = ret /\ cur' = 0
  BY DEF At, my_malloc, print_heap, Walk
<1>2. a' = a
  BY <1>1 DEF Found
<1>3. BlocksAt'
  BY <1>1 DEF BlocksAt
<1>4. CASE At("malloc") /\ my_malloc(Script[line].n)
  <2>1. line \in {3, 6, 12, 15} /\ pc' = "malloc" /\ req' = Script[line].n
    <3>1. pc' = "malloc" /\ req' = Script[line].n
      BY <1>4 DEF my_malloc, Walk
    <3>2. ~(line > Len(Script)) /\ Script[line].op = "malloc"
      BY <1>4 DEF At, Done
    <3>3. line < 18
      BY <1>1, <3>2, Lines
    <3> QED
      BY <1>1, <3>1, <3>2, <3>3, Lines
  <2> QED
    BY <1>1, <1>2, <1>3, <2>1 DEF WalkAt
<1>5. CASE At("print") /\ print_heap
  <2>1. line \in {1, 4, 7, 10, 13, 16} /\ pc' = "print"
    <3>1. pc' = "print"
      BY <1>5 DEF print_heap, Walk
    <3>2. ~(line > Len(Script)) /\ Script[line].op = "print"
      BY <1>5 DEF At, Done
    <3>3. line < 18
      BY <1>1, <3>2, Lines
    <3> QED
      BY <1>1, <3>1, <3>2, <3>3, Lines
  <2>2. 0 \in Blocks'
    BY <1>1 DEF BlocksAt, Blocks, Blocks0, Blocks1, Blocks2, Blocks3, RecordedHeap
  <2> QED
    BY <1>1, <1>2, <1>3, <2>1, <2>2 DEF WalkAt
<1> QED
  BY <1>4, <1>5

\* The first request is cut off the one block there is.
LEMMA FirstRequest ==
  ASSUME ProgramSizes, hdr = Blocks0, cur = 0, req = 100
  PROVE  Fits(cur) /\ Splits(cur) /\ Split(cur) = Blocks1
<1> USE DEF ProgramSizes
<1>1. Blocks = {0} /\ hdr[0] = Unused(1000, NULL)
  BY DEF Blocks, Blocks0
<1>2. Fits(0) /\ Splits(0)
  BY <1>1 DEF Fits, Splits, Plus, Unused
<1>3. Minus(Minus(1000, 100), 24) = 876
  BY DEF Minus
<1>4. Split(0) = [x \in {0, 124} |-> IF x = 124 THEN [size |-> 876, free |-> TRUE, next |-> NULL]
                                    ELSE IF x = 0 THEN [size |-> 100, free |-> FALSE, next |-> 124] ELSE hdr[x]]
  <2>1. 0 + HDR + req = 124 /\ Blocks \cup {124} = {0, 124}
    BY <1>1
  <2>2. Minus(Minus(hdr[0].size, req), HDR) = 876 /\ hdr[0].next = NULL
    BY <1>1, <1>3 DEF Unused
  <2>3. Split(0) = [x \in {0, 124} |->
           IF x = 124 THEN [size |-> Minus(Minus(hdr[0].size, req), HDR), free |-> TRUE, next |-> hdr[0].next]
           ELSE IF x = 0 THEN [size |-> req, free |-> FALSE, next |-> 124] ELSE hdr[x]]
    BY <2>1 DEF Split
  <2> QED
    BY <2>2, <2>3
<1> QED
  BY <1>2, <1>4 DEF Blocks1, Used, Unused

\* The second does not fit in the block in use and is cut off the other.
LEMMA SecondRequest ==
  ASSUME ProgramSizes, hdr = Blocks1, req = 200
  PROVE  /\ ~Fits(0) /\ hdr[0].next = 124
         /\ Fits(124) /\ Splits(124) /\ Split(124) = Blocks2
<1> USE DEF ProgramSizes
<1>1. Blocks = {0, 124} /\ hdr[0] = Used(100, 124) /\ hdr[124] = Unused(876, NULL)
  BY DEF Blocks, Blocks1
<1>2. ~Fits(0) /\ hdr[0].next = 124 /\ Fits(124) /\ Splits(124)
  BY <1>1 DEF Fits, Splits, Plus, Used, Unused
<1>3. Minus(Minus(876, 200), 24) = 652
  BY DEF Minus
<1>4. Split(124) = [x \in {0, 124, 348} |->
                      IF x = 348 THEN [size |-> 652, free |-> TRUE, next |-> NULL]
                      ELSE IF x = 124 THEN [size |-> 200, free |-> FALSE, next |-> 348] ELSE hdr[x]]
  <2>1. 124 + HDR + req = 348 /\ Blocks \cup {348} = {0, 124, 348}
    BY <1>1
  <2>2. Minus(Minus(hdr[124].size, req), HDR) = 652 /\ hdr[124].next = NULL
    BY <1>1, <1>3 DEF Unused
  <2>3. Split(124) = [x \in {0, 124, 348} |->
           IF x = 348 THEN [size |-> Minus(Minus(hdr[124].size, req), HDR), free |-> TRUE, next |-> hdr[124].next]
           ELSE IF x = 124 THEN [size |-> req, free |-> FALSE, next |-> 348] ELSE hdr[x]]
    BY <2>1 DEF Split
  <2> QED
    BY <2>2, <2>3
<1> QED
  BY <1>1, <1>2, <1>4 DEF Blocks2, Used, Unused

\* The third is cut off the block that my_free(a) released.
LEMMA ThirdRequest ==
  ASSUME ProgramSizes, hdr = Blocks3, cur = 0, req = 50
  PROVE  Fits(cur) /\ Splits(cur) /\ Split(cur) = RecordedHeap
<1> USE DEF ProgramSizes
<1>1. /\ Blocks = {0, 124, 348} /\ hdr[0] = Unused(100, 124)
      /\ hdr[124] = Used(200, 348) /\ hdr[348] = Unused(652, NULL)
  BY DEF Blocks, Blocks3
<1>2. Fits(0) /\ Splits(0)
  BY <1>1 DEF Fits, Splits, Plus, Unused
<1>3. Minus(Minus(100, 50), 24) = 26
  BY DEF Minus
<1>4. Split(0) = [x \in {0, 124, 348, 74} |->
                    IF x = 74 THEN [size |-> 26, free |-> TRUE, next |-> 124]
                    ELSE IF x = 0 THEN [size |-> 50, free |-> FALSE, next |-> 74] ELSE hdr[x]]
  <2>1. 0 + HDR + req = 74 /\ Blocks \cup {74} = {0, 124, 348, 74}
    BY <1>1
  <2>2. Minus(Minus(hdr[0].size, req), HDR) = 26 /\ hdr[0].next = 124
    BY <1>1, <1>3 DEF Unused
  <2>3. Split(0) = [x \in {0, 124, 348, 74} |->
           IF x = 74 THEN [size |-> Minus(Minus(hdr[0].size, req), HDR), free |-> TRUE, next |-> hdr[0].next]
           ELSE IF x = 0 THEN [size |-> req, free |-> FALSE, next |-> 74] ELSE hdr[x]]
    BY <2>1 DEF Split
  <2> QED
    BY <2>2, <2>3
<1>5. DOMAIN RecordedHeap = {0, 124, 348, 74}
  BY DEF RecordedHeap
<1> QED
  BY <1>1, <1>2, <1>4, <1>5 DEF RecordedHeap, Used, Unused

\* The last fits in none.
LEMMA LastRequest ==
  ASSUME hdr = RecordedHeap, req = 50000
  PROVE  /\ Blocks = {0, 74, 124, 348} /\ \A b \in Blocks : ~Fits(b)
         /\ \A b \in Blocks : hdr[b].next \in Blocks \cup {NULL}
<1>1. /\ Blocks = {0, 74, 124, 348}
      /\ hdr[0] = [size |-> 50,  free |-> FALSE, next |-> 74]
      /\ hdr[74] = [size |-> 26,  free |-> TRUE,  next |-> 124]
      /\ hdr[124] = [size |-> 200, free |-> FALSE, next |-> 348]
      /\ hdr[348] = [size |-> 652, free |-> TRUE,  next |-> NULL]
  BY DEF Blocks, RecordedHeap
<1> QED
  BY <1>1 DEF Fits

\* A request is served.
LEMMA DemoFound ==
  ASSUME ProgramSizes, DemoInv, heap = 0, Found, line' = line + 1,
         a' = IF Script[line].n = 100 THEN ret' ELSE a
  PROVE  DemoInv'
<1> USE DEF DemoInv
<1>1. /\ line \in {3, 6, 12, 15} /\ req = Script[line].n /\ pc = "malloc"
      /\ cur \in Blocks /\ Fits(cur) /\ hdr' = IF Splits(cur) THEN Split(cur) ELSE Take(cur)
      /\ ret' = cur + HDR /\ heap' = 0 /\ pc' = "idle"
  BY DEF Found, WalkAt, Return
<1>2. Script[3].n = 100 /\ Script[6].n = 200 /\ Script[12].n = 50 /\ Script[15].n = 50000
  BY ScriptIs
<1>3. CASE line = 3
  <2>1. hdr = Blocks0 /\ cur = 0 /\ req = 100
    BY <1>1, <1>2, <1>3 DEF BlocksAt, WalkAt
  <2>2. hdr' = Blocks1 /\ a' = HDR /\ line' = 4
    BY <1>1, <1>2, <1>3, <2>1, FirstRequest DEF ProgramSizes
  <2> QED
    BY <1>1, <2>2 DEF BlocksAt, WalkAt
<1>4. CASE line = 6
  <2>1. hdr = Blocks1 /\ req = 200 /\ cur \in {0, 124} /\ a = HDR
    BY <1>1, <1>2, <1>4 DEF BlocksAt, WalkAt
  <2>2. cur = 124
    BY <1>1, <2>1, SecondRequest
  <2>3. hdr' = Blocks2 /\ a' = HDR /\ line' = 7
    BY <1>1, <1>2, <1>4, <2>1, <2>2, SecondRequest
  <2> QED
    BY <1>1, <2>3 DEF BlocksAt, WalkAt
<1>5. CASE line = 12
  <2>1. hdr = Blocks3 /\ cur = 0 /\ req = 50 /\ a = HDR
    BY <1>1, <1>2, <1>5 DEF BlocksAt, WalkAt
  <2>2. hdr' = RecordedHeap /\ a' = HDR /\ line' = 13
    BY <1>1, <1>2, <1>5, <2>1, ThirdRequest
  <2> QED
    BY <1>1, <2>2 DEF BlocksAt, WalkAt
<1>6. CASE line = 15
  <2>1. hdr = RecordedHeap /\ req = 50000
    BY <1>1, <1>2, <1>6 DEF BlocksAt
  <2> QED
    BY <1>1, <2>1, LastRequest
<1> QED
  BY <1>1, <1>3, <1>4, <1>5, <1>6

\* The next block of a walk.
LEMMA DemoAdvance ==
  ASSUME ProgramSizes, DemoInv, heap = 0, Advance, line' = line, a' = a
  PROVE  DemoInv'
<1> USE DEF DemoInv
<1>1. /\ cur \in Blocks /\ cur' = hdr[cur].next /\ pc' = pc /\ heap' = 0 /\ hdr' = hdr
      /\ req' = req /\ ret' = ret /\ ((pc = "malloc" /\ ~Fits(cur)) \/ pc = "print")
  BY DEF Advance
<1>2. BlocksAt' /\ Blocks' = Blocks
  BY <1>1 DEF BlocksAt, Blocks
<1>3. CASE pc = "malloc"
  <2>1. line \in {3, 6, 12, 15} /\ req = Script[line].n
    BY <1>3 DEF WalkAt
  <2>2. CASE line = 3
    <3>1. hdr = Blocks0 /\ cur = 0 /\ req = 100
      BY <1>3, <2>1, <2>2, ScriptIs DEF BlocksAt, WalkAt
    <3> QED
      BY <1>1, <1>3, <3>1, FirstRequest
  <2>3. CASE line = 6
    <3>1. hdr = Blocks1 /\ cur \in {0, 124} /\ req = 200
      BY <1>3, <2>1, <2>3, ScriptIs DEF BlocksAt, WalkAt
    <3>2. cur' = 124
      BY <1>1, <1>3, <3>1, SecondRequest
    <3> QED
      BY <1>1, <1>2, <1>3, <2>1, <2>3, <3>2 DEF WalkAt
  <2>4. CASE line = 12
    <3>1. hdr = Blocks3 /\ cur = 0 /\ req = 50
      BY <1>3, <2>1, <2>4, ScriptIs DEF BlocksAt, WalkAt
    <3> QED
      BY <1>1, <1>3, <3>1, ThirdRequest
  <2>5. CASE line = 15
    <3>1. hdr = RecordedHeap /\ req = 50000
      BY <2>1, <2>5, ScriptIs DEF BlocksAt
    <3>2. cur' \in {0, 74, 124, 348, NULL}
      BY <1>1, <3>1, LastRequest
    <3> QED
      BY <1>1, <1>2, <1>3, <2>1, <2>5, <3>2 DEF WalkAt
  <2> QED
    BY <2>1, <2>2, <2>3, <2>4, <2>5
<1>4. CASE pc = "print"
  <2>1. hdr[cur].next \in Blocks \cup {NULL}
    <3>1. hdr \in {Blocks0, Blocks1, Blocks2, Blocks3, RecordedHeap}
      BY DEF BlocksAt
    <3> QED
      BY <1>1, <3>1 DEF Blocks, Blocks0, Blocks1, Blocks2, Blocks3, RecordedHeap, Used, Unused
  <2> QED
    BY <1>1, <1>2, <1>4, <2>1 DEF WalkAt
<1> QED
  BY <1>1, <1>3, <1>4

\* The end of a walk.
LEMMA DemoListEnd ==
  ASSUME DemoInv, heap = 0, NotFound \/ Printed, line' = line + 1, a' = a
  PROVE  DemoInv'
<1> USE DEF DemoInv
<1>1. hdr' = hdr /\ heap' = 0 /\ pc' = "idle" /\ cur = NULL
  BY DEF NotFound, Printed, Return
<1>2. CASE NotFound
  <2>1. line = 15 /\ ret' = NULL
    BY <1>2 DEF NotFound, WalkAt
  <2> QED
    BY <1>1, <2>1 DEF BlocksAt, WalkAt
<1>3. CASE Printed
  <2>1. line \in {1, 4, 7, 10, 13, 16} /\ ret' = ret
    BY <1>3 DEF Printed, WalkAt
  <2> QED
    BY <1>1, <2>1 DEF BlocksAt, WalkAt
<1> QED
  BY <1>2, <1>3

LEMMA DemoWork == ASSUME ProgramSizes, DemoInv, heap = 0, Work PROVE DemoInv'
<1>1. CASE Visit /\ line' = IF pc' = "idle" THEN line + 1 ELSE line
  <2>1. CASE Found
    BY <1>1, <2>1, DemoFound DEF Work, Found, Return
  <2>2. CASE Advance
    <3>1. pc' = pc /\ pc # "idle"
      BY <2>2 DEF Advance
    <3>2. ~Found \/ a' = a
      BY <2>2, <3>1 DEF Found, Return
    <3> QED
      BY <1>1, <2>2, <3>1, <3>2, DemoAdvance DEF Work, Found, Return
  <2>3. CASE NotFound \/ Printed
    <3>1. pc' = "idle" /\ ~Found
      <4>1. DemoInv => NULL \notin Blocks
        BY DEF DemoInv, BlocksAt, Blocks, Blocks0, Blocks1, Blocks2, Blocks3, RecordedHeap
      <4> QED
        BY <2>3, <4>1 DEF NotFound, Printed, Return, Found
    <3> QED
      BY <1>1, <2>3, <3>1, DemoListEnd DEF Work
  <2>4. CASE Crash
    <3>1. cur \in Blocks \cup {NULL}
      <4>1. pc \in {"malloc", "print"} /\ BlocksAt /\ WalkAt /\ line \in 1 .. 18
        BY <2>4 DEF Crash, DemoInv
      <4>2. CASE pc = "print"
        BY <4>1, <4>2 DEF WalkAt
      <4>3. CASE pc = "malloc"
        <5>1. line \in {3, 6, 12, 15}
          BY <4>1, <4>3 DEF WalkAt
        <5> QED
          BY <4>1, <4>3, <5>1 DEF WalkAt, BlocksAt, Blocks, Blocks0, Blocks1, Blocks2, Blocks3, RecordedHeap
      <4> QED
        BY <4>1, <4>2, <4>3
    <3> QED
      BY <2>4, <3>1 DEF Crash
  <2> QED
    BY <1>1, <2>1, <2>2, <2>3, <2>4 DEF Visit
<1> QED
  BY <1>1, DemoCall DEF Work

\* my_free(a) changes one field of one header.
LEMMA Marked ==
  ASSUME NEW n, NEW b, NEW next, NEW r, r = [size |-> n, free |-> b, next |-> next], NEW mark
  PROVE  [r EXCEPT !.free = mark] = [size |-> n, free |-> mark, next |-> next]
  OBVIOUS

\* my_free(a) releases the first block.
LEMMA DemoRelease == ASSUME ProgramSizes, DemoInv, heap = 0, Release PROVE DemoInv'
<1> USE DEF DemoInv
<1>1. line = 9
  <2>1. ~(line > Len(Script)) /\ Script[line].op = "free" /\ line \in 1 .. 18
    BY DEF Release, At, Done
  <2>2. line < 18
    BY <2>1, Lines
  <2> QED
    BY <2>1, <2>2, Lines
<1>2. hdr = Blocks2 /\ a = HDR /\ HDR = 24
  BY <1>1 DEF BlocksAt, ProgramSizes
<1>3. /\ hdr' = [hdr EXCEPT ![HDR - HDR].free = TRUE]
      /\ heap' = 0 /\ pc' = "idle" /\ line' = 10 /\ a' = a
  BY <1>1, <1>2 DEF Release, my_free, At
<1>4. hdr' = Blocks3
  <2>1. HDR - HDR = 0
    BY <1>2
  <2>2. DOMAIN hdr = {0, 124, 348} /\ hdr' = [hdr EXCEPT ![0].free = TRUE]
    <3>1. DOMAIN hdr = {0, 124, 348}
      BY <1>2 DEF Blocks2
    <3>2. hdr' = [hdr EXCEPT ![0].free = TRUE]
      BY <1>3, <2>1
    <3> QED
      BY <3>1, <3>2
  <2>3. hdr[0] = Used(100, 124) /\ hdr[124] = Used(200, 348) /\ hdr[348] = Unused(652, NULL)
    BY <1>2 DEF Blocks2
  <2>4. DOMAIN hdr' = {0, 124, 348} /\ hdr'[124] = hdr[124] /\ hdr'[348] = hdr[348]
    BY <2>2
  <2>5. hdr'[0] = Unused(100, 124)
    <3> DEFINE no == FALSE
               yes == TRUE
    <3>1. hdr[0] = [size |-> 100, free |-> no, next |-> 124]
      BY <2>3 DEF Used
    <3>2. hdr'[0] = [hdr[0] EXCEPT !.free = yes]
      BY <2>2
    <3>3. [size |-> 100, free |-> yes, next |-> 124] = Unused(100, 124)
      BY DEF Unused
    <3> HIDE DEF no, yes
    <3> QED
      BY <3>1, <3>2, <3>3, Marked
  <2>6. hdr' = [b \in {0, 124, 348} |-> hdr'[b]]
    BY <2>2
  <2> QED
    BY <2>3, <2>4, <2>5, <2>6 DEF Blocks3
<1> QED
  BY <1>2, <1>3, <1>4 DEF BlocksAt, WalkAt

LEMMA DemoWait == ASSUME DemoInv, heap = 0, wait_for_enter PROVE DemoInv'
<1> USE DEF DemoInv
<1>1. line \in {2, 5, 8, 11, 14, 17}
  <2>1. ~(line > Len(Script)) /\ Script[line].op = "wait" /\ line \in 1 .. 18
    BY DEF wait_for_enter, At, Done
  <2>2. line < 18
    BY <2>1, Lines
  <2> QED
    BY <2>1, <2>2, Lines
<1>2. line' \in {line, line + 1} /\ UNCHANGED <<vars, a>> /\ pc = "idle"
  BY DEF wait_for_enter, At
<1>3. BlocksAt' /\ WalkAt'
  BY <1>1, <1>2 DEF BlocksAt, WalkAt, vars
<1> QED
  BY <1>1, <1>2, <1>3 DEF vars

\* The invariant: which blocks there are at each line.
LEMMA DemoInvariance == ProgramSizes => (DemoSpec => []DemoInv)
<1> SUFFICES ASSUME ProgramSizes PROVE DemoSpec => []DemoInv
  OBVIOUS
<1>1. ASSUME DemoInv, [DemoNext]_demo PROVE DemoInv'
  <2>1. CASE UNCHANGED demo
    BY <1>1, <2>1 DEF demo, vars, DemoInv, BlocksAt, WalkAt, Blocks
  <2>2. CASE Start
    BY <1>1, <2>2, DemoStart
  <2>3. CASE ~Start /\ DemoNext /\ heap # 0
    <3>1. heap' = heap
      BY <2>3 DEF DemoNext, Work, my_malloc, print_heap, Walk, Visit, Found, Advance, NotFound,
           Printed, Crash, Release, my_free, wait_for_enter, vars
    <3>2. pc # "start" /\ pc' # "start"
      BY <2>3 DEF DemoNext, Work, At, my_malloc, print_heap, Walk, Visit, Found, Advance, NotFound,
           Printed, Crash, Release, my_free, wait_for_enter, vars, Return
    <3> QED
      BY <2>3, <3>1, <3>2 DEF DemoInv
  <2>4. CASE DemoNext /\ heap = 0
    BY <1>1, <2>2, <2>4, DemoWork, DemoRelease, DemoWait DEF DemoNext
  <2> QED
    BY <1>1, <2>1, <2>2, <2>3, <2>4
<1> QED
  BY DemoInitially, <1>1, PTL DEF DemoSpec

\* With the sizes of the program main() leaves in heap.bin the blocks that the
\* recorded heap.bin holds, and its last request is refused (4.3.c:105-123),
\* for every text on standard input, of whatever length, and every width of
\* size_t that can count the mapping.
THEOREM EndsAsRecordedHolds == ProgramSizes => (DemoSpec => []EndsAsRecorded)
<1>1. DemoInv => EndsAsRecorded
  <2> SUFFICES ASSUME DemoInv, Done, heap = 0 PROVE hdr = RecordedHeap /\ ret = NULL
    BY DEF EndsAsRecorded
  <2>1. line \in 1 .. 18 /\ line > Len(Script)
    BY DEF DemoInv, Done
  <2>2. line = 18
    BY <2>1, Lines
  <2> QED
    BY <2>2 DEF DemoInv, BlocksAt
<1> QED
  BY <1>1, DemoInvariance, PTL
=============================================================================
