-------------------------- MODULE CopyOnWriteProofs --------------------------
(***************************************************************************)
(* Proofs about CopyOnWrite, for any set of frames and whoever may be      *)
(* killed.  The invariant comes in four layers: memory, which does not     *)
(* depend on what is printed; output, which does not depend on memory; how *)
(* the processes ended; and what the reports say of memory.                *)
(***************************************************************************)
EXTENDS CopyOnWrite, SequenceTheorems, FiniteSetTheorems, TLAPS

Labels == {"before", "read", "written", "after"}
Values == {0, 10, 20, 100, 200}

Steps == Dead \cup {"before", "fork", "forked", "after", "wait", "report", "return",
                    "read", "write global", "write local", "written", "exit"}

-----------------------------------------------------------------------------
(* Memory                                                                  *)

\* The part of TypeOK that is not about reports.
MemoryTypes ==
  /\ pc \in [Proc -> Steps]
  /\ table \in [Proc -> [Page -> Frames \cup {None}]]
  /\ \A p \in Proc, page \in Page : (table[p][page] = None) = (p \notin Running)
  /\ \A p \in Running, q \in Running : table[p]["data"] # table[q]["stack"]
  /\ content \in [Frames -> Values]
  /\ env \in [tty : BOOLEAN, calls_near : BOOLEAN, privileged : BOOLEAN, autoreap : BOOLEAN]

\* How far the two can be apart: the child is there from the fork on, and the
\* parent goes on from waitpid() only when it has gone.
Order ==
  /\ pc[P] \in {"before", "fork", "forked", "after", "wait", "report", "return", "exited",
                "killed"}
  /\ pc[C] \in {"none", "forked", "read", "write global", "write local", "written", "exit",
                "exited", "killed"}
  /\ pc[P] \in {"before", "fork"} => pc[C] = "none"
  /\ pc[P] \in {"forked", "after", "wait", "report", "return"} => pc[C] # "none"
  /\ pc[P] \in {"report", "return", "exited"} => pc[C] \in Dead

\* What each process finds in its memory is what it has written itself.
OwnMemory ==
  \A p \in Running :
    /\ Value(p, "data") =
         IF p = C /\ pc[C] \in {"write local", "written", "exit"} THEN 200 ELSE 100
    /\ Value(p, "stack") = IF p = C /\ pc[C] \in {"written", "exit"} THEN 20 ELSE 10

Memory == MemoryTypes /\ Order /\ OwnMemory

\* A write changes what its process finds in that page and nothing else that
\* anyone finds; then the page is in a frame that no one else uses.
Stored(p, page, value) ==
  /\ table' \in [Proc -> [Page -> Frames \cup {None}]]
  /\ content' \in [Frames -> Values]
  /\ \A q \in Proc, r \in Page : (table'[q][r] = None) = (table[q][r] = None)
  /\ \A q \in Running, r \in Running : table'[q]["data"] # table'[r]["stack"]
  /\ \A q \in Running, r \in Page :
       content'[table'[q][r]] = IF q = p /\ r = page THEN value
                                ELSE content[table[q][r]]
  /\ \A q \in Proc \ {p} : table'[q] = table[q]
  /\ \A r \in Page \ {page} : table'[p][r] = table[p][r]
  /\ \A q \in Proc \ {p}, r \in Page : table'[p][page] # table[q][r]

\* That is what a write does, in place or into a copy.
LEMMA StoreEffect ==
  ASSUME MemoryTypes, NEW p \in Running, NEW page \in Page, NEW value \in Values,
         Store(p, page, value)
  PROVE  Stored(p, page, value)
<1>0. /\ table \in [Proc -> [Page -> Frames \cup {None}]] /\ content \in [Frames -> Values]
      /\ p \in Proc /\ Running \subseteq Proc /\ None \notin Frames
      /\ \A q \in Proc, r \in Page : (table[q][r] = None) = (q \notin Running)
      /\ \A q \in Running, r \in Running : table[q]["data"] # table[r]["stack"]
      /\ \A q \in Running, r \in Page : table[q][r] \in Frames
      /\ {"data", "stack"} = Page
  <2>1. /\ table \in [Proc -> [Page -> Frames \cup {None}]] /\ content \in [Frames -> Values]
        /\ p \in Proc /\ Running \subseteq Proc /\ None \notin Frames
        /\ \A q \in Proc, r \in Page : (table[q][r] = None) = (q \notin Running)
        /\ \A q \in Running, r \in Running : table[q]["data"] # table[r]["stack"]
        /\ {"data", "stack"} = Page
    BY CopyOnWriteAssumption DEF MemoryTypes, Running, Page
  <2>2. ASSUME NEW q \in Running, NEW r \in Page PROVE table[q][r] \in Frames
    <3>1. table[q][r] \in Frames \cup {None} /\ table[q][r] # None
      BY <2>1
    <3> QED
      BY <3>1
  <2> QED
    BY <2>1, <2>2
<1>1. CASE /\ ~Shared(p, page)
           /\ content' = [content EXCEPT ![table[p][page]] = value]
           /\ UNCHANGED table
  <2>1. \A q \in Proc, r \in Page : <<q, r>> # <<p, page>> => table[q][r] # table[p][page]
    BY <1>1 DEF Shared
  <2>2. table[p][page] \in Frames
    BY <1>0
  <2>3. content' \in [Frames -> Values]
    BY <1>0, <1>1
  <2>4. ASSUME NEW q \in Running, NEW r \in Page
        PROVE  content'[table'[q][r]] = IF q = p /\ r = page THEN value
                                       ELSE content[table[q][r]]
    <3>1. CASE q = p /\ r = page
      BY <1>0, <1>1, <2>2, <3>1
    <3>2. CASE ~(q = p /\ r = page)
      <4>1. table[q][r] # table[p][page] /\ table[q][r] \in Frames
        BY <1>0, <2>1, <3>2
      <4> QED
        BY <1>0, <1>1, <3>2, <4>1 DEF Value
    <3> QED
      BY <3>1, <3>2
  <2>5. \A q \in Proc \ {p}, r \in Page : table[p][page] # table[q][r]
    BY <2>1
  <2> QED
    BY <1>0, <1>1, <2>3, <2>4, <2>5 DEF Stored
<1>2. ASSUME NEW f \in Free,
             table' = [table EXCEPT ![p][page] = f], content' = [content EXCEPT ![f] = value]
      PROVE  Stored(p, page, value)
  <2>1. f \in Frames /\ \A q \in Proc, r \in Page : table[q][r] # f
    BY DEF Free
  <2>2. /\ table' \in [Proc -> [Page -> Frames \cup {None}]]
        /\ table'[p][page] = f
        /\ \A q \in Proc \ {p} : table'[q] = table[q]
        /\ \A r \in Page \ {page} : table'[p][r] = table[p][r]
    BY <1>0, <1>2, <2>1
  <2>3. content' \in [Frames -> Values] /\ content'[f] = value
    BY <1>0, <1>2, <2>1
  <2>4. \A q \in Proc, r \in Page : (table'[q][r] = None) = (table[q][r] = None)
    BY <1>0, <2>1, <2>2
  <2>5. \A q \in Running, r \in Running : table'[q]["data"] # table'[r]["stack"]
    BY <1>0, <2>1, <2>2
  <2>6. ASSUME NEW q \in Running, NEW r \in Page
        PROVE  content'[table'[q][r]] = IF q = p /\ r = page THEN value
                                       ELSE content[table[q][r]]
    <3>1. CASE q = p /\ r = page
      BY <2>2, <2>3, <3>1
    <3>2. CASE ~(q = p /\ r = page)
      <4>1. table'[q][r] = table[q][r] /\ table[q][r] # f /\ table[q][r] \in Frames
        BY <1>0, <2>1, <2>2, <3>2
      <4>2. content'[table[q][r]] = content[table[q][r]]
        BY <1>0, <1>2, <4>1
      <4> QED
        BY <3>2, <4>1, <4>2 DEF Value
    <3> QED
      BY <3>1, <3>2
  <2> QED
    BY <2>1, <2>2, <2>3, <2>4, <2>5, <2>6 DEF Stored
<1> QED
  BY <1>1, <1>2 DEF Store

\* The processes that run, by the steps they are at.
LEMMA RunningIs ==
  ASSUME Memory
  PROVE  /\ Running \subseteq Proc /\ Proc = {P, C} /\ P # C
         /\ P \in Running <=> pc[P] \in {"before", "fork", "forked", "after", "wait", "report",
                                         "return"}
         /\ C \in Running <=> pc[C] \in {"forked", "read", "write global", "write local",
                                         "written", "exit"}
         /\ pc \in [Proc -> Steps]
BY DEF Memory, MemoryTypes, Order, Running, Proc, P, C, Dead, Steps

\* At the start there is only the parent, with its two pages.
LEMMA MemoryInit == Init => Memory
<1> SUFFICES ASSUME Init PROVE Memory
  OBVIOUS
<1> USE DEF Init, Proc, P, C, Page
<1>1. PICK d \in Frames, s \in Frames :
        /\ s # d
        /\ table = [p \in Proc |-> IF p = C THEN NoPages
                      ELSE [page \in Page |-> IF page = "data" THEN d ELSE s]]
        /\ content = [f \in Frames |-> CASE f = d -> 100 [] f = s -> 10 [] OTHER -> 0]
  BY Zenon
<1>2. pc[P] = "before" /\ pc[C] = "none" /\ Running = {P}
  BY DEF Running, Dead
<1>3. /\ table[P]["data"] = d /\ table[P]["stack"] = s /\ \A page \in Page : table[C][page] = None
      /\ content[d] = 100 /\ content[s] = 10
  BY <1>1 DEF NoPages
<1>4. MemoryTypes
  <2>1. table \in [Proc -> [Page -> Frames \cup {None}]] /\ content \in [Frames -> Values]
    BY <1>1 DEF NoPages, Values
  <2>2. \A p \in Proc, page \in Page : (table[p][page] = None) = (p \notin Running)
    BY <1>2, <1>3, CopyOnWriteAssumption
  <2>3. \A p \in Running, q \in Running : table[p]["data"] # table[q]["stack"]
    BY <1>2, <1>3
  <2> QED
    BY <2>1, <2>2, <2>3 DEF MemoryTypes, Dead, Steps
<1>5. Order
  BY <1>2 DEF Order
<1>6. OwnMemory
  BY <1>2, <1>3 DEF OwnMemory, Value
<1> QED
  BY <1>4, <1>5, <1>6 DEF Memory

\* A step that leaves the pages alone, of a process that runs and goes on running
\* where it finds the same in them.
Quiet(p, l, next) ==
  /\ pc[p] = l /\ pc' = [pc EXCEPT ![p] = next]
  /\ UNCHANGED <<table, content, env>>

\* So does print_ptrs(), and a return that finds its page already copied.
LEMMA PrintMemory ==
  ASSUME Memory, NEW p \in Proc, NEW l, NEW next, Quiet(p, l, next),
         <<p, l, next>> \in {<<P, "before", "fork">>, <<P, "after", "wait">>,
                             <<C, "read", "write global">>, <<C, "written", "exit">>,
                             <<P, "forked", "after">>, <<C, "forked", "read">>,
                             <<P, "report", "return">>}
  PROVE  Memory'
<1>0. /\ pc'[p] = next /\ \A q \in Proc \ {p} : pc'[q] = pc[q]
      /\ l \notin Dead /\ next \notin Dead
  BY RunningIs DEF Quiet, Dead
<1>1. Running' = Running
  BY <1>0 DEF Running, Quiet
<1>2. MemoryTypes'
  <2>1. pc' \in [Proc -> Steps]
    BY RunningIs DEF Quiet, Steps
  <2> QED
    BY <1>1, <2>1 DEF Quiet, MemoryTypes, Memory
<1>3. Order'
  <2>1. CASE p = P
    <3>1. pc'[P] = next /\ pc'[C] = pc[C] /\ pc[P] = l
      BY <1>0, <2>1, RunningIs DEF Quiet
    <3> QED
      BY <2>1, <3>1, RunningIs DEF Quiet, Memory, Order
  <2>2. CASE p = C
    <3>1. pc'[C] = next /\ pc'[P] = pc[P] /\ pc[C] = l
      BY <1>0, <2>2, RunningIs DEF Quiet
    <3> QED
      BY <2>2, <3>1, RunningIs DEF Quiet, Memory, Order, Dead
  <2> QED
    BY <2>1, <2>2, RunningIs
<1>4. OwnMemory'
  <2>1. p = C => (pc'[C] = next /\ pc[C] = l)
    BY <1>0 DEF Quiet
  <2>2. p = P => pc'[C] = pc[C]
    BY <1>0, RunningIs
  <2>3. /\ pc'[C] \in {"write local", "written", "exit"}
             <=> pc[C] \in {"write local", "written", "exit"}
        /\ pc'[C] \in {"written", "exit"} <=> pc[C] \in {"written", "exit"}
    BY <2>1, <2>2, RunningIs
  <2>4. OwnMemory
    BY DEF Memory
  <2> QED
    BY <1>1, <2>3, <2>4 DEF OwnMemory, Value, Quiet
<1> QED
  BY <1>2, <1>3, <1>4 DEF Memory

WriteSteps ==
  {<<P, "forked", "after", "stack", 10>>, <<C, "forked", "read", "stack", 10>>,
   <<C, "write global", "write local", "data", 200>>,
   <<C, "write local", "written", "stack", 20>>}

\* A write by p to its page, with the step it is part of.
LEMMA WriteMemory ==
  ASSUME Memory, NEW p \in Proc, NEW l, NEW next, NEW page, NEW value,
         pc[p] = l, pc' = [pc EXCEPT ![p] = next], Store(p, page, value),
         UNCHANGED env,
         <<p, l, next, page, value>> \in WriteSteps
  PROVE  Memory'
<1> USE DEF WriteSteps
<1>0. /\ pc'[p] = next /\ \A q \in Proc \ {p} : pc'[q] = pc[q]
      /\ l \notin Dead /\ next \notin Dead
      /\ p \in Running /\ page \in Page /\ value \in Values
      /\ pc' \in [Proc -> Steps]
  BY RunningIs DEF Dead, Running, Page, Values, Steps
<1>1. Running' = Running
  BY <1>0 DEF Running
<1>2. /\ table' \in [Proc -> [Page -> Frames \cup {None}]]
      /\ content' \in [Frames -> Values]
      /\ \A q \in Proc, r \in Page : (table'[q][r] = None) = (table[q][r] = None)
      /\ \A q \in Running, r \in Running : table'[q]["data"] # table'[r]["stack"]
      /\ \A q \in Running, r \in Page :
           content'[table'[q][r]] = IF q = p /\ r = page THEN value ELSE content[table[q][r]]
  <2>1. MemoryTypes
    BY DEF Memory
  <2>2. Stored(p, page, value)
    BY <1>0, <2>1, StoreEffect
  <2> QED
    BY <2>2 DEF Stored
<1>3. MemoryTypes'
  <2>1. \A q \in Proc, r \in Page : (table'[q][r] = None) = (q \notin Running')
    BY <1>1, <1>2 DEF Memory, MemoryTypes
  <2>2. env' \in [tty : BOOLEAN, calls_near : BOOLEAN, privileged : BOOLEAN, autoreap : BOOLEAN]
    BY DEF Memory, MemoryTypes
  <2> QED
    BY <1>0, <1>1, <1>2, <2>1, <2>2 DEF MemoryTypes
<1>4. Order'
  <2>1. CASE p = P
    <3>1. pc'[P] = next /\ pc'[C] = pc[C] /\ pc[P] = l
      BY <1>0, <2>1, RunningIs
    <3> QED
      BY <2>1, <3>1, RunningIs DEF Memory, Order
  <2>2. CASE p = C
    <3>1. pc'[C] = next /\ pc'[P] = pc[P] /\ pc[C] = l
      BY <1>0, <2>2, RunningIs
    <3> QED
      BY <2>2, <3>1, RunningIs DEF Memory, Order, Dead
  <2> QED
    BY <2>1, <2>2, RunningIs
<1>5. OwnMemory'
  <2> SUFFICES ASSUME NEW q \in Running
        PROVE  /\ content'[table'[q]["data"]] =
                    IF q = C /\ pc'[C] \in {"write local", "written", "exit"} THEN 200 ELSE 100
               /\ content'[table'[q]["stack"]] =
                    IF q = C /\ pc'[C] \in {"written", "exit"} THEN 20 ELSE 10
    BY <1>1 DEF OwnMemory, Value
  <2>1. /\ content[table[q]["data"]] =
             IF q = C /\ pc[C] \in {"write local", "written", "exit"} THEN 200 ELSE 100
        /\ content[table[q]["stack"]] =
             IF q = C /\ pc[C] \in {"written", "exit"} THEN 20 ELSE 10
    BY DEF Memory, OwnMemory, Value
  <2>2. /\ content'[table'[q]["data"]] =
             IF q = p /\ "data" = page THEN value ELSE content[table[q]["data"]]
        /\ content'[table'[q]["stack"]] =
             IF q = p /\ "stack" = page THEN value ELSE content[table[q]["stack"]]
    BY <1>2 DEF Page
  <2>3. CASE p = P
    <3>1. pc'[C] = pc[C] /\ page = "stack" /\ value = 10
      BY <1>0, <2>3, RunningIs
    <3> QED
      <4>1. q = p => q # C
        BY <2>3, RunningIs
      <4>2. content'[table'[q]["data"]] = content[table[q]["data"]]
        BY <2>2, <3>1
      <4>3. content'[table'[q]["stack"]] = content[table[q]["stack"]]
        BY <2>1, <2>2, <3>1, <4>1
      <4> QED
        BY <2>1, <3>1, <4>2, <4>3
  <2>4. CASE p = C
    <3>1. pc'[C] = next /\ pc[C] = l
      BY <1>0, <2>4
    <3> QED
      <4>1. CASE q = C
        <5>1. \/ next = "read" /\ l = "forked" /\ page = "stack" /\ value = 10
              \/ next = "write local" /\ l = "write global" /\ page = "data" /\ value = 200
              \/ next = "written" /\ l = "write local" /\ page = "stack" /\ value = 20
          BY <2>4, RunningIs
        <5>2. /\ content[table[q]["data"]] =
                   IF l \in {"write local", "written", "exit"} THEN 200 ELSE 100
              /\ content[table[q]["stack"]] = IF l \in {"written", "exit"} THEN 20 ELSE 10
          BY <2>1, <3>1, <4>1
        <5>3. /\ content'[table'[q]["data"]] =
                   IF "data" = page THEN value ELSE content[table[q]["data"]]
              /\ content'[table'[q]["stack"]] =
                   IF "stack" = page THEN value ELSE content[table[q]["stack"]]
          BY <2>2, <2>4, <4>1
        <5>4. /\ content'[table'[q]["data"]] =
                   IF next \in {"write local", "written", "exit"} THEN 200 ELSE 100
              /\ content'[table'[q]["stack"]] = IF next \in {"written", "exit"} THEN 20 ELSE 10
          <6>1. CASE next = "read" /\ l = "forked" /\ page = "stack" /\ value = 10
            BY <5>2, <5>3, <6>1, ZenonT(60)
          <6>2. CASE next = "write local" /\ l = "write global" /\ page = "data" /\ value = 200
            BY <5>2, <5>3, <6>2, ZenonT(60)
          <6>3. CASE next = "written" /\ l = "write local" /\ page = "stack" /\ value = 20
            BY <5>2, <5>3, <6>3, ZenonT(60)
          <6> QED
            BY <5>1, <6>1, <6>2, <6>3
        <5> QED
          BY <3>1, <4>1, <5>4
      <4>2. CASE q # C
        <5>1. /\ content'[table'[q]["data"]] = content[table[q]["data"]]
              /\ content'[table'[q]["stack"]] = content[table[q]["stack"]]
          BY <2>2, <2>4, <4>2
        <5> QED
          BY <2>1, <4>2, <5>1
      <4> QED
        BY <4>1, <4>2
  <2> QED
    BY <2>3, <2>4, RunningIs
<1> QED
  BY <1>3, <1>4, <1>5 DEF Memory

\* fork() gives the child the parent's table: both find the same in the same frames.
LEMMA ForkMemory == ASSUME Memory, P_Fork PROVE Memory'
<1>0. /\ pc[P] = "fork" /\ pc' = [p \in Proc |-> "forked"]
      /\ table' = [table EXCEPT ![C] = table[P]]
      /\ UNCHANGED <<content, env>>
  BY DEF P_Fork, At
<1>1. P \in Proc /\ C \in Proc /\ pc'[P] = "forked" /\ pc'[C] = "forked" /\ P \in Running
  BY <1>0, RunningIs
<1>2. Running' = Proc
  BY <1>0 DEF Running, Dead
<1>3. table'[C] = table[P] /\ table'[P] = table[P] /\ \A p \in Proc : table'[p] = table[P]
  BY <1>0, <1>1, RunningIs DEF Memory, MemoryTypes
<1>4. MemoryTypes'
  <2>1. table' \in [Proc -> [Page -> Frames \cup {None}]]
    BY <1>0, <1>1 DEF Memory, MemoryTypes
  <2>2. /\ \A r \in Page : table[P][r] # None
        /\ table[P]["data"] # table[P]["stack"]
    BY <1>1 DEF Memory, MemoryTypes
  <2>3. \A q \in Proc, r \in Page : (table'[q][r] = None) = (q \notin Running')
    BY <1>2, <1>3, <2>2
  <2>4. \A p \in Running', q \in Running' : table'[p]["data"] # table'[q]["stack"]
    BY <1>2, <1>3, <2>2
  <2>5. pc' \in [Proc -> Steps]
    BY <1>0 DEF Steps
  <2> QED
    BY <1>0, <2>1, <2>3, <2>4, <2>5 DEF Memory, MemoryTypes
<1>5. Order'
  BY <1>0, <1>1 DEF Memory, Order
<1>6. OwnMemory'
  <2>1. content[table[P]["data"]] = 100 /\ content[table[P]["stack"]] = 10
    BY <1>1, RunningIs DEF Memory, OwnMemory, Value
  <2> QED
    BY <1>0, <1>1, <1>2, <1>3, <2>1 DEF OwnMemory, Value
<1> QED
  BY <1>4, <1>5, <1>6 DEF Memory

\* A process that ends, by itself or not.
LEMMA EndMemory ==
  ASSUME Memory, NEW p \in Running, NEW how \in {"exited", "killed"},
         how = "exited" => <<p, pc[p]>> \in {<<P, "fork">>, <<P, "return">>, <<C, "exit">>},
         pc' = [pc EXCEPT ![p] = how], table' = [table EXCEPT ![p] = NoPages],
         UNCHANGED <<content, env>>
  PROVE  Memory'
<1>0. /\ p \in Proc /\ pc[p] \notin Dead /\ pc'[p] = how /\ table'[p] = NoPages
      /\ \A q \in Proc \ {p} : pc'[q] = pc[q] /\ table'[q] = table[q]
      /\ how \in Dead
  BY RunningIs DEF Running, Memory, MemoryTypes, Dead
<1>1. Running' = Running \ {p}
  BY <1>0 DEF Running
<1>2. MemoryTypes'
  <2>1. table' \in [Proc -> [Page -> Frames \cup {None}]]
    BY <1>0 DEF Memory, MemoryTypes, NoPages
  <2>2. \A q \in Proc, r \in Page : (table'[q][r] = None) = (q \notin Running')
    BY <1>0, <1>1 DEF Memory, MemoryTypes, NoPages
  <2>3. ASSUME NEW q \in Running', NEW r \in Running'
        PROVE  table'[q]["data"] # table'[r]["stack"]
    <3>1. q \in Running /\ r \in Running /\ q \in Proc \ {p} /\ r \in Proc \ {p}
      BY <1>1, RunningIs
    <3>2. table[q]["data"] # table[r]["stack"]
      BY <3>1 DEF Memory, MemoryTypes
    <3> QED
      BY <1>0, <3>1, <3>2
  <2>4. pc' \in [Proc -> Steps]
    BY <1>0, RunningIs DEF Steps
  <2> QED
    BY <2>1, <2>2, <2>3, <2>4 DEF Memory, MemoryTypes
<1>3. Order'
  <2>1. CASE p = P
    <3>1. pc'[P] = how /\ pc'[C] = pc[C] /\ pc[P] \notin Dead
      BY <1>0, <2>1, RunningIs
    <3> QED
      BY <2>1, <3>1, RunningIs DEF Memory, Order, Dead
  <2>2. CASE p = C
    <3>1. pc'[C] = how /\ pc'[P] = pc[P] /\ pc[C] \notin Dead
      BY <1>0, <2>2, RunningIs
    <3> QED
      BY <2>2, <3>1, RunningIs DEF Memory, Order, Dead
  <2> QED
    BY <2>1, <2>2, RunningIs
<1>4. OwnMemory'
  <2>1. OwnMemory
    BY DEF Memory
  <2>2. ASSUME NEW q \in Running'
        PROVE  q \in Running /\ table'[q] = table[q] /\ (q = C => pc'[C] = pc[C])
    BY <1>0, <1>1, RunningIs
  <2>3. ASSUME NEW q \in Running'
        PROVE  /\ content'[table'[q]["data"]] =
                    IF q = C /\ pc'[C] \in {"write local", "written", "exit"} THEN 200 ELSE 100
               /\ content'[table'[q]["stack"]] =
                    IF q = C /\ pc'[C] \in {"written", "exit"} THEN 20 ELSE 10
    <3>1. /\ q \in Running /\ table'[q] = table[q] /\ content' = content
          /\ q = C => pc'[C] = pc[C]
      BY <2>2
    <3>2. /\ content[table[q]["data"]] =
               IF q = C /\ pc[C] \in {"write local", "written", "exit"} THEN 200 ELSE 100
          /\ content[table[q]["stack"]] =
               IF q = C /\ pc[C] \in {"written", "exit"} THEN 20 ELSE 10
      BY <2>1, <3>1 DEF OwnMemory, Value
    <3>3. CASE q = C
      BY <3>1, <3>2, <3>3
    <3>4. CASE q # C
      BY <3>1, <3>2, <3>4
    <3> QED
      BY <3>3, <3>4
  <2> QED
    BY <2>3 DEF OwnMemory, Value
<1> QED
  BY <1>2, <1>3, <1>4 DEF Memory

\* waitpid() leaves the pages alone; the child has gone by then.
LEMMA WaitMemory == ASSUME Memory, P_Wait PROVE Memory'
<1>0. /\ pc[P] = "wait" /\ pc[C] \in Dead /\ pc' = [pc EXCEPT ![P] = "report"]
      /\ UNCHANGED <<table, content, env>>
  BY DEF P_Wait, At, Goto, pages
<1>1. pc'[P] = "report" /\ pc'[C] = pc[C]
  BY <1>0, RunningIs
<1>2. Running' = Running
  BY <1>0, <1>1, RunningIs DEF Running, Dead
<1>3. MemoryTypes'
  <2>1. pc' \in [Proc -> Steps]
    BY <1>0, RunningIs DEF Steps
  <2> QED
    BY <1>0, <1>2, <2>1 DEF Memory, MemoryTypes
<1>4. Order'
  BY <1>0, <1>1 DEF Memory, Order
<1>5. OwnMemory'
  BY <1>0, <1>1, <1>2 DEF Memory, OwnMemory, Value
<1> QED
  BY <1>3, <1>4, <1>5 DEF Memory

\* Every step keeps memory as it should be.
LEMMA MemoryNext == Memory /\ [Next]_vars => Memory'
<1> SUFFICES ASSUME Memory, [Next]_vars PROVE Memory'
  OBVIOUS
<1> USE DEF pages, output, Goto, At
<1>1. ASSUME NEW p \in Proc, NEW l, NEW next, print_ptrs(p, l, next),
             <<p, l, next>> \in {<<P, "before", "fork">>, <<P, "after", "wait">>,
                                 <<C, "read", "write global">>, <<C, "written", "exit">>}
      PROVE  Memory'
  <2>1. Quiet(p, l, next)
    BY <1>1 DEF print_ptrs, Quiet
  <2> QED
    BY <1>1, <2>1, PrintMemory
<1>2. ASSUME NEW p \in Proc, NEW next, Returned(p, next),
             <<p, next>> \in {<<P, "after">>, <<C, "read">>}
      PROVE  Memory'
  <2>1. p \in Running /\ content[table[p]["stack"]] = 10
    <3>1. pc[p] = "forked" /\ p \in Running
      BY <1>2, RunningIs DEF Returned, Running, Dead
    <3> QED
      BY <3>1 DEF Memory, OwnMemory, Value
  <2>2. CASE Store(p, "stack", Value(p, "stack"))
    <3>1. Store(p, "stack", 10)
      BY <2>1, <2>2 DEF Value
    <3>2. <<p, "forked", next, "stack", 10>> \in WriteSteps
      BY <1>2 DEF WriteSteps
    <3> QED
      BY <1>2, <3>1, <3>2, WriteMemory DEF Returned
  <2>3. CASE UNCHANGED <<table, content>>
    <3>1. Quiet(p, "forked", next)
      BY <1>2, <2>3 DEF Returned, Quiet
    <3> QED
      BY <1>2, <3>1, PrintMemory
  <2> QED
    BY <1>2, <2>2, <2>3 DEF Returned
<1>3. CASE C_WriteGlobal
  <2>1. /\ pc[C] = "write global" /\ pc' = [pc EXCEPT ![C] = "write local"]
        /\ Store(C, "data", 200) /\ UNCHANGED env
    BY <1>3 DEF C_WriteGlobal
  <2>2. C \in Proc /\ <<C, "write global", "write local", "data", 200>> \in WriteSteps
    BY RunningIs DEF WriteSteps
  <2> QED
    BY <2>1, <2>2, WriteMemory, Zenon
<1>4. CASE C_WriteLocal
  <2>1. /\ pc[C] = "write local" /\ pc' = [pc EXCEPT ![C] = "written"]
        /\ Store(C, "stack", 20) /\ UNCHANGED env
    BY <1>4 DEF C_WriteLocal
  <2>2. C \in Proc /\ <<C, "write local", "written", "stack", 20>> \in WriteSteps
    BY RunningIs DEF WriteSteps
  <2> QED
    BY <2>1, <2>2, WriteMemory, Zenon
<1>5. CASE P_ForkFails \/ P_Return
  BY <1>5, EndMemory, RunningIs DEF P_ForkFails, P_Return, Exit
<1>6. CASE C_Exit
  BY <1>6, EndMemory, RunningIs DEF C_Exit, Exit
<1>7. ASSUME NEW p \in Proc, Kill(p) PROVE Memory'
  BY <1>7, EndMemory DEF Kill
<1>10. CASE P_Report
  <2>1. Quiet(P, "report", "return")
    BY <1>10 DEF P_Report, Quiet
  <2> QED
    BY <2>1, PrintMemory, RunningIs
<1>8. CASE UNCHANGED vars
  <2>1. UNCHANGED <<pc, table, content, env>>
    BY <1>8 DEF vars
  <2>2. Running' = Running
    BY <2>1 DEF Running
  <2>3. MemoryTypes'
    BY <2>1, <2>2 DEF Memory, MemoryTypes
  <2>4. Order'
    BY <2>1 DEF Memory, Order
  <2>5. OwnMemory
    BY DEF Memory
  <2>6. OwnMemory'
    BY <2>1, <2>2, <2>5, ZenonT(60) DEF OwnMemory, Value
  <2> QED
    BY <2>3, <2>4, <2>6 DEF Memory
<1>9. P \in Proc /\ C \in Proc
  BY RunningIs
<1> QED
  BY <1>1, <1>2, <1>3, <1>4, <1>5, <1>6, <1>7, <1>8, <1>9, <1>10, ForkMemory, WaitMemory
  DEF Next, Parent, Child

\* The inductive invariant of memory.
THEOREM MemoryInvariance == Spec => []Memory
BY MemoryInit, MemoryNext, PTL DEF Spec

-----------------------------------------------------------------------------
(* Memory is private                                                       *)

\* A process that goes from one step of the program to another goes on running.
LEMMA RunningStays ==
  ASSUME NEW p \in Proc, NEW next, pc \in [Proc -> Steps], pc[p] \notin Dead, next \notin Dead,
         pc' = [pc EXCEPT ![p] = next]
  PROVE  Running' = Running
BY DEF Running

\* The parent's two pages are a first state of PrivateMemory,
LEMMA RefInit == Init => PM!Init
<1> SUFFICES ASSUME Init PROVE PM!Init
  OBVIOUS
<1>1. Memory /\ pc[P] = "before"
  BY MemoryInit DEF Init, Proc, P, C
<1>2. Running = {P}
  <2>1. pc[C] = "none"
    BY <1>1 DEF Memory, Order
  <2> QED
    BY <1>1, <2>1, RunningIs
<1>3. MemoryOf \in [{P} -> [Page -> Int]]
  <2>1. content[table[P]["data"]] = 100 /\ content[table[P]["stack"]] = 10
    BY <1>1, <1>2, RunningIs DEF Memory, OwnMemory, Value
  <2> QED
    BY <1>2, <2>1 DEF MemoryOf, Value, Page
<1> QED
  BY <1>2, <1>3 DEF PM!Init

\* fork() is its Fork,
LEMMA RefFork == ASSUME Memory, P_Fork PROVE PM!Fork
<1>0. /\ pc[P] = "fork" /\ pc' = [p \in Proc |-> "forked"]
      /\ table' = [table EXCEPT ![C] = table[P]] /\ content' = content
  BY DEF P_Fork, At
<1>1. pc[C] = "none" /\ Proc = {P, C} /\ P # C
  BY <1>0, RunningIs DEF Memory, Order
<1>2. Running = {P}
  BY <1>0, <1>1, RunningIs
<1>3. Running' = {P, C}
  BY <1>0, <1>1 DEF Running, Dead
<1>4. \A p \in {P, C} : table'[p] = table[P]
  BY <1>0, <1>1 DEF Memory, MemoryTypes
<1>5. MemoryOf' = [p \in {P, C} |-> [page \in Page |-> content[table[P][page]]]]
  BY <1>0, <1>3, <1>4 DEF MemoryOf, Value
<1>6. MemoryOf[P] = [page \in Page |-> content[table[P][page]]]
  BY <1>2 DEF MemoryOf, Value
<1> QED
  BY <1>2, <1>3, <1>5, <1>6 DEF PM!Fork

\* a write, in place or into a copy, is its Write,
LEMMA RefWrite ==
  ASSUME Memory, NEW p \in Running, NEW page \in Page, NEW value \in Values,
         Store(p, page, value), Running' = Running
  PROVE  \E q \in Running, r \in Page : PM!Write(q, r, MemoryOf'[q][r])
<1>1. Stored(p, page, value)
  BY StoreEffect DEF Memory
<1>2. MemoryOf' = [q \in Running |-> [r \in Page |-> content'[table'[q][r]]]]
  BY DEF MemoryOf, Value
<1>3. MemoryOf = [q \in Running |-> [r \in Page |-> content[table[q][r]]]]
  BY DEF MemoryOf, Value
<1>4. MemoryOf'[p][page] = value
  BY <1>1, <1>2 DEF Stored
<1>5. MemoryOf' = [MemoryOf EXCEPT ![p][page] = value]
  <2>1. ASSUME NEW q \in Running
        PROVE  MemoryOf'[q] = IF q = p THEN [MemoryOf[p] EXCEPT ![page] = value]
                                       ELSE MemoryOf[q]
    <3>1. \A r \in Page : content'[table'[q][r]] = IF q = p /\ r = page THEN value
                                                   ELSE content[table[q][r]]
      BY <1>1 DEF Stored
    <3>2. CASE q = p
      BY <1>2, <1>3, <3>1, <3>2
    <3>3. CASE q # p
      BY <1>2, <1>3, <3>1, <3>3
    <3> QED
      BY <3>2, <3>3
  <2>2. DOMAIN MemoryOf = Running /\ DOMAIN MemoryOf' = Running
        /\ MemoryOf' = [q \in Running |-> MemoryOf'[q]]
        /\ MemoryOf = [q \in Running |-> MemoryOf[q]]
    BY <1>2, <1>3
  <2> QED
    BY <2>1, <2>2
<1>6. PM!Write(p, page, MemoryOf'[p][page])
  BY <1>4, <1>5 DEF PM!Write
<1> QED
  BY <1>6

\* exit(), a return from main() and a kill are its End,
LEMMA RefEnd ==
  ASSUME NEW p \in Running, NEW how \in Dead, pc \in [Proc -> Steps],
         pc' = [pc EXCEPT ![p] = how], table \in [Proc -> [Page -> Frames \cup {None}]],
         table' = [table EXCEPT ![p] = NoPages], UNCHANGED content
  PROVE  PM!Exit(p)
<1>1. Running' = Running \ {p} /\ Running \subseteq Proc
  BY DEF Running
<1>2. \A q \in Running' : table'[q] = table[q] /\ q \in Running
  BY <1>1
<1>3. MemoryOf' = [q \in Running' |-> [r \in Page |-> content'[table'[q][r]]]]
  BY DEF MemoryOf, Value
<1>4. MemoryOf = [q \in Running |-> [r \in Page |-> content[table[q][r]]]]
  BY DEF MemoryOf, Value
<1>5. MemoryOf' = [q \in Running' |-> MemoryOf[q]]
  <2>1. ASSUME NEW q \in Running' PROVE MemoryOf'[q] = MemoryOf[q]
    <3>1. q \in Running /\ table'[q] = table[q] /\ content' = content
      BY <1>2
    <3>2. MemoryOf'[q] = [r \in Page |-> content[table[q][r]]]
      BY <1>3, <3>1
    <3>3. MemoryOf[q] = [r \in Page |-> content[table[q][r]]]
      BY <1>4, <3>1
    <3> QED
      BY <3>2, <3>3
  <2>2. MemoryOf' = [q \in Running' |-> MemoryOf'[q]]
    BY <1>3
  <2> QED
    BY <2>1, <2>2
<1> QED
  BY <1>1, <1>5 DEF PM!Exit

\* and a step that changes neither who runs nor what they find is a stutter.
LEMMA RefStays ==
  ASSUME Running' = Running, UNCHANGED <<table, content>>
  PROVE  UNCHANGED <<Running, MemoryOf>>
BY DEF MemoryOf, Value

\* Every step is one of the abstract memory or leaves it alone.
LEMMA RefNext == Memory /\ [Next]_vars => [PM!Next]_<<Running, MemoryOf>>
<1> SUFFICES ASSUME Memory, [Next]_vars PROVE [PM!Next]_<<Running, MemoryOf>>
  OBVIOUS
<1> USE DEF pages, output, Goto, At
<1>0. /\ pc \in [Proc -> Steps] /\ table \in [Proc -> [Page -> Frames \cup {None}]]
      /\ P \in Proc /\ C \in Proc /\ P # C
  BY RunningIs DEF Memory, MemoryTypes
<1>1. ASSUME NEW p \in Proc, NEW l, NEW next, print_ptrs(p, l, next), l \notin Dead, next \notin Dead
      PROVE  UNCHANGED <<Running, MemoryOf>>
  BY <1>0, <1>1, RunningStays, RefStays DEF print_ptrs
<1>2. ASSUME NEW p \in Proc, NEW next, Returned(p, next), next \notin Dead
      PROVE  [PM!Next]_<<Running, MemoryOf>>
  <2>1. pc[p] = "forked" /\ pc' = [pc EXCEPT ![p] = next] /\ p \in Running
    BY <1>0, <1>2 DEF Returned, Running, Dead
  <2>2. Running' = Running
    BY <1>0, <1>2, <2>1, RunningStays DEF Dead
  <2>3. CASE Store(p, "stack", Value(p, "stack"))
    <3>1. Value(p, "stack") \in Values
      BY <2>1 DEF Memory, OwnMemory, Values
    <3>2. \E q \in Running, r \in Page : PM!Write(q, r, MemoryOf'[q][r])
      BY <2>1, <2>2, <2>3, <3>1, RefWrite DEF Page
    <3> QED
      BY <3>2 DEF PM!Next
  <2>4. CASE UNCHANGED <<table, content>>
    BY <2>2, <2>4, RefStays
  <2> QED
    BY <1>2, <2>3, <2>4 DEF Returned
<1>3. ASSUME NEW l, NEW next, NEW page \in Page, NEW value \in Values, pc[C] = l,
             pc' = [pc EXCEPT ![C] = next], l \notin Dead, next \notin Dead, Store(C, page, value)
      PROVE  PM!Next
  <2>1. C \in Running /\ Running' = Running
    BY <1>0, <1>3, RunningStays DEF Running
  <2>2. \E q \in Running, r \in Page : PM!Write(q, r, MemoryOf'[q][r])
    BY <1>3, <2>1, RefWrite
  <2> QED
    BY <2>2 DEF PM!Next
<1>4. CASE C_WriteGlobal
  <2>1. /\ pc[C] = "write global" /\ pc' = [pc EXCEPT ![C] = "write local"]
        /\ Store(C, "data", 200)
    BY <1>4 DEF C_WriteGlobal
  <2>2. "write global" \notin Dead /\ "write local" \notin Dead /\ "data" \in Page /\ 200 \in Values
    BY DEF Dead, Page, Values
  <2> QED
    BY <1>3, <2>1, <2>2
<1>5. CASE C_WriteLocal
  <2>1. /\ pc[C] = "write local" /\ pc' = [pc EXCEPT ![C] = "written"]
        /\ Store(C, "stack", 20)
    BY <1>5 DEF C_WriteLocal
  <2>2. "write local" \notin Dead /\ "written" \notin Dead /\ "stack" \in Page /\ 20 \in Values
    BY DEF Dead, Page, Values
  <2> QED
    BY <1>3, <2>1, <2>2
<1>6. ASSUME NEW p \in Proc, NEW how \in {"exited", "killed"}, pc[p] \notin Dead,
             pc' = [pc EXCEPT ![p] = how], table' = [table EXCEPT ![p] = NoPages],
             UNCHANGED content
      PROVE  PM!Next
  <2>1. p \in Running /\ how \in Dead
    BY <1>6 DEF Running, Dead
  <2>2. PM!Exit(p)
    BY <1>0, <1>6, <2>1, RefEnd
  <2> QED
    BY <2>1, <2>2 DEF PM!Next
<1>7. CASE P_ForkFails \/ P_Return \/ C_Exit
  BY <1>0, <1>6, <1>7 DEF P_ForkFails, P_Return, C_Exit, Exit, Dead
<1>8. ASSUME NEW p \in Proc, Kill(p) PROVE PM!Next
  BY <1>0, <1>6, <1>8 DEF Kill, Running
<1>9. CASE P_Fork
  BY <1>9, RefFork DEF PM!Next
<1>10. CASE P_Wait \/ P_Report
  <2>1. PICK next \in {"report", "return"} : pc' = [pc EXCEPT ![P] = next]
    BY <1>10 DEF P_Wait, P_Report
  <2>2. pc[P] \notin Dead /\ UNCHANGED <<table, content>>
    BY <1>10 DEF P_Wait, P_Report, Dead
  <2>3. Running' = Running
    BY <1>0, <2>1, <2>2, RunningStays DEF Dead
  <2> QED
    BY <2>2, <2>3, RefStays
<1>11. CASE UNCHANGED vars
  <2>1. Running' = Running /\ UNCHANGED <<table, content>>
    BY <1>11 DEF vars, Running
  <2> QED
    BY <2>1, RefStays
<1> QED
  <2>1. /\ {"before", "fork", "after", "wait", "read", "write global", "written", "exit"}
             \cap Dead = {}
    BY DEF Dead
  <2>2. CASE Parent
    BY <1>0, <1>1, <1>2, <1>7, <1>9, <1>10, <2>1, <2>2 DEF Parent
  <2>3. CASE Child
    BY <1>0, <1>1, <1>2, <1>4, <1>5, <1>7, <2>1, <2>3 DEF Child
  <2> QED
    BY <1>8, <1>11, <2>2, <2>3 DEF Next

\* Memory is private from the fork on (lines 116-120, 142-144): what the processes
\* find in their pages, shared or copied, is what PrivateMemory promises.
THEOREM MemoryIsPrivate == Spec => PrivateMemorySpec
BY MemoryInvariance, RefInit, RefNext, PTL DEF Spec, PrivateMemorySpec, PM!Spec

-----------------------------------------------------------------------------
(* Output                                                                  *)

\* A report: "read" and "written" are the child's labels, the others the parent's.
Reports ==
  {r \in [by : Proc, label : Labels, pfn : [Page -> Frames \cup {None}],
          val : [Page -> Values]] :
     r.by = IF r.label \in {"read", "written"} THEN C ELSE P}

OutputTypes == buf \in [Proc -> Seq(Reports)] /\ out \in Seq(Reports)

\* The labels of the reports in s.
One(s, a) == Len(s) = 1 /\ s[1].label = a
Two(s, a, b) == Len(s) = 2 /\ s[1].label = a /\ s[2].label = b
Three(s, a, b, c) == Len(s) = 3 /\ s[1].label = a /\ s[2].label = b /\ s[3].label = c
Five(s, a, b, c, d, e) ==
  Len(s) = 5 /\ s[1].label = a /\ s[2].label = b /\ s[3].label = c /\ s[4].label = d /\ s[5].label = e

\* On a terminal nothing is kept, and a report is there once, after its process has
\* passed the label.
OnTerminal ==
  env.tty =>
    /\ \A p \in Proc : buf[p] = <<>>
    /\ \A k \in 1 .. Len(out) :
         /\ out[k].label = "before" => pc[P] # "before"
         /\ out[k].label = "after" => pc[P] \in {"wait", "report", "return", "exited", "killed"}
         /\ out[k].label = "read" => pc[C] \notin {"none", "forked", "read"}
         /\ out[k].label = "written" => pc[C] \in {"exit", "exited", "killed"}
    /\ \A j, k \in 1 .. Len(out) : out[j].label = out[k].label => j = k

\* In a file: a process that runs has all its reports in its buffer, the child the
\* parent's first one too;
Kept ==
  ~env.tty => \A p \in Proc :
    /\ pc[p] \in {"before", "none", "exited", "killed"} => buf[p] = <<>>
    /\ pc[p] \in {"fork", "forked", "after", "read"} => One(buf[p], "before")
    /\ pc[p] \in {"wait", "report", "return"} => Two(buf[p], "before", "after")
    /\ pc[p] \in {"write global", "write local", "written"} => Two(buf[p], "before", "read")
    /\ pc[p] = "exit" => Three(buf[p], "before", "read", "written")

\* and the file has what those that have called exit() had.
InFile ==
  ~env.tty =>
    /\ pc[C] # "exited" /\ pc[P] # "exited" => out = <<>>
    /\ pc[C] = "exited" /\ pc[P] # "exited" => Three(out, "before", "read", "written")
    /\ pc[C] = "exited" /\ pc[P] = "exited" =>
         Five(out, "before", "read", "written", "before", "after")
    /\ pc[C] = "killed" /\ pc[P] = "exited" => Two(out, "before", "after")
    /\ pc[C] = "none" /\ pc[P] = "exited" => One(out, "before")

Output == OutputTypes /\ OnTerminal /\ Kept /\ InFile

\* At the start nothing has been printed.
LEMMA OutputInit == Init => Output
<1> SUFFICES ASSUME Init PROVE Output
  OBVIOUS
<1>1. /\ out = <<>> /\ \A p \in Proc : buf[p] = <<>>
      /\ pc[P] = "before" /\ pc[C] = "none" /\ Len(<<>>) = 0
  BY EmptySeq DEF Init, Proc, P, C
<1>2. OutputTypes
  BY EmptySeq DEF OutputTypes, Init
<1>3. OnTerminal
  BY <1>1 DEF OnTerminal
<1>4. Kept /\ InFile
  BY <1>1 DEF Kept, InFile, Proc, P, C
<1> QED
  BY <1>2, <1>3, <1>4 DEF Output

\* What a sequence of reports is with one more at its end,
LEMMA Lengthened ==
  ASSUME NEW s \in Seq(Reports), NEW r \in Reports
  PROVE  /\ Append(s, r) \in Seq(Reports) /\ Len(s) \in Nat
         /\ Len(Append(s, r)) = Len(s) + 1
         /\ \A k \in 1 .. Len(s) : Append(s, r)[k] = s[k]
         /\ Append(s, r)[Len(s) + 1] = r
BY AppendProperties

\* and with a second sequence after it.
LEMMA Joined ==
  ASSUME NEW s \in Seq(Reports), NEW t \in Seq(Reports)
  PROVE  /\ s \o t \in Seq(Reports) /\ Len(s \o t) = Len(s) + Len(t)
         /\ Len(s) \in Nat /\ Len(t) \in Nat
         /\ \A k \in 1 .. Len(s) : (s \o t)[k] = s[k]
         /\ \A k \in 1 .. Len(t) : (s \o t)[Len(s) + k] = t[k]
<1>1. /\ s \o t \in Seq(Reports) /\ Len(s \o t) = Len(s) + Len(t)
      /\ \A k \in 1 .. Len(s) + Len(t) :
           (s \o t)[k] = IF k <= Len(s) THEN s[k] ELSE t[k - Len(s)]
  BY ConcatProperties
<1>2. Len(s) \in Nat /\ Len(t) \in Nat
  OBVIOUS
<1>3. ASSUME NEW k \in 1 .. Len(s) PROVE (s \o t)[k] = s[k]
  BY <1>1, <1>2
<1>4. ASSUME NEW k \in 1 .. Len(t) PROVE (s \o t)[Len(s) + k] = t[k]
  <2>1. /\ Len(s) + k \in 1 .. Len(s) + Len(t) /\ ~(Len(s) + k <= Len(s))
        /\ Len(s) + k - Len(s) = k
    BY <1>2
  <2> QED
    BY <1>1, <2>1
<1> QED
  BY <1>1, <1>2, <1>3, <1>4

\* A buffer with another report.
LEMMA OneMore ==
  ASSUME NEW s \in Seq(Reports), NEW r \in Reports, NEW a, NEW b
  PROVE  /\ s = <<>> => One(Append(s, r), r.label)
         /\ One(s, a) => Two(Append(s, r), a, r.label)
         /\ Two(s, a, b) => Three(Append(s, r), a, b, r.label)
<1>0. /\ Len(s) \in Nat /\ Len(Append(s, r)) = Len(s) + 1
      /\ \A k \in 1 .. Len(s) : Append(s, r)[k] = s[k]
      /\ Append(s, r)[Len(s) + 1] = r
  BY Lengthened
<1>1. s = <<>> => One(Append(s, r), r.label)
  <2>1. s = <<>> => Len(s) = 0
    BY EmptySeq
  <2> QED
    BY <1>0, <2>1 DEF One
<1>2. One(s, a) => Two(Append(s, r), a, r.label)
  BY <1>0 DEF One, Two
<1>3. Two(s, a, b) => Three(Append(s, r), a, b, r.label)
  BY <1>0 DEF Two, Three
<1> QED
  BY <1>1, <1>2, <1>3

\* What print_ptrs() reports.
LEMMA ReportTyped ==
  ASSUME Memory, NEW p \in Running, NEW label \in Labels,
         p = IF label \in {"read", "written"} THEN C ELSE P
  PROVE  Report(p, label) \in Reports /\ Report(p, label).label = label
<1>1. p \in Proc /\ \A page \in Page : table[p][page] \in Frames \cup {None}
  <2>1. p \in Proc
    BY RunningIs
  <2>2. table \in [Proc -> [Page -> Frames \cup {None}]]
    BY DEF Memory, MemoryTypes
  <2> QED
    BY <2>1, <2>2
<1>2. ASSUME NEW page \in Page PROVE Value(p, page) \in Values
  <2>1. Value(p, "data") \in {100, 200} /\ Value(p, "stack") \in {10, 20}
    BY DEF Memory, OwnMemory
  <2> QED
    BY <2>1 DEF Values, Page
<1>3. \A page \in Page : get_page(p, page) \in Frames \cup {None}
  BY <1>1 DEF get_page, None
<1> QED
  BY <1>1, <1>2, <1>3 DEF Report, Reports

PrintSteps ==
  {<<P, "before", "fork">>, <<P, "after", "wait">>,
   <<C, "read", "write global">>, <<C, "written", "exit">>}

\* print_ptrs() adds its report to the terminal or to what its process keeps.
LEMMA PrintOutput ==
  ASSUME Memory, Output, NEW p \in Proc, NEW l, NEW next, print_ptrs(p, l, next),
         <<p, l, next>> \in PrintSteps
  PROVE  Output'
<1>0. /\ pc[p] = l /\ pc' = [pc EXCEPT ![p] = next] /\ env' = env
      /\ env \in [tty : BOOLEAN, calls_near : BOOLEAN, privileged : BOOLEAN, autoreap : BOOLEAN]
      /\ \/ env.tty /\ out' = Append(out, Report(p, l)) /\ UNCHANGED buf
         \/ ~env.tty /\ buf' = [buf EXCEPT ![p] = Append(@, Report(p, l))] /\ UNCHANGED out
  BY DEF print_ptrs, At, Goto, Memory, MemoryTypes
<1>1. /\ pc'[p] = next /\ \A q \in Proc \ {p} : pc'[q] = pc[q]
      /\ P # C /\ Proc = {P, C} /\ p \in Running
  BY <1>0, RunningIs DEF PrintSteps
<1>2. /\ l \in Labels /\ p = IF l \in {"read", "written"} THEN C ELSE P
  BY <1>1 DEF PrintSteps, Labels
<1>3. PICK r \in Reports : r = Report(p, l) /\ r.label = l
  BY <1>1, <1>2, ReportTyped
<1>4. OutputTypes /\ OnTerminal /\ Kept /\ InFile
  BY DEF Output
<1>5. CASE env.tty /\ out' = Append(out, r) /\ UNCHANGED buf
  <2>1. /\ out' \in Seq(Reports) /\ Len(out) \in Nat /\ Len(out') = Len(out) + 1
        /\ \A k \in 1 .. Len(out) : out'[k] = out[k]
        /\ out'[Len(out) + 1] = r
    BY <1>4, <1>5, Lengthened DEF OutputTypes
  <2>2. \A k \in 1 .. Len(out') : k \in 1 .. Len(out) \/ k = Len(out) + 1
    BY <2>1
  <2>3. \A k \in 1 .. Len(out) :
          /\ out[k].label # l
          /\ out[k].label = "before" => pc'[P] # "before"
          /\ out[k].label = "after" => pc'[P] \in {"wait", "report", "return", "exited", "killed"}
          /\ out[k].label = "read" => pc'[C] \notin {"none", "forked", "read"}
          /\ out[k].label = "written" => pc'[C] \in {"exit", "exited", "killed"}
    <3>1. CASE p = P
      BY <1>0, <1>1, <1>4, <1>5, <3>1 DEF OnTerminal, PrintSteps
    <3>2. CASE p = C
      BY <1>0, <1>1, <1>4, <1>5, <3>2 DEF OnTerminal, PrintSteps
    <3> QED
      BY <1>1, <3>1, <3>2
  <2>4. /\ l = "before" => pc'[P] # "before"
        /\ l = "after" => pc'[P] \in {"wait", "report", "return", "exited", "killed"}
        /\ l = "read" => pc'[C] \notin {"none", "forked", "read"}
        /\ l = "written" => pc'[C] \in {"exit", "exited", "killed"}
    BY <1>1 DEF PrintSteps
  <2>5. \A j, k \in 1 .. Len(out') : out'[j].label = out'[k].label => j = k
    <3>1. \A j, k \in 1 .. Len(out) : out[j].label = out[k].label => j = k
      BY <1>4, <1>5 DEF OnTerminal
    <3> QED
      BY <1>3, <2>1, <2>2, <2>3, <3>1
  <2>6. OnTerminal'
    BY <1>0, <1>3, <1>4, <1>5, <2>1, <2>2, <2>3, <2>4, <2>5 DEF OnTerminal
  <2> QED
    BY <1>0, <1>4, <1>5, <2>1, <2>6 DEF Output, OutputTypes, Kept, InFile
<1>6. CASE ~env.tty /\ buf' = [buf EXCEPT ![p] = Append(@, r)] /\ UNCHANGED out
  <2>1. /\ buf'[p] = Append(buf[p], r) /\ buf[p] \in Seq(Reports)
        /\ buf' \in [Proc -> Seq(Reports)] /\ \A q \in Proc \ {p} : buf'[q] = buf[q]
    BY <1>4, <1>6, Lengthened DEF OutputTypes
  <2>2. Kept'
    <3>1. /\ next = "fork" => One(buf'[p], "before")
          /\ next = "wait" => Two(buf'[p], "before", "after")
          /\ next = "write global" => Two(buf'[p], "before", "read")
          /\ next = "exit" => Three(buf'[p], "before", "read", "written")
      <4>1. /\ l = "before" => buf[p] = <<>>
            /\ l \in {"after", "read"} => One(buf[p], "before")
            /\ l = "written" => Two(buf[p], "before", "read")
        BY <1>0, <1>4, <1>6 DEF Kept
      <4>2. /\ next = "fork" => l = "before"
            /\ next = "wait" => l = "after"
            /\ next = "write global" => l = "read"
            /\ next = "exit" => l = "written"
        BY DEF PrintSteps
      <4> QED
        BY <1>3, <2>1, <4>1, <4>2, OneMore
    <3>2. next \in {"fork", "wait", "write global", "exit"}
      BY DEF PrintSteps
    <3>3. \A q \in Proc \ {p} : pc'[q] = pc[q] /\ buf'[q] = buf[q]
      BY <1>1, <2>1
    <3> QED
      BY <1>0, <1>1, <1>4, <1>6, <3>1, <3>2, <3>3 DEF Kept
  <2>3. InFile'
    <3>1. l # "exited" /\ next \notin {"exited", "none", "killed"} /\ l \notin {"none", "killed"}
      BY DEF PrintSteps
    <3>2. \A q \in Proc : (pc'[q] = "exited") = (pc[q] = "exited")
      BY <1>0, <1>1, <3>1
    <3>3. \A q \in Proc : (pc'[q] = "killed") = (pc[q] = "killed") /\ (pc'[q] = "none") = (pc[q] = "none")
      BY <1>0, <1>1, <3>1
    <3> QED
      BY <1>0, <1>1, <1>4, <1>6, <3>2, <3>3 DEF InFile
  <2> QED
    BY <1>0, <1>4, <1>6, <2>1, <2>2, <2>3 DEF Output, OutputTypes, OnTerminal
<1> QED
  BY <1>0, <1>3, <1>5, <1>6

MoveSteps ==
  {<<P, "forked", "after">>, <<P, "wait", "report">>, <<P, "report", "return">>,
   <<C, "forked", "read">>,
   <<C, "write global", "write local">>, <<C, "write local", "written">>}

\* A step that prints nothing.
LEMMA MoveOutput ==
  ASSUME Memory, Output, NEW p \in Proc, NEW l, NEW next, <<p, l, next>> \in MoveSteps,
         pc[p] = l, pc' = [pc EXCEPT ![p] = next], UNCHANGED <<buf, out, env>>
  PROVE  Output'
<1>1. /\ pc'[p] = next /\ \A q \in Proc \ {p} : pc'[q] = pc[q]
      /\ P # C /\ Proc = {P, C}
  BY RunningIs
<1>2. OutputTypes /\ OnTerminal /\ Kept /\ InFile
  BY DEF Output
<1>3. OnTerminal'
  <2>1. /\ pc[P] # "before" => pc'[P] # "before"
        /\ pc[P] \in {"wait", "report", "return", "exited", "killed"} =>
             pc'[P] \in {"wait", "report", "return", "exited", "killed"}
        /\ pc[C] \notin {"none", "forked", "read"} => pc'[C] \notin {"none", "forked", "read"}
        /\ pc[C] \in {"exit", "exited", "killed"} => pc'[C] \in {"exit", "exited", "killed"}
    BY <1>1 DEF MoveSteps
  <2> QED
    BY <1>2, <2>1 DEF OnTerminal
<1>4. Kept'
  <2>1. ASSUME NEW q \in Proc
        PROVE  /\ pc'[q] \in {"before", "none", "exited", "killed"} =>
                    pc[q] \in {"before", "none", "exited", "killed"}
               /\ pc'[q] \in {"fork", "forked", "after", "read"} =>
                    pc[q] \in {"fork", "forked", "after", "read"}
               /\ pc'[q] \in {"wait", "report", "return"} => pc[q] \in {"wait", "report", "return"}
               /\ pc'[q] \in {"write global", "write local", "written"} =>
                    pc[q] \in {"write global", "write local", "written"}
               /\ pc'[q] = "exit" => pc[q] = "exit"
    <3>1. CASE q = p
      BY <1>1, <3>1 DEF MoveSteps
    <3>2. CASE q # p
      BY <1>1, <3>2
    <3> QED
      BY <3>1, <3>2
  <2> QED
    BY <1>2, <2>1 DEF Kept
<1>5. InFile'
  <2>1. \A q \in Proc : /\ (pc'[q] = "exited") = (pc[q] = "exited")
                        /\ (pc'[q] = "killed") = (pc[q] = "killed")
                        /\ (pc'[q] = "none") = (pc[q] = "none")
    BY <1>1 DEF MoveSteps
  <2> QED
    BY <1>1, <1>2, <2>1 DEF InFile
<1> QED
  BY <1>2, <1>3, <1>4, <1>5 DEF Output, OutputTypes

\* fork() copies what the parent has kept.
LEMMA ForkOutput == ASSUME Memory, Output, P_Fork PROVE Output'
<1>0. /\ pc[P] = "fork" /\ pc' = [p \in Proc |-> "forked"] /\ buf' = [buf EXCEPT ![C] = buf[P]]
      /\ UNCHANGED <<out, env>>
  BY DEF P_Fork, At
<1>1. /\ Proc = {P, C} /\ P # C /\ pc[C] = "none" /\ pc'[P] = "forked" /\ pc'[C] = "forked"
  BY <1>0, RunningIs DEF Memory, Order
<1>2. OutputTypes /\ OnTerminal /\ Kept /\ InFile
  BY DEF Output
<1>3. buf'[C] = buf[P] /\ buf'[P] = buf[P] /\ OutputTypes'
  BY <1>0, <1>1, <1>2 DEF OutputTypes
<1>4. OnTerminal'
  BY <1>0, <1>1, <1>2, <1>3 DEF OnTerminal
<1>5. Kept'
  <2>1. ~env.tty => One(buf[P], "before")
    BY <1>0, <1>1, <1>2 DEF Kept
  <2> QED
    BY <1>0, <1>1, <1>3, <2>1 DEF Kept
<1>6. InFile'
  BY <1>0, <1>1, <1>2 DEF InFile
<1> QED
  BY <1>3, <1>4, <1>5, <1>6 DEF Output

\* On a terminal it makes no difference to the output how a process ends.
LEMMA EndOnTerminal ==
  ASSUME Memory, Output, NEW p \in Running, NEW how \in {"exited", "killed"},
         pc' = [pc EXCEPT ![p] = how], buf' = [buf EXCEPT ![p] = <<>>],
         env.tty => out' = out, UNCHANGED env
  PROVE  OnTerminal'
<1>1. /\ pc'[p] = how /\ \A q \in Proc \ {p} : pc'[q] = pc[q]
      /\ P # C /\ Proc = {P, C} /\ p \in Proc
  BY RunningIs
<1>2. /\ pc[P] # "before" => pc'[P] # "before"
      /\ pc[P] \in {"wait", "report", "return", "exited", "killed"} =>
           pc'[P] \in {"wait", "report", "return", "exited", "killed"}
      /\ pc[C] \notin {"none", "forked", "read"} => pc'[C] \notin {"none", "forked", "read"}
      /\ pc[C] \in {"exit", "exited", "killed"} => pc'[C] \in {"exit", "exited", "killed"}
  BY <1>1
<1>3. OnTerminal /\ buf \in [Proc -> Seq(Reports)]
  BY DEF Output, OutputTypes
<1>4. env.tty => \A q \in Proc : buf'[q] = <<>>
  BY <1>3 DEF OnTerminal
<1> QED
  BY <1>2, <1>3, <1>4 DEF OnTerminal

\* In a file a process that has ended keeps nothing.
LEMMA EndKept ==
  ASSUME Memory, Output, NEW p \in Running, NEW how \in {"exited", "killed"},
         pc' = [pc EXCEPT ![p] = how], buf' = [buf EXCEPT ![p] = <<>>], UNCHANGED env
  PROVE  Kept'
<1>1. /\ pc'[p] = how /\ \A q \in Proc \ {p} : pc'[q] = pc[q] /\ buf'[q] = buf[q]
      /\ buf'[p] = <<>>
  BY RunningIs DEF Output, OutputTypes
<1>2. Kept
  BY DEF Output
<1> QED
  BY <1>1, <1>2 DEF Kept

\* A kill loses what its process has kept.
LEMMA KillOutput == ASSUME Memory, Output, NEW p \in Proc, Kill(p) PROVE Output'
<1>0. /\ p \in Running /\ pc' = [pc EXCEPT ![p] = "killed"] /\ buf' = [buf EXCEPT ![p] = <<>>]
      /\ UNCHANGED <<out, env>>
  BY DEF Kill, Goto
<1>1. /\ pc'[p] = "killed" /\ \A q \in Proc \ {p} : pc'[q] = pc[q]
      /\ P # C /\ Proc = {P, C} /\ p \in Proc
  BY <1>0, RunningIs
<1>2. OutputTypes'
  BY <1>0, EmptySeq DEF Output, OutputTypes
<1>3. OnTerminal' /\ Kept'
  BY <1>0, EndOnTerminal, EndKept
<1>4. InFile'
  <2>1. InFile
    BY DEF Output
  <2>2. CASE p = P
    BY <1>0, <1>1, <2>1, <2>2, RunningIs DEF InFile
  <2>3. CASE p = C
    <3>1. pc[C] \notin Dead /\ pc[P] # "exited" /\ pc'[P] = pc[P] /\ pc'[C] = "killed"
      BY <1>0, <1>1, <2>3 DEF Memory, Order, Running
    <3> QED
      BY <1>0, <2>1, <3>1 DEF InFile, Dead
  <2> QED
    BY <1>1, <2>2, <2>3
<1> QED
  BY <1>2, <1>3, <1>4 DEF Output

\* A file with the buffers of both processes.
LEMMA TwoBuffers ==
  ASSUME NEW s \in Seq(Reports), NEW t \in Seq(Reports),
         Three(s, "before", "read", "written"), Two(t, "before", "after")
  PROVE  Five(s \o t, "before", "read", "written", "before", "after")
<1>1. /\ Len(s) = 3 /\ Len(t) = 2
      /\ \A k \in 1 .. Len(s) : (s \o t)[k] = s[k]
      /\ \A k \in 1 .. Len(t) : (s \o t)[Len(s) + k] = t[k]
      /\ Len(s \o t) = Len(s) + Len(t)
  BY Joined DEF Three, Two
<1>2. /\ (s \o t)[1] = s[1] /\ (s \o t)[2] = s[2] /\ (s \o t)[3] = s[3]
      /\ (s \o t)[3 + 1] = t[1] /\ (s \o t)[3 + 2] = t[2] /\ Len(s \o t) = 5
  BY <1>1
<1> QED
  BY <1>2 DEF Five, Three, Two

\* exit() and a return from main() write what their process has kept after the rest.
LEMMA ExitOutput ==
  ASSUME Memory, Output, NEW p \in Proc, NEW n \in Nat, Exit(p, n),
         <<p, pc[p]>> \in {<<P, "fork">>, <<P, "return">>, <<C, "exit">>}
  PROVE  Output'
<1>0. /\ pc' = [pc EXCEPT ![p] = "exited"] /\ buf' = [buf EXCEPT ![p] = <<>>]
      /\ out' = out \o buf[p] /\ env' = env
  BY DEF Exit, Goto
<1>1. /\ pc'[p] = "exited" /\ \A q \in Proc \ {p} : pc'[q] = pc[q]
      /\ P # C /\ Proc = {P, C} /\ p \in Running
  BY <1>0, RunningIs
<1>2. OutputTypes /\ OnTerminal /\ Kept /\ InFile
  BY DEF Output
<1>3. OutputTypes'
  BY <1>0, <1>2, EmptySeq, Joined DEF OutputTypes
<1>4. buf[p] = <<>> => out' = out
  BY <1>0, <1>2, ConcatEmptySeq DEF OutputTypes
<1>5. out = <<>> => out' = buf[p]
  BY <1>0, <1>2, ConcatEmptySeq DEF OutputTypes
<1>6. env.tty => out' = out
  BY <1>2, <1>4 DEF OnTerminal
<1>7. OnTerminal' /\ Kept'
  BY <1>0, <1>1, <1>6, EndOnTerminal, EndKept
<1>8. InFile'
  <2>1. CASE p = P /\ pc[P] = "fork"
    <3>1. pc[C] = "none" /\ pc'[C] = "none" /\ pc'[P] = "exited"
      BY <1>1, <2>1 DEF Memory, Order
    <3>2. ~env.tty => One(out', "before")
      BY <1>2, <1>5, <2>1, <3>1 DEF InFile, Kept
    <3> QED
      BY <1>0, <3>1, <3>2 DEF InFile
  <2>2. CASE p = P /\ pc[P] = "return"
    <3>1. pc[C] \in {"exited", "killed"} /\ pc'[C] = pc[C] /\ pc'[P] = "exited"
      BY <1>1, <2>2 DEF Memory, Order, Dead
    <3>2. ~env.tty => Two(buf[P], "before", "after")
      BY <1>2, <2>2 DEF Kept
    <3>3. ~env.tty /\ pc[C] = "killed" => Two(out', "before", "after")
      BY <1>2, <1>5, <2>2, <3>1, <3>2 DEF InFile
    <3>4. ~env.tty /\ pc[C] = "exited" =>
            Five(out', "before", "read", "written", "before", "after")
      <4>1. ~env.tty /\ pc[C] = "exited" => Three(out, "before", "read", "written")
        BY <1>2, <2>2 DEF InFile
      <4> QED
        BY <1>0, <1>2, <2>2, <3>2, <4>1, TwoBuffers DEF OutputTypes
    <3> QED
      BY <1>0, <3>1, <3>3, <3>4 DEF InFile
  <2>3. CASE p = C /\ pc[C] = "exit"
    <3>1. pc[P] # "exited" /\ pc'[P] = pc[P] /\ pc'[C] = "exited"
      BY <1>1, <2>3 DEF Memory, Order, Dead
    <3>2. ~env.tty => Three(out', "before", "read", "written")
      BY <1>2, <1>5, <2>3, <3>1 DEF InFile, Kept
    <3> QED
      BY <1>0, <3>1, <3>2 DEF InFile
  <2> QED
    BY <1>1, <2>1, <2>2, <2>3
<1> QED
  BY <1>3, <1>7, <1>8 DEF Output

\* Every step keeps the output as it should be.
LEMMA OutputNext == Memory /\ Output /\ [Next]_vars => Output'
<1> SUFFICES ASSUME Memory, Output, [Next]_vars PROVE Output'
  OBVIOUS
<1> USE DEF pages, output, Goto, At
<1>0. P \in Proc /\ C \in Proc /\ P # C
  BY RunningIs
<1>1. CASE \/ print_ptrs(P, "before", "fork") \/ print_ptrs(P, "after", "wait")
           \/ print_ptrs(C, "read", "write global") \/ print_ptrs(C, "written", "exit")
  <2>1. {<<P, "before", "fork">>, <<P, "after", "wait">>,
         <<C, "read", "write global">>, <<C, "written", "exit">>} \subseteq PrintSteps
    BY DEF PrintSteps
  <2> QED
    BY <1>0, <1>1, <2>1, PrintOutput
<1>2. ASSUME NEW p \in Proc, NEW next, Returned(p, next),
             <<p, next>> \in {<<P, "after">>, <<C, "read">>}
      PROVE  Output'
  <2>1. <<p, "forked", next>> \in MoveSteps
    BY <1>2 DEF MoveSteps
  <2> QED
    BY <1>2, <2>1, MoveOutput DEF Returned
<1>3. CASE C_WriteGlobal
  <2>1. <<C, "write global", "write local">> \in MoveSteps
    BY DEF MoveSteps
  <2> QED
    BY <1>0, <1>3, <2>1, MoveOutput DEF C_WriteGlobal
<1>4. CASE C_WriteLocal
  <2>1. <<C, "write local", "written">> \in MoveSteps
    BY DEF MoveSteps
  <2> QED
    BY <1>0, <1>4, <2>1, MoveOutput DEF C_WriteLocal
<1>5. CASE P_Wait \/ P_Report
  <2>1. <<P, "wait", "report">> \in MoveSteps /\ <<P, "report", "return">> \in MoveSteps
    BY DEF MoveSteps
  <2> QED
    BY <1>0, <1>5, <2>1, MoveOutput DEF P_Wait, P_Report
<1>6. CASE P_ForkFails \/ P_Return \/ C_Exit
  BY <1>0, <1>6, ExitOutput DEF P_ForkFails, P_Return, C_Exit
<1>7. CASE UNCHANGED vars
  BY <1>7 DEF vars, Output, OutputTypes, OnTerminal, Kept, InFile
<1> QED
  BY <1>0, <1>1, <1>2, <1>3, <1>4, <1>5, <1>6, <1>7, ForkOutput, KillOutput
  DEF Next, Parent, Child

\* In every behaviour what is kept and what is in the file is exactly what the steps of
\* the two processes tell (stdio, lines 47, 87-94).
THEOREM OutputInvariance == Spec => []Output
BY MemoryInvariance, OutputInit, OutputNext, PTL DEF Spec

\* Two facts about the number of members of a set.
LEMMA AtMostOne ==
  ASSUME NEW T, \A x \in T, y \in T : x = y
  PROVE  IsFiniteSet(T) /\ Cardinality(T) <= 1
<1>1. CASE T = {}
  BY <1>1, FS_EmptySet
<1>2. CASE T # {}
  <2>1. PICK x \in T : T = {x}
    BY <1>2
  <2>2. IsFiniteSet(T) /\ Cardinality(T) = 1
    BY <2>1, FS_Singleton, Zenon
  <2> QED
    BY <2>2
<1> QED
  BY <1>1, <1>2

\* The second of them.
LEMMA CardinalityOfPair ==
  ASSUME NEW x, NEW y, x # y
  PROVE  Cardinality({x, y}) = 2
<1>1. IsFiniteSet({x}) /\ Cardinality({x}) = 1 /\ y \notin {x}
  BY FS_Singleton
<1>2. {x, y} = {x} \cup {y}
  OBVIOUS
<1> QED
  BY <1>1, <1>2, FS_AddElement

\* The labels in the file, by their positions.
LEMMA PrintedHolds0 == ASSUME Memory, Output PROVE Printed
<1>0. /\ out \in Seq(Reports) /\ DOMAIN out = 1 .. Len(out) /\ Len(out) \in Nat
      /\ \A k \in DOMAIN out : out[k] \in Reports
      /\ P # C /\ Proc = {P, C}
      /\ pc[P] = "exited" => pc[C] \in {"none", "exited", "killed"}
  <2>1. out \in Seq(Reports)
    BY DEF Output, OutputTypes
  <2>2. DOMAIN out = 1 .. Len(out) /\ Len(out) \in Nat
    BY <2>1, LenProperties
  <2>3. \A k \in DOMAIN out : out[k] \in Reports
    BY <2>1, <2>2, ElementOfSeq
  <2> QED
    BY <2>1, <2>2, <2>3, RunningIs DEF Memory, Order, Dead
<1>1. ASSUME NEW label,
             \A j \in DOMAIN out, k \in DOMAIN out :
               out[j].label = label /\ out[k].label = label => j = k
      PROVE  Copies(label) <= 1
  BY <1>1, AtMostOne DEF Copies
<1>2. CASE env.tty
  <2>1. \A j \in DOMAIN out, k \in DOMAIN out : out[j].label = out[k].label => j = k
    BY <1>0, <1>2 DEF Output, OnTerminal
  <2>2. \A label : Copies(label) <= 1
    BY <1>1, <2>1
  <2> QED
    BY <1>2, <2>2 DEF Printed, PrintedOnce, ChildFirstInFile
<1>3. CASE ~env.tty
  <2> DEFINE Exited == {p \in Proc : At(p, "exited")}
             Before == {k \in DOMAIN out : out[k].label = "before"}
  <2>1. \/ out = <<>> /\ Exited = {}
        \/ Three(out, "before", "read", "written") /\ Exited = {C}
        \/ Five(out, "before", "read", "written", "before", "after") /\ Exited = {P, C}
        \/ Two(out, "before", "after") /\ Exited = {P}
        \/ One(out, "before") /\ Exited = {P}
    BY <1>0, <1>3 DEF Output, InFile, At
  <2>2. /\ \A label \in {"read", "written", "after"} :
             \A j \in DOMAIN out, k \in DOMAIN out :
               out[j].label = label /\ out[k].label = label => j = k
        /\ Cardinality(Before) = Cardinality(Exited)
        /\ \A j \in DOMAIN out, k \in DOMAIN out :
             out[j].label = "after" /\ out[k].label \in {"read", "written"} => k < j
    <3>1. CASE out = <<>> /\ Exited = {}
      <4>1. DOMAIN out = {}
        BY <1>0, <3>1, EmptySeq
      <4> QED
        BY <3>1, <4>1
    <3>2. CASE Three(out, "before", "read", "written") /\ Exited = {C}
      <4>1. /\ DOMAIN out = {1, 2, 3} /\ out[1].label = "before"
            /\ out[2].label = "read" /\ out[3].label = "written"
        BY <1>0, <3>2 DEF Three
      <4>2. Before = {1}
        BY <4>1
      <4> QED
        BY <3>2, <4>1, <4>2, FS_Singleton
    <3>3. CASE Five(out, "before", "read", "written", "before", "after") /\ Exited = {P, C}
      <4>1. /\ DOMAIN out = {1, 2, 3, 4, 5} /\ out[1].label = "before"
            /\ out[2].label = "read" /\ out[3].label = "written"
            /\ out[4].label = "before" /\ out[5].label = "after"
        BY <1>0, <3>3 DEF Five
      <4>2. Before = {1, 4}
        BY <4>1
      <4>3. Cardinality(Before) = Cardinality(Exited)
        <5>0. 1 # 4
          OBVIOUS
        <5>1. Cardinality({1, 4}) = 2
          BY <5>0, CardinalityOfPair, Zenon
        <5>2. Cardinality({P, C}) = 2
          BY <1>0, CardinalityOfPair
        <5> QED
          BY <3>3, <4>2, <5>1, <5>2
      <4> QED
        BY <4>1, <4>3
    <3>4. CASE Two(out, "before", "after") /\ Exited = {P}
      <4>1. DOMAIN out = {1, 2} /\ out[1].label = "before" /\ out[2].label = "after"
        BY <1>0, <3>4 DEF Two
      <4>2. Before = {1}
        BY <4>1
      <4> QED
        BY <3>4, <4>1, <4>2, FS_Singleton
    <3>5. CASE One(out, "before") /\ Exited = {P}
      <4>1. DOMAIN out = {1} /\ out[1].label = "before"
        BY <1>0, <3>5 DEF One
      <4>2. Before = {1}
        BY <4>1
      <4> QED
        BY <3>5, <4>1, <4>2, FS_Singleton
    <3> QED
      BY <2>1, <3>1, <3>2, <3>3, <3>4, <3>5
  <2>3. \A label \in {"read", "written", "after"} : Copies(label) <= 1
    BY <1>1, <2>2
  <2>4. Copies("before") = Cardinality(Exited)
    BY <2>2 DEF Copies
  <2>5. \A k \in DOMAIN out : out[k].by = C => out[k].label \in {"read", "written"}
    BY <1>0 DEF Reports
  <2> QED
    BY <1>3, <2>2, <2>3, <2>4, <2>5 DEF Printed, PrintedOnce, ChildFirstInFile
<1> QED
  BY <1>2, <1>3

\* Each report comes as often as it should, the first one once from each process that
\* called exit() when the output is a file, and in a file in order (lines 87-94, 129,
\* 153, 162).
THEOREM PrintedHolds == Spec => []Printed
BY MemoryInvariance, OutputInvariance, PrintedHolds0, PTL

-----------------------------------------------------------------------------
(* Endings                                                                 *)

EndingTypes == fate \in [Proc -> Int] /\ status \in Int /\ code \in Int

\* What the kernel keeps of the child tells an exit() from a kill.
Fates ==
  /\ pc[C] = "exited" => fate[C] = ExitWord(5)
  /\ pc[C] = "killed" => ~WIFEXITED(fate[C])

\* After waitpid() status is what the kernel kept; no code is printed before that,
\* and then it is the child's.
Reported ==
  ~env.autoreap =>
    /\ pc[P] \in {"report", "return"} => status = fate[C]
    /\ pc[P] \notin {"return", "exited", "killed"} => code = NoCode
    /\ code # NoCode => pc[C] = "exited" /\ code = 5
    /\ pc[P] = "return" => (code # NoCode) = (pc[C] = "exited")

IsOut(label) == \E k \in 1 .. Len(out) : out[k].label = label

\* On a terminal what the child has printed is out.
ChildIsOut ==
  env.tty =>
    /\ pc[C] \in {"write global", "write local", "written", "exit", "exited"} => IsOut("read")
    /\ pc[C] \in {"exit", "exited"} => IsOut("written")

Endings == EndingTypes /\ Fates /\ Reported /\ ChildIsOut

\* What the macros make of a word.
LEMMA Words ==
  /\ ExitWord(5) = 1280 /\ WIFEXITED(1280) /\ WEXITSTATUS(1280) = 5
  /\ \A n \in {0, 1, 5} : ExitWord(n) \in Int
  /\ \A word \in KillWords : word \in Int /\ ~WIFEXITED(word)
  /\ \A word \in Int : WEXITSTATUS(word) \in Int
<1>1. ASSUME NEW signal \in 1 .. 64, NEW core \in {0, 128}
      PROVE  signal + core \in Int /\ (signal + core) % 128 # 0
  <2>1. (signal + core) % 128 = signal
    BY <1>1, SMT
  <2> QED
    BY <1>1, <2>1
<1>2. \A word \in KillWords : word \in Int /\ ~WIFEXITED(word)
  BY <1>1, CopyOnWriteAssumption DEF KillWords, WIFEXITED
<1>3. \A word \in Int : WEXITSTATUS(word) \in Int
  BY SMT DEF WEXITSTATUS
<1>4. ExitWord(5) = 1280 /\ WIFEXITED(1280) /\ WEXITSTATUS(1280) = 5
  BY SMT DEF ExitWord, WIFEXITED, WEXITSTATUS
<1>5. \A n \in {0, 1, 5} : ExitWord(n) \in Int
  BY SMT DEF ExitWord
<1> QED
  BY <1>2, <1>3, <1>4, <1>5

\* At the start nothing has ended.
LEMMA EndingsInit == Init => Endings
<1> SUFFICES ASSUME Init PROVE Endings
  OBVIOUS
<1>1. pc[P] = "before" /\ pc[C] = "none" /\ code = NoCode
  BY DEF Init, Proc, P, C
<1>2. EndingTypes
  BY CopyOnWriteAssumption DEF EndingTypes, Init, NoCode
<1> QED
  BY <1>1, <1>2 DEF Endings, Fates, Reported, ChildIsOut

\* What is out stays out.
OutGrows == \A label : IsOut(label) => IsOut(label)'

LEMMA Outs ==
  ASSUME OutputTypes, NEW p \in Proc, NEW r \in Reports,
         out' \in {out, Append(out, r), out \o buf[p]}
  PROVE  OutGrows /\ (out' = Append(out, r) => IsOut(r.label)')
<1>1. out \in Seq(Reports) /\ buf[p] \in Seq(Reports)
  BY DEF OutputTypes
<1>2. /\ Len(out) \in Nat /\ Len(out') \in Nat /\ Len(out) <= Len(out')
      /\ \A k \in 1 .. Len(out) : out'[k] = out[k]
  BY <1>1, Lengthened, Joined
<1>3. OutGrows
  BY <1>2 DEF OutGrows, IsOut
<1>4. ASSUME out' = Append(out, r) PROVE IsOut(r.label)'
  <2>1. Len(out') = Len(out) + 1 /\ out'[Len(out) + 1] = r
    BY <1>1, <1>4, Lengthened
  <2> QED
    BY <1>2, <2>1 DEF IsOut
<1> QED
  BY <1>3, <1>4

\* A step of a process that goes on running and is not told how the other ended.
LEMMA GoesOn ==
  ASSUME Memory, Endings, OutGrows, NEW p \in Proc, NEW l, NEW next,
         <<p, l, next>> \in PrintSteps \cup (MoveSteps \ {<<P, "wait", "report">>,
                                                     <<P, "report", "return">>}),
         pc[p] = l, pc' = [pc EXCEPT ![p] = next], UNCHANGED <<fate, status, code, env>>,
         env.tty /\ l = "read" => IsOut("read")', env.tty /\ l = "written" => IsOut("written")'
  PROVE  Endings'
<1>1. /\ pc'[p] = next /\ \A q \in Proc \ {p} : pc'[q] = pc[q]
      /\ P # C /\ Proc = {P, C}
  BY RunningIs
<1>2. /\ pc[P] \notin {"report", "return", "exited", "killed"} \/ pc'[P] = pc[P]
      /\ pc'[P] \notin {"report", "return", "exited", "killed"} \/ pc'[P] = pc[P]
      /\ pc[C] \notin Dead \/ pc'[C] = pc[C]
      /\ pc'[C] \notin Dead \/ pc'[C] = pc[C]
  BY <1>1 DEF PrintSteps, MoveSteps, Dead
<1>3. EndingTypes' /\ Fates'
  BY <1>2 DEF Endings, EndingTypes, Fates, Dead
<1>4. Reported'
  BY <1>2 DEF Endings, Reported, Dead
<1>5. ChildIsOut'
  <2>1. /\ pc'[C] \in {"write global", "write local", "written", "exit", "exited"} =>
             \/ pc[C] \in {"write global", "write local", "written", "exit", "exited"}
             \/ l = "read"
        /\ pc'[C] \in {"exit", "exited"} => pc[C] \in {"exit", "exited"} \/ l = "written"
    BY <1>1 DEF PrintSteps, MoveSteps
  <2> QED
    BY <2>1 DEF Endings, ChildIsOut, OutGrows
<1> QED
  BY <1>3, <1>4, <1>5 DEF Endings

\* The end of a process leaves its word with the kernel.
LEMMA EndEndings ==
  ASSUME Memory, Endings, OutGrows, NEW p \in Running, NEW how \in {"exited", "killed"},
         NEW word \in Int, pc' = [pc EXCEPT ![p] = how], fate' = [fate EXCEPT ![p] = word],
         UNCHANGED <<status, code, env>>,
         how = "killed" => ~WIFEXITED(word),
         how = "exited" /\ p = C => pc[C] = "exit" /\ word = ExitWord(5)
  PROVE  Endings'
<1>1. /\ pc'[p] = how /\ \A q \in Proc \ {p} : pc'[q] = pc[q] /\ fate'[q] = fate[q]
      /\ fate'[p] = word /\ P # C /\ Proc = {P, C} /\ pc[p] \notin Dead
      /\ fate' \in [Proc -> Int]
  BY RunningIs DEF Endings, EndingTypes, Running
<1>2. EndingTypes'
  BY <1>1 DEF Endings, EndingTypes
<1>3. Fates'
  BY <1>1 DEF Endings, Fates
<1>4. Reported'
  <2>1. CASE p = P
    <3>1. pc'[P] = how /\ pc'[C] = pc[C]
      BY <1>1, <2>1
    <3> QED
      BY <3>1 DEF Endings, Reported
  <2>2. CASE p = C
    <3>1. pc'[P] = pc[P] /\ pc[C] \notin Dead
      BY <1>1, <2>2
    <3>2. pc[P] \notin {"report", "return", "exited"}
      BY <3>1 DEF Memory, Order
    <3>3. ~env.autoreap => code = NoCode
      BY <3>1 DEF Endings, Reported, Dead
    <3> QED
      BY <3>1, <3>2, <3>3 DEF Reported
  <2> QED
    BY <1>1, <2>1, <2>2
<1>5. ChildIsOut'
  <2>1. pc'[C] = pc[C] \/ pc'[C] = "killed" \/ (pc[C] = "exit" /\ pc'[C] = "exited")
    BY <1>1
  <2> QED
    BY <2>1 DEF Endings, ChildIsOut, OutGrows
<1> QED
  BY <1>2, <1>3, <1>4, <1>5 DEF Endings

\* waitpid() and WIFEXITED.
LEMMA WaitEndings ==
  ASSUME Memory, Endings, OutGrows, P_Wait \/ P_Report
  PROVE  Endings'
<1>0. P \in Proc /\ C \in Proc /\ P # C /\ pc \in [Proc -> Steps]
  BY RunningIs
<1>1. CASE P_Wait
  <2>1. /\ pc[P] = "wait" /\ pc'[P] = "report" /\ pc'[C] = pc[C]
        /\ status' = (IF env.autoreap THEN status ELSE fate[C])
        /\ UNCHANGED <<fate, code, env>>
    BY <1>0, <1>1 DEF P_Wait, At, Goto
  <2>2. EndingTypes' /\ Fates'
    BY <1>0, <2>1 DEF Endings, EndingTypes, Fates
  <2>3. Reported'
    BY <2>1 DEF Endings, Reported
  <2>4. ChildIsOut'
    BY <2>1 DEF Endings, ChildIsOut, OutGrows
  <2> QED
    BY <2>2, <2>3, <2>4 DEF Endings
<1>2. CASE P_Report
  <2>1. /\ pc[P] = "report" /\ pc'[P] = "return" /\ pc'[C] = pc[C]
        /\ code' = (IF WIFEXITED(status) THEN WEXITSTATUS(status) ELSE code)
        /\ UNCHANGED <<fate, status, env>>
    BY <1>0, <1>2 DEF P_Report, At, Goto
  <2>2. EndingTypes' /\ Fates'
    BY <2>1, Words DEF Endings, EndingTypes, Fates
  <2>3. Reported'
    <3>1. CASE env.autoreap
      BY <2>1, <3>1 DEF Reported
    <3>2. CASE ~env.autoreap
      <4>1. status = fate[C] /\ code = NoCode
        BY <2>1, <3>2 DEF Endings, Reported
      <4>2. pc[C] \in {"exited", "killed"}
        BY <2>1 DEF Memory, Order, Dead
      <4>3. CASE pc[C] = "exited"
        <5>1. code' = 5
          BY <2>1, <4>1, <4>3, Words DEF Endings, Fates
        <5> QED
          BY <2>1, <4>1, <4>3, <5>1 DEF Reported, NoCode
      <4>4. CASE pc[C] = "killed"
        <5>1. code' = NoCode
          BY <2>1, <4>1, <4>4 DEF Endings, Fates
        <5> QED
          BY <2>1, <4>1, <4>4, <5>1 DEF Reported
      <4> QED
        BY <4>2, <4>3, <4>4
    <3> QED
      BY <3>1, <3>2
  <2>4. ChildIsOut'
    BY <2>1 DEF Endings, ChildIsOut, OutGrows
  <2> QED
    BY <2>2, <2>3, <2>4 DEF Endings
<1> QED
  BY <1>1, <1>2

\* Every step keeps what is known of the ends.
LEMMA EndingsNext == Memory /\ Output /\ Endings /\ [Next]_vars => Endings'
<1> SUFFICES ASSUME Memory, Output, Endings, [Next]_vars PROVE Endings'
  OBVIOUS
<1> USE DEF pages, output, endings, Goto, At
<1>0. P \in Proc /\ C \in Proc /\ P # C /\ OutputTypes
  BY RunningIs DEF Output
<1>1. ASSUME out' = out PROVE OutGrows
  BY <1>1 DEF OutGrows, IsOut
<1>2. ASSUME NEW p \in Proc, NEW l, NEW next, print_ptrs(p, l, next),
             <<p, l, next>> \in PrintSteps
      PROVE  Endings'
  <2>1. /\ pc[p] = l /\ pc' = [pc EXCEPT ![p] = next] /\ UNCHANGED <<fate, status, code, env>>
        /\ env.tty => out' = Append(out, Report(p, l))
        /\ out' \in {out, Append(out, Report(p, l))}
    BY <1>2 DEF print_ptrs
  <2>2. /\ p \in Running /\ l \in Labels /\ p = IF l \in {"read", "written"} THEN C ELSE P
    BY <1>0, <1>2, <2>1, RunningIs DEF PrintSteps, Labels
  <2>3. PICK r \in Reports : r = Report(p, l) /\ r.label = l
    BY <2>2, ReportTyped
  <2>4. OutGrows /\ (env.tty => IsOut(l)')
    BY <1>0, <2>1, <2>3, Outs
  <2> QED
    BY <1>2, <2>1, <2>4, GoesOn
<1>3. ASSUME NEW p \in Proc, NEW next, Returned(p, next),
             <<p, next>> \in {<<P, "after">>, <<C, "read">>}
      PROVE  Endings'
  <2>1. <<p, "forked", next>> \in MoveSteps \ {<<P, "wait", "report">>, <<P, "report", "return">>}
    BY <1>3 DEF MoveSteps
  <2> QED
    BY <1>1, <1>3, <2>1, GoesOn DEF Returned
<1>4. CASE C_WriteGlobal
  <2>1. <<C, "write global", "write local">> \in
          MoveSteps \ {<<P, "wait", "report">>, <<P, "report", "return">>}
    BY DEF MoveSteps
  <2> QED
    BY <1>0, <1>1, <1>4, <2>1, GoesOn DEF C_WriteGlobal
<1>5. CASE C_WriteLocal
  <2>1. <<C, "write local", "written">> \in
          MoveSteps \ {<<P, "wait", "report">>, <<P, "report", "return">>}
    BY DEF MoveSteps
  <2> QED
    BY <1>0, <1>1, <1>5, <2>1, GoesOn DEF C_WriteLocal
<1>6. CASE P_Wait \/ P_Report
  BY <1>1, <1>6, WaitEndings DEF P_Wait, P_Report
<1>7. CASE P_Fork
  <2>1. /\ pc[P] = "fork" /\ pc'[P] = "forked" /\ pc'[C] = "forked"
        /\ UNCHANGED <<out, fate, status, code, env>>
    BY <1>0, <1>7 DEF P_Fork
  <2>2. pc[C] = "none"
    BY <2>1 DEF Memory, Order
  <2> QED
    BY <1>1, <2>1, <2>2 DEF Endings, EndingTypes, Fates, Reported, ChildIsOut, OutGrows
<1>8. CASE P_ForkFails \/ P_Return \/ C_Exit
  <2>1. PICK p \in Proc, n \in {0, 1, 5} :
          /\ Exit(p, n)
          /\ pc[p] \in {"fork", "return", "exit"} /\ (p = C => pc[C] = "exit" /\ n = 5)
    BY <1>0, <1>8 DEF P_ForkFails, P_Return, C_Exit
  <2>2. p \in Running /\ ExitWord(n) \in Int
    BY <2>1, Words DEF Running, Dead
  <2>4. OutGrows
    <3>1. out \in Seq(Reports) /\ buf[p] \in Seq(Reports) /\ out' = out \o buf[p]
      BY <1>0, <2>1 DEF Exit, OutputTypes
    <3>2. /\ Len(out) \in Nat /\ Len(out') \in Nat /\ Len(out) <= Len(out')
          /\ \A k \in 1 .. Len(out) : out'[k] = out[k]
      BY <3>1, Joined
    <3> QED
      BY <3>2 DEF OutGrows, IsOut
  <2>5. /\ pc' = [pc EXCEPT ![p] = "exited"] /\ fate' = [fate EXCEPT ![p] = ExitWord(n)]
        /\ UNCHANGED <<status, code, env>>
    BY <2>1 DEF Exit
  <2> QED
    BY <2>1, <2>2, <2>4, <2>5, EndEndings
<1>9. ASSUME NEW p \in Proc, Kill(p) PROVE Endings'
  <2>1. PICK word \in KillWords : fate' = [fate EXCEPT ![p] = word]
    BY <1>9 DEF Kill
  <2>2. word \in Int /\ ~WIFEXITED(word)
    BY Words
  <2>3. p \in Running /\ pc' = [pc EXCEPT ![p] = "killed"] /\ UNCHANGED <<out, status, code, env>>
    BY <1>9 DEF Kill
  <2> QED
    BY <1>1, <2>1, <2>2, <2>3, EndEndings
<1>10. CASE UNCHANGED vars
  BY <1>10 DEF vars, Endings, EndingTypes, Fates, Reported, ChildIsOut, IsOut
<1> QED
  <2>1. {<<P, "before", "fork">>, <<P, "after", "wait">>,
         <<C, "read", "write global">>, <<C, "written", "exit">>} \subseteq PrintSteps
    BY DEF PrintSteps
  <2> QED
    BY <1>0, <1>2, <1>3, <1>4, <1>5, <1>6, <1>7, <1>8, <1>9, <1>10, <2>1 DEF Next, Parent, Child

\* In every behaviour the kernel keeps of the child how it ended, and the parent tells
\* nothing else of it (lines 129, 147-159).
THEOREM EndingsInvariance == Spec => []Endings
BY MemoryInvariance, OutputInvariance, EndingsInit, EndingsNext, PTL DEF Spec

\* A report that is out, once.
LEMMA JustOne ==
  ASSUME Output, NEW label, Copies(label) <= 1, IsOut(label)
  PROVE  Copies(label) = 1
<1> DEFINE K == {k \in DOMAIN out : out[k].label = label}
<1>1. DOMAIN out = 1 .. Len(out) /\ Len(out) \in Nat
  <2>1. out \in Seq(Reports)
    BY DEF Output, OutputTypes
  <2> QED
    BY <2>1, LenProperties
<1>2. PICK k \in 1 .. Len(out) : k \in K
  BY <1>1 DEF IsOut
<1>3. IsFiniteSet(K)
  <2>1. IsFiniteSet(1 .. Len(out))
    BY <1>1, FS_Interval
  <2> QED
    BY <1>1, <2>1, FS_Subset
<1>4. Cardinality(K) \in Nat /\ Cardinality(K) # 0
  BY <1>2, <1>3, FS_CardinalityType, FS_EmptySet
<1> QED
  BY <1>4 DEF Copies

\* The child that has called exit() has printed all it had to print.
LEMMA AllOut ==
  ASSUME Memory, Output, Endings, pc[C] = "exited"
  PROVE  Copies("read") = 1 /\ Copies("written") = 1
<1>1. Copies("read") <= 1 /\ Copies("written") <= 1
  BY PrintedHolds0 DEF Printed, PrintedOnce
<1>2. IsOut("read") /\ IsOut("written")
  <2>1. CASE env.tty
    BY <2>1 DEF Endings, ChildIsOut
  <2>2. CASE ~env.tty
    <3>1. \/ Three(out, "before", "read", "written")
          \/ Five(out, "before", "read", "written", "before", "after")
      BY <2>2 DEF Output, InFile
    <3>2. Len(out) >= 3 /\ out[2].label = "read" /\ out[3].label = "written"
      BY <3>1 DEF Three, Five
    <3>3. Len(out) \in Nat
      BY DEF Output, OutputTypes
    <3> QED
      BY <3>2, <3>3 DEF IsOut
  <2> QED
    BY <2>1, <2>2
<1> QED
  BY <1>1, <1>2, JustOne

\* Unless SIGCHLD is ignored the parent prints the code that the child passed to
\* exit(), whatever word the kernel packs it into and whoever is killed: a killed
\* child has none, one that called exit() always has, and then all its reports are
\* out (lines 127-129, 147-159).
THEOREM CodeHolds == Spec => []CodeIsTheChilds
<1>1. Memory /\ Output /\ Endings => CodeIsTheChilds
  BY AllOut DEF Endings, Reported, CodeIsTheChilds, At
<1> QED
  BY <1>1, MemoryInvariance, OutputInvariance, EndingsInvariance, PTL

-----------------------------------------------------------------------------
(* What the reports say of memory                                          *)

\* The frame of global_var that the first report names stays the parent's; it is
\* the child's until it writes, and the parent keeps it from being so afterwards.
FrameOf(b) ==
  env.privileged /\ b.label = "before" =>
    /\ P \in Running => table[P]["data"] = b.pfn["data"]
    /\ pc[C] \in {"forked", "read", "write global"} => table[C]["data"] = b.pfn["data"]
    /\ pc[C] \in {"write local", "written", "exit"} /\ pc[P] # "killed" =>
         table[C]["data"] # b.pfn["data"]

\* What a report says of the frame of global_var, next to the first one.
Agrees(r, b) ==
  env.privileged /\ b.label = "before" =>
    IF r.label = "written"
    THEN pc[P] # "killed" => r.pfn["data"] # b.pfn["data"]
    ELSE r.pfn["data"] = b.pfn["data"]

Private(r) ==
  <<r.val["data"], r.val["stack"]>> = IF r.label = "written" THEN <<200, 20>> ELSE <<100, 10>>

Says ==
  /\ \A r \in Shown : Private(r) /\ FrameOf(r)
  /\ \A r \in Shown, b \in Shown : Agrees(r, b)
  /\ pc[P] = "before" => Shown = {}

\* Nothing has been said at the start.
LEMMA SaysInit == Init => Says
<1> SUFFICES ASSUME Init PROVE Shown = {}
  BY DEF Says
<1>1. out = <<>> /\ \A p \in Proc : buf[p] = <<>>
  BY DEF Init
<1>2. DOMAIN <<>> = {}
  OBVIOUS
<1> QED
  BY <1>1, <1>2 DEF Shown, Range

\* The reports in a sequence with one more at its end,
LEMMA RangeOfAppend ==
  ASSUME NEW s \in Seq(Reports), NEW r \in Reports
  PROVE  Range(Append(s, r)) \subseteq Range(s) \cup {r}
<1>1. /\ DOMAIN s = 1 .. Len(s) /\ DOMAIN Append(s, r) = 1 .. Len(s) + 1 /\ Len(s) \in Nat
      /\ \A k \in 1 .. Len(s) : Append(s, r)[k] = s[k]
      /\ Append(s, r)[Len(s) + 1] = r
  BY Lengthened, LenProperties
<1>2. \A k \in 1 .. Len(s) + 1 : k \in 1 .. Len(s) \/ k = Len(s) + 1
  BY <1>1
<1> QED
  BY <1>1, <1>2 DEF Range

\* and in two sequences, one after the other.
LEMMA RangeOfConcat ==
  ASSUME NEW s \in Seq(Reports), NEW t \in Seq(Reports)
  PROVE  Range(s \o t) \subseteq Range(s) \cup Range(t)
<1>1. /\ DOMAIN s = 1 .. Len(s) /\ DOMAIN t = 1 .. Len(t) /\ Len(s) \in Nat /\ Len(t) \in Nat
      /\ DOMAIN (s \o t) = 1 .. Len(s) + Len(t)
      /\ \A k \in 1 .. Len(s) + Len(t) :
           (s \o t)[k] = IF k <= Len(s) THEN s[k] ELSE t[k - Len(s)]
  BY ConcatProperties, LenProperties
<1>2. ASSUME NEW k \in 1 .. Len(s) + Len(t)
      PROVE  (s \o t)[k] \in Range(s) \cup Range(t)
  <2>1. CASE k <= Len(s)
    <3>1. k \in DOMAIN s
      BY <1>1, <2>1
    <3> QED
      BY <1>1, <2>1, <3>1 DEF Range
  <2>2. CASE ~(k <= Len(s))
    <3>1. k - Len(s) \in DOMAIN t
      BY <1>1, <2>2
    <3> QED
      BY <1>1, <2>2, <3>1 DEF Range
  <2> QED
    BY <2>1, <2>2
<1> QED
  BY <1>1, <1>2 DEF Range

\* print_ptrs() shows its own report and no other new one.
LEMMA PrintShows ==
  ASSUME Memory, Output, NEW p \in Proc, NEW l, NEW next, print_ptrs(p, l, next),
         <<p, l, next>> \in PrintSteps
  PROVE  /\ Report(p, l) \in Reports /\ Report(p, l).label = l
         /\ Shown' \subseteq Shown \cup {Report(p, l)}
<1>1. /\ pc[p] = l
      /\ \/ out' = Append(out, Report(p, l)) /\ UNCHANGED buf
         \/ buf' = [buf EXCEPT ![p] = Append(@, Report(p, l))] /\ UNCHANGED out
  BY DEF print_ptrs, At
<1>2. p \in Running /\ l \in Labels /\ p = IF l \in {"read", "written"} THEN C ELSE P
  BY <1>1, RunningIs DEF PrintSteps, Labels
<1>3. Report(p, l) \in Reports /\ Report(p, l).label = l
  BY <1>2, ReportTyped
<1>4. buf \in [Proc -> Seq(Reports)] /\ out \in Seq(Reports)
  BY DEF Output, OutputTypes
<1>5. CASE out' = Append(out, Report(p, l)) /\ UNCHANGED buf
  <2>1. Range(out') \subseteq Range(out) \cup {Report(p, l)}
    BY <1>3, <1>4, <1>5, RangeOfAppend
  <2> QED
    BY <1>3, <1>5, <2>1 DEF Shown
<1>6. CASE buf' = [buf EXCEPT ![p] = Append(@, Report(p, l))] /\ UNCHANGED out
  <2>1. /\ Range(buf'[p]) \subseteq Range(buf[p]) \cup {Report(p, l)}
        /\ \A q \in Proc \ {p} : buf'[q] = buf[q]
    BY <1>3, <1>4, <1>6, RangeOfAppend
  <2> QED
    BY <1>3, <1>6, <2>1 DEF Shown
<1> QED
  BY <1>1, <1>5, <1>6

\* Nothing new is shown by a fork or by the end of a process.
LEMMA ForkShows ==
  ASSUME Output, buf' = [buf EXCEPT ![C] = buf[P]], out' = out, P \in Proc
  PROVE  Shown' \subseteq Shown
<1>1. \A q \in Proc : buf'[q] = buf[q] \/ buf'[q] = buf[P]
  BY DEF Output, OutputTypes
<1> QED
  BY <1>1 DEF Shown

\* Nor by an end: what a process has kept is written or lost.
LEMMA EndShows ==
  ASSUME Output, NEW p \in Proc, buf' = [buf EXCEPT ![p] = <<>>], out' \in {out, out \o buf[p]}
  PROVE  Shown' \subseteq Shown
<1>1. /\ buf'[p] = <<>> /\ \A q \in Proc \ {p} : buf'[q] = buf[q]
      /\ out \in Seq(Reports) /\ buf[p] \in Seq(Reports)
  BY DEF Output, OutputTypes
<1>2. Range(buf'[p]) = {}
  BY <1>1 DEF Range
<1>3. Range(out') \subseteq Range(out) \cup Range(buf[p])
  BY <1>1, RangeOfConcat
<1> QED
  BY <1>1, <1>2, <1>3 DEF Shown

\* The frames of global_var are where they were, for those that look at them.
Unmoved ==
  /\ P \in Running' => P \in Running /\ table'[P]["data"] = table[P]["data"]
  /\ pc'[C] \in {"forked", "read", "write global"} =>
       /\ pc[C] \in {"forked", "read", "write global"}
       /\ table'[C]["data"] = table[C]["data"]
  /\ pc'[C] \in {"write local", "written", "exit"} /\ pc'[P] # "killed" =>
       /\ pc[C] \in {"write local", "written", "exit"} /\ pc[P] # "killed"
       /\ table'[C]["data"] = table[C]["data"]

\* What has been said stays true when nothing is added to it.
LEMMA SaysStill ==
  ASSUME Says, Shown' \subseteq Shown, env' = env,
         \A b \in Shown : FrameOf(b) => FrameOf(b)',
         pc[P] = "killed" => pc'[P] = "killed", pc'[P] = "before" => pc[P] = "before"
  PROVE  Says'
<1>1. \A r \in Shown, b \in Shown : Agrees(r, b) => Agrees(r, b)'
  BY DEF Agrees
<1>2. \A r \in Shown : Private(r)' = Private(r)
  BY DEF Private
<1> QED
  BY <1>1, <1>2 DEF Says

\* Then the first report names the frame of before.
LEMMA FrameStill ==
  ASSUME Unmoved, env' = env
  PROVE  \A b \in Shown : FrameOf(b) => FrameOf(b)'
BY DEF Unmoved, FrameOf

\* What print_ptrs() says is true of the memory it finds, and fits what was said before.
LEMMA PrintSays ==
  ASSUME Memory, Output, Says, NEW p \in Proc, NEW l, NEW next, print_ptrs(p, l, next),
         <<p, l, next>> \in PrintSteps
  PROVE  Says'
<1>0. /\ pc[p] = l /\ pc' = [pc EXCEPT ![p] = next] /\ UNCHANGED <<table, content, env>>
  BY DEF print_ptrs, At, Goto, pages
<1>1. /\ pc'[p] = next /\ \A q \in Proc \ {p} : pc'[q] = pc[q]
      /\ P # C /\ Proc = {P, C} /\ p \in Running /\ pc \in [Proc -> Steps]
  BY <1>0, RunningIs DEF PrintSteps
<1>2. PICK r \in Reports : r = Report(p, l) /\ r.label = l /\ Shown' \subseteq Shown \cup {r}
  BY PrintShows
<1>3. Running' = Running
  BY <1>0, <1>1, RunningStays DEF PrintSteps, Dead
<1>4. Unmoved
  <2>1. /\ pc'[C] \in {"forked", "read", "write global"} =>
             pc[C] \in {"forked", "read", "write global"}
        /\ pc'[C] \in {"write local", "written", "exit"} =>
             pc[C] \in {"write local", "written", "exit"}
        /\ pc'[P] # "killed" => pc[P] # "killed"
    BY <1>0, <1>1 DEF PrintSteps
  <2> QED
    BY <1>0, <1>3, <2>1 DEF Unmoved
<1>5. \A b \in Shown : FrameOf(b)'
  BY <1>0, <1>4, FrameStill DEF Says
<1>6. Private(r)'
  <2>1. r.val["data"] = Value(p, "data") /\ r.val["stack"] = Value(p, "stack")
    BY <1>2 DEF Report, Page
  <2>2. /\ Value(p, "data") = IF l = "written" THEN 200 ELSE 100
        /\ Value(p, "stack") = IF l = "written" THEN 20 ELSE 10
    <3>1. OwnMemory
      BY DEF Memory
    <3>2. CASE p = P
      <4>1. l # "written"
        BY <1>1, <3>2 DEF PrintSteps
      <4> QED
        BY <1>1, <3>1, <3>2, <4>1 DEF OwnMemory
    <3>3. CASE p = C
      <4>1. pc[C] = l /\ l \in {"read", "written"}
        BY <1>0, <1>1, <3>3 DEF PrintSteps
      <4> QED
        BY <1>1, <3>1, <3>3, <4>1 DEF OwnMemory
    <3> QED
      BY <1>1, <3>2, <3>3
  <2> QED
    BY <1>2, <2>1, <2>2 DEF Private
<1>7. env.privileged => r.pfn["data"] = table[p]["data"]
  BY <1>2 DEF Report, get_page, Page
<1>8. pc'[P] # "before" /\ pc'[P] = "killed" => pc[P] = "killed"
  BY <1>0, <1>1 DEF PrintSteps
<1>9. CASE l = "before"
  <2>1. Shown' \subseteq {r}
    BY <1>0, <1>1, <1>2, <1>9 DEF Says, PrintSteps
  <2>2. p = P /\ pc'[P] = "fork" /\ pc'[C] = "none"
    BY <1>0, <1>1, <1>9 DEF PrintSteps, Memory, Order
  <2>3. FrameOf(r)'
    BY <1>0, <1>7, <2>2 DEF FrameOf
  <2>4. Agrees(r, r)'
    BY <1>2, <1>9 DEF Agrees
  <2> QED
    BY <1>6, <2>1, <2>2, <2>3, <2>4 DEF Says
<1>10. CASE l # "before"
  <2>1. FrameOf(r)' /\ \A b \in Shown \cup {r} : Agrees(b, r)'
    BY <1>2, <1>10 DEF FrameOf, Agrees
  <2>2. ASSUME NEW b \in Shown PROVE Agrees(r, b)'
    <3>1. FrameOf(b)
      BY DEF Says
    <3>2. CASE l = "written"
      <4>1. p = C /\ pc[C] = "written" /\ pc'[P] = pc[P]
        BY <1>0, <1>1, <3>2 DEF PrintSteps
      <4> QED
        BY <1>0, <1>2, <1>7, <3>1, <3>2, <4>1 DEF FrameOf, Agrees
    <3>3. CASE l = "read"
      <4>1. p = C /\ pc[C] = "read"
        BY <1>0, <1>1, <3>3 DEF PrintSteps
      <4> QED
        BY <1>0, <1>2, <1>7, <3>1, <3>3, <4>1 DEF FrameOf, Agrees
    <3>4. CASE l = "after"
      <4>1. p = P
        BY <3>4 DEF PrintSteps
      <4> QED
        BY <1>0, <1>1, <1>2, <1>7, <3>1, <3>4, <4>1 DEF FrameOf, Agrees
    <3> QED
      BY <1>10, <3>2, <3>3, <3>4 DEF PrintSteps
  <2>3. \A s \in Shown, b \in Shown : Agrees(s, b)'
    BY <1>0, <1>1 DEF Says, Agrees, PrintSteps
  <2>4. \A s \in Shown : Private(s)'
    BY DEF Says, Private
  <2>5. pc'[P] # "before"
    BY <1>0, <1>1, <1>10 DEF PrintSteps, Memory, Order
  <2> QED
    BY <1>2, <1>5, <1>6, <2>1, <2>2, <2>3, <2>4, <2>5 DEF Says
<1> QED
  BY <1>9, <1>10

\* After fork() the child has the parent's frames.
LEMMA ForkSays == ASSUME Memory, Output, Says, P_Fork PROVE Says'
<1>0. /\ pc[P] = "fork" /\ pc' = [p \in Proc |-> "forked"] /\ buf' = [buf EXCEPT ![C] = buf[P]]
      /\ table' = [table EXCEPT ![C] = table[P]] /\ UNCHANGED <<out, env>>
  BY DEF P_Fork, At
<1>1. /\ P \in Proc /\ C \in Proc /\ P # C /\ P \in Running
      /\ pc'[P] = "forked" /\ pc'[C] = "forked"
  BY <1>0, RunningIs
<1>2. table'[P] = table[P] /\ table'[C] = table[P]
  BY <1>0, <1>1 DEF Memory, MemoryTypes
<1>3. Shown' \subseteq Shown
  BY <1>0, <1>1, ForkShows
<1>4. \A b \in Shown : FrameOf(b) => FrameOf(b)'
  BY <1>0, <1>1, <1>2 DEF FrameOf
<1> QED
  BY <1>0, <1>1, <1>3, <1>4, SaysStill

\* The end of a process takes its pages out of what is said.
LEMMA EndSays ==
  ASSUME Memory, Output, Says, NEW p \in Running, NEW how \in {"exited", "killed"},
         pc' = [pc EXCEPT ![p] = how], table' = [table EXCEPT ![p] = NoPages],
         buf' = [buf EXCEPT ![p] = <<>>], out' \in {out, out \o buf[p]}, UNCHANGED env
  PROVE  Says'
<1>0. /\ p \in Proc /\ pc[p] \notin Dead /\ pc'[p] = how /\ P # C
      /\ \A q \in Proc \ {p} : pc'[q] = pc[q] /\ table'[q] = table[q]
      /\ Proc = {P, C}
  BY RunningIs DEF Running, Memory, MemoryTypes
<1>1. Running' = Running \ {p}
  BY <1>0 DEF Running, Dead
<1>2. Shown' \subseteq Shown
  BY <1>0, EndShows
<1>3. Unmoved
  <2>1. CASE p = P
    BY <1>0, <1>1, <2>1 DEF Unmoved, Dead
  <2>2. CASE p = C
    BY <1>0, <1>1, <2>2 DEF Unmoved, Dead
  <2> QED
    BY <1>0, <2>1, <2>2
<1>4. (pc[P] = "killed" => pc'[P] = "killed") /\ (pc'[P] = "before" => pc[P] = "before")
  BY <1>0 DEF Dead
<1> QED
  BY <1>2, <1>3, <1>4, FrameStill, SaysStill

\* A step that neither prints nor ends a process, but may write.
LEMMA MoveSays ==
  ASSUME Memory, Says, NEW p \in Proc, NEW l, NEW next, <<p, l, next>> \in MoveSteps,
         pc[p] = l, pc' = [pc EXCEPT ![p] = next], UNCHANGED <<buf, out, env>>,
         \/ l # "write global" /\ (UNCHANGED table \/ \E v \in Values : Stored(p, "stack", v))
         \/ l = "write global" /\ \E v \in Values : Stored(p, "data", v)
  PROVE  Says'
<1>1. /\ pc'[p] = next /\ \A q \in Proc \ {p} : pc'[q] = pc[q]
      /\ P # C /\ Proc = {P, C} /\ pc \in [Proc -> Steps] /\ l \notin Dead /\ next \notin Dead
  BY RunningIs DEF MoveSteps, Dead
<1>2. Running' = Running
  BY <1>1, RunningStays
<1>3. Shown' \subseteq Shown
  BY DEF Shown
<1>4. (pc[P] = "killed" => pc'[P] = "killed") /\ (pc'[P] = "before" => pc[P] = "before")
  BY <1>1 DEF MoveSteps, Dead
<1>5. \A b \in Shown : FrameOf(b) => FrameOf(b)'
  <2>1. CASE l # "write global"
    <3>1. table'[P]["data"] = table[P]["data"] /\ table'[C]["data"] = table[C]["data"]
      <4>1. CASE UNCHANGED table
        BY <4>1
      <4>2. CASE \E v \in Values : Stored(p, "stack", v)
        <5>1. /\ \A q \in Proc \ {p} : table'[q] = table[q]
              /\ \A r \in Page \ {"stack"} : table'[p][r] = table[p][r]
          BY <4>2 DEF Stored
        <5>2. "data" \in Page \ {"stack"}
          BY DEF Page
        <5>3. \A q \in Proc : table'[q]["data"] = table[q]["data"]
          BY <5>1, <5>2
        <5> QED
          BY <1>1, <5>3
      <4> QED
        BY <2>1, <4>1, <4>2
    <3>2. /\ pc'[C] \in {"forked", "read", "write global"} =>
               pc[C] \in {"forked", "read", "write global"}
          /\ pc'[C] \in {"write local", "written", "exit"} =>
               pc[C] \in {"write local", "written", "exit"}
          /\ pc'[P] # "killed" => pc[P] # "killed"
      BY <1>1, <2>1 DEF MoveSteps
    <3>3. Unmoved
      BY <1>2, <3>1, <3>2 DEF Unmoved
    <3> QED
      BY <3>3, FrameStill
  <2>2. CASE l = "write global"
    <3>1. p = C /\ pc[C] = "write global" /\ pc'[C] = "write local" /\ pc'[P] = pc[P]
      BY <1>1, <2>2 DEF MoveSteps
    <3>2. P \in Running \/ pc[P] = "killed"
      BY <3>1, RunningIs DEF Memory, Order, Dead
    <3>3. CASE \E v \in Values : Stored(p, "data", v)
      <4>1. /\ table'[P] = table[P]
            /\ table'[C]["data"] # table[P]["data"]
        BY <1>1, <3>1, <3>3 DEF Stored, Page
      <4> QED
        BY <1>2, <3>1, <3>2, <4>1 DEF FrameOf
    <3> QED
      BY <2>2, <3>3
  <2> QED
    BY <2>1, <2>2
<1> QED
  BY <1>3, <1>4, <1>5, SaysStill

\* Every step keeps what the reports say true.
LEMMA SaysNext == Memory /\ Output /\ Says /\ [Next]_vars => Says'
<1> SUFFICES ASSUME Memory, Output, Says, [Next]_vars PROVE Says'
  OBVIOUS
<1> USE DEF pages, output, Goto, At
<1>0. P \in Proc /\ C \in Proc /\ P # C /\ MemoryTypes
  BY RunningIs DEF Memory
<1>1. CASE \/ print_ptrs(P, "before", "fork") \/ print_ptrs(P, "after", "wait")
           \/ print_ptrs(C, "read", "write global") \/ print_ptrs(C, "written", "exit")
  <2>1. {<<P, "before", "fork">>, <<P, "after", "wait">>,
         <<C, "read", "write global">>, <<C, "written", "exit">>} \subseteq PrintSteps
    BY DEF PrintSteps
  <2> QED
    BY <1>0, <1>1, <2>1, PrintSays
<1>2. ASSUME NEW p \in Proc, NEW next, Returned(p, next),
             <<p, next>> \in {<<P, "after">>, <<C, "read">>}
      PROVE  Says'
  <2>1. <<p, "forked", next>> \in MoveSteps
    BY <1>2 DEF MoveSteps
  <2>2. /\ pc[p] = "forked" /\ pc' = [pc EXCEPT ![p] = next] /\ UNCHANGED <<buf, out, env>>
        /\ p \in Running /\ "stack" \in Page
    BY <1>2, RunningIs DEF Returned, Page, Running, Dead
  <2>3. Value(p, "stack") \in Values
    BY <2>2 DEF Memory, OwnMemory, Values
  <2>4. UNCHANGED table \/ \E v \in Values : Stored(p, "stack", v)
    BY <1>0, <1>2, <2>2, <2>3, StoreEffect DEF Returned
  <2> QED
    BY <2>1, <2>2, <2>4, MoveSays
<1>3. CASE C_WriteGlobal
  <2>1. /\ pc[C] = "write global" /\ pc' = [pc EXCEPT ![C] = "write local"]
        /\ UNCHANGED <<buf, out, env>> /\ Store(C, "data", 200)
    BY <1>3 DEF C_WriteGlobal
  <2>2. C \in Running /\ "data" \in Page /\ 200 \in Values
    BY <2>1, RunningIs DEF Page, Values
  <2>3. \E v \in Values : Stored(C, "data", v)
    BY <1>0, <2>1, <2>2, StoreEffect
  <2>4. <<C, "write global", "write local">> \in MoveSteps
    BY DEF MoveSteps
  <2> QED
    BY <1>0, <2>1, <2>3, <2>4, MoveSays
<1>4. CASE C_WriteLocal
  <2>1. /\ pc[C] = "write local" /\ pc' = [pc EXCEPT ![C] = "written"]
        /\ UNCHANGED <<buf, out, env>> /\ Store(C, "stack", 20)
    BY <1>4 DEF C_WriteLocal
  <2>2. C \in Running /\ "stack" \in Page /\ 20 \in Values
    BY <2>1, RunningIs DEF Page, Values
  <2>3. \E v \in Values : Stored(C, "stack", v)
    BY <1>0, <2>1, <2>2, StoreEffect
  <2>4. <<C, "write local", "written">> \in MoveSteps
    BY DEF MoveSteps
  <2> QED
    BY <1>0, <2>1, <2>3, <2>4, MoveSays
<1>5. CASE P_Wait \/ P_Report
  <2>1. PICK l \in {"wait", "report"}, next \in {"report", "return"} :
          /\ <<P, l, next>> \in MoveSteps
          /\ pc[P] = l /\ pc' = [pc EXCEPT ![P] = next]
    BY <1>5 DEF P_Wait, P_Report, MoveSteps
  <2>2. UNCHANGED <<buf, out, env, table>>
    BY <1>5 DEF P_Wait, P_Report
  <2> QED
    BY <1>0, <2>1, <2>2, MoveSays
<1>6. CASE P_ForkFails \/ P_Return \/ C_Exit
  <2>1. PICK p \in Proc, n \in {0, 1, 5} : Exit(p, n) /\ pc[p] \in {"fork", "return", "exit"}
    BY <1>0, <1>6 DEF P_ForkFails, P_Return, C_Exit
  <2>2. p \in Running
    BY <2>1 DEF Running, Dead
  <2> QED
    BY <2>1, <2>2, EndSays DEF Exit
<1>7. ASSUME NEW p \in Proc, Kill(p) PROVE Says'
  BY <1>7, EndSays DEF Kill
<1>8. CASE UNCHANGED vars
  <2>1. UNCHANGED <<pc, table, buf, out, env>>
    BY <1>8 DEF vars
  <2>2. Shown' = Shown
    BY <2>1 DEF Shown
  <2>3. Running' = Running
    BY <2>1 DEF Running
  <2>4. Unmoved
    BY <2>1, <2>3 DEF Unmoved
  <2>5. \A b \in Shown : FrameOf(b) => FrameOf(b)'
    BY <2>1, <2>4, FrameStill
  <2> QED
    BY <1>0, <2>1, <2>2, <2>5, SaysStill
<1> QED
  BY <1>0, <1>1, <1>2, <1>3, <1>4, <1>5, <1>6, <1>7, <1>8, ForkSays
  DEF Next, Parent, Child

\* In every behaviour every report made fits what its process wrote, and the first one
\* (lines 109-124, 142-145).
THEOREM SaysInvariance == Spec => []Says
BY MemoryInvariance, OutputInvariance, SaysInit, SaysNext, PTL DEF Spec

\* The layers together give what a run checks.
LEMMA ReportsConjuncts == ASSUME Memory, Output, Says, Endings PROVE ReportsTrue
<1>1. Shown \subseteq Reports
  <2>1. \A p \in Proc : buf[p] \in Seq(Reports)
    BY DEF Output, OutputTypes
  <2>2. \A s \in Seq(Reports) : Range(s) \subseteq Reports
    BY DEF Range
  <2> QED
    BY <2>1, <2>2 DEF Shown, Output, OutputTypes
<1>2. \A r \in Shown : r.by \in Proc /\ r.label \in Labels
  BY <1>1 DEF Reports
<1>3. TypeOK
  BY <1>2 DEF TypeOK, Memory, MemoryTypes, Steps, Values, Labels, Endings, EndingTypes
<1>4. ShownIsPrivate
  BY DEF Says, Private, ShownIsPrivate
<1>5. DataFrame
  BY DEF Says, Agrees, DataFrame, At
<1> QED
  BY <1>3, <1>4, <1>5 DEF ReportsTrue

\* What is printed of the pages is true: a page of a process that runs is in a frame
\* of its own or one it shares with the same page of the other; the values are those
\* of the program's text; and the frame of global_var is the parent's until the child
\* writes and another one afterwards (lines 109-124, 142-145).
THEOREM ReportsHold == Spec => []ReportsTrue
BY MemoryInvariance, OutputInvariance, SaysInvariance, EndingsInvariance, ReportsConjuncts, PTL
=============================================================================
