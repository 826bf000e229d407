----------------------------- MODULE FamilyProofs -----------------------------
(***************************************************************************)
(* Proofs about Family, for any processes that may be killed: whoever ends *)
(* when, what the three programs print of their relatives is true, each    *)
(* line comes out once and in its order, and a zombie stays as long as its *)
(* parent sleeps.  IInv is about the processes; LInv, on top of it, is     *)
(* about their lines.                                                      *)
(***************************************************************************)
EXTENDS Family, SequenceTheorems, FiniteSetTheorems, TLAPS

Child == Proc \ {"first"}
Lines == {"sleeps", "becomes a zombie", "created a child", "original parent", "awake", "new parent",
          "my child", "I sleep", "collected", "Ded is my parent", "created Syn", "living Papa",
          "I end"}

\* The lines of a program, which process says one, and in which of its steps.
Ded == "Ded is my parent"
Syn == "created Syn"
Vocabulary(prog) ==
  IF prog = "zombie" THEN {"sleeps", "becomes a zombie"}
  ELSE IF prog = "orphan"
  THEN {"created a child", "original parent", "awake", "new parent"}
  ELSE {"my child", "I sleep", "collected", "Ded is my parent", "created Syn", "living Papa",
        "new parent", "I end"}
Speaker(prog, line) ==
  IF line \in {"sleeps", "created a child", "my child", "I sleep", "collected"} THEN "first"
  ELSE IF line \in {"living Papa", "I end"} \/ (line = "new parent" /\ prog = "three")
  THEN "third" ELSE "second"
Place(prog, line) ==
  IF line \in {"sleeps", "created a child", "my child", "living Papa"} THEN 2
  ELSE IF line \in {"I sleep", "awake", "created Syn"} \/ (line = "new parent" /\ prog = "three")
  THEN 3 ELSE IF line = "new parent" THEN 4 ELSE IF line = "I end" THEN 5
  ELSE IF line = "collected" THEN 6 ELSE 1

-----------------------------------------------------------------------------
(* The inductive invariant                                                 *)

Types ==
  /\ program \in {"zombie", "orphan", "three"} /\ tty \in BOOLEAN /\ autoreap \in BOOLEAN
  /\ pc \in [Proc -> Nat] /\ life \in [Proc -> {"none", "running", "zombie", "gone"}]
  /\ parent \in [Proc -> Proc \cup Outside] /\ killed \subseteq Proc
  /\ out \in Seq(Lines) /\ buf \in [Proc -> Seq(Lines)]
  /\ told \in [Proc -> Seq(Proc \cup Outside)]

\* A process exists as soon as its forker is past the fork(), and does a step
\* of its list as long as it runs.
Existing ==
  /\ life["first"] # "none"
  /\ life["second"] = "none" <=> pc["first"] = 1
  /\ life["third"] = "none" <=> ~(program = "three" /\ pc["second"] >= 3)
  /\ life["second"] = "none" => pc["second"] = 1
  /\ life["third"] = "none" => pc["third"] = 1
  /\ \A p \in Proc : life[p] = "none" \/ pc[p] \in 1 .. Len(Script[p])

\* A zombie too has its forker for a parent, as long as that one runs.
Tree ==
  /\ parent["first"] = "shell"
  /\ \A p \in Child : life[p] \in {"running", "zombie"} =>
       parent[p] = IF life[Forker(p)] = "running" THEN Forker(p) ELSE "adopter"

\* Once Ded has waited Papa is gone, and only then does Ded say so.
Silent(s) == \A k \in 1 .. Len(s) : s[k] # "collected"
Waiting ==
  /\ program = "three" /\ pc["first"] >= 6 => life["second"] = "gone"
  /\ ~(program = "three" /\ pc["first"] >= 7) => Silent(out) /\ \A p \in Proc : Silent(buf[p])

\* Who has been told of another parent has lost its own.
Telling ==
  /\ told["first"] = <<>>
  /\ \A p \in Child : life[p] = "none" => told[p] = <<>>
  /\ \A p \in Child : \A k \in 1 .. Len(told[p]) :
       told[p][k] = "adopter" =>
         /\ life[Forker(p)] # "running"
         /\ \A l \in 1 .. Len(told[p]) : k < l => told[p][l] = "adopter"

\* A line has been said by its speaker.
Said(prog, at, line) == line \in Vocabulary(prog) /\ at[Speaker(prog, line)] > Place(prog, line)

Distinct(s) == \A k \in 1 .. Len(s), l \in 1 .. Len(s) : s[k] = s[l] => k = l
Ended(lf, p) == lf[p] \in {"zombie", "gone"}

\* A terminal shows each line when it is said, and there are no buffers.
OnTerminal ==
  tty => /\ \A p \in Proc : buf[p] = <<>>
         /\ Distinct(out) /\ \A k \in 1 .. Len(out) : Said(program, pc, out[k])

\* Else a line is in its speaker's buffer; Papa's first line is in Syn's as well.
Held(prog, at, p, line) ==
  Said(prog, at, line) /\ (Speaker(prog, line) = p \/ (p = "third" /\ line = Ded))
InBuffer ==
  ~tty => \A p \in Proc : /\ Distinct(buf[p])
                          /\ \A k \in 1 .. Len(buf[p]) : Held(program, pc, p, buf[p][k])

\* It is written when its speaker ends, for Ded that is when Papa is gone.
Kept(prog, at, lf, line) ==
  /\ Said(prog, at, line)
  /\ line # Ded => Ended(lf, Speaker(prog, line))
  /\ prog = "three" /\ Speaker(prog, line) = "first" => lf["second"] = "gone"
Unrepeated(s) == \A k \in 1 .. Len(s), l \in 1 .. Len(s) : s[k] = s[l] /\ s[k] # Ded => k = l
InFile == ~tty => Unrepeated(out) /\ \A k \in 1 .. Len(out) : Kept(program, pc, life, out[k])

\* Papa's first line is written at most once by Papa and once by Syn.
Places(s, line) == {k \in 1 .. Len(s) : s[k] = line}
Copies(lf, p) == IF Ended(lf, p) THEN 1 ELSE 0
DedTwice ==
  ~tty => Cardinality(Places(out, Ded)) <= Copies(life, "second") + Copies(life, "third")

\* The order of the output.
Early(t, line) == line = "collected" \/ (line \in {"my child", "I sleep"} /\ ~t)
InOrder(t, s) == \A k \in 1 .. Len(s), l \in 1 .. Len(s) : s[k] = Syn /\ Early(t, s[l]) => k < l

LInv == OnTerminal /\ InBuffer /\ InFile /\ DedTwice /\ InOrder(tty, out)

IInv == Types /\ Existing /\ Tree /\ Waiting /\ Telling

-----------------------------------------------------------------------------
(* The lists of steps                                                      *)

Programs == {"zombie", "orphan", "three"}

\* The names of the processes.
LEMMA ProcIs ==
  /\ Proc = {"first", "second", "third"} /\ Child = {"second", "third"}
  /\ Outside = {"shell", "adopter"}
BY DEF Proc, Child, Outside

\* What there is to know about step n of the list s of process p.
StepFacts(p, n, s) ==
  /\ n < Len(s) \/ s[n].op = "exit"
  /\ s[n].op = "fork" <=> (p = "first" /\ n = 1) \/ (program = "three" /\ p = "second" /\ n = 2)
  /\ s[n].op = "fork" => s[n].child = IF p = "first" THEN "second" ELSE "third"
  /\ s[n].op = "wait" <=> program = "three" /\ p = "first" /\ n = 5
  /\ s[n].op = "ppid" => p # "first"
  /\ s[n].op \in {"print", "ppid"} =>
       /\ s[n].line \in Lines
       /\ s[n].line = "collected" => program = "three" /\ p = "first" /\ n = 6
       /\ s[n].line \in Vocabulary(program) /\ Speaker(program, s[n].line) = p /\ Place(program, s[n].line) = n
  /\ program = "three" /\ p = "first" /\ s[n].op = "exit" => n = 7

\* Every step of the three programs is as StepFacts says.
LEMMA Steps ==
  ASSUME program \in Programs, NEW p \in Proc, NEW n \in 1 .. Len(Script[p])
  PROVE  StepFacts(p, n, Script[p])
<1> DEFINE s == Script[p]
<1> USE ProcIs
<1>0. n \in 1 .. Len(s)
  OBVIOUS
<1>1. CASE program = "zombie"
  <2>1. CASE p = "first"
    <3>1. s = <<Fork("second"), Line("sleeps"), Sleep, Exit>>
      BY <1>1, <2>1 DEF Script, zombie
    <3> HIDE DEF s
    <3>2. /\ Len(s) = 4 /\ n \in 1 .. 4
          /\ s[1].op = "fork" /\ s[1].child = "second"
          /\ s[2].op = "print" /\ s[2].line \in Lines \ {"collected"}
          /\ s[3].op = "sleep"
          /\ s[4].op = "exit"
      BY <1>0, <3>1 DEF Lines, Line, PpidLine, Sleep, Wait, Exit, Fork
    <3>3. /\ s[2].line \in Vocabulary(program)
          /\ Speaker(program, s[2].line) = p /\ Place(program, s[2].line) = 2
      BY <1>1, <2>1, <3>1
         DEF Vocabulary, Speaker, Place, Line, PpidLine, Sleep, Wait, Exit, Fork
    <3> HIDE <3>1
    <3>4. StepFacts(p, n, s)
      BY <1>1, <2>1, <3>2, <3>3 DEF StepFacts
    <3> QED
      BY <3>4 DEF s
  <2>2. CASE p = "second"
    <3>1. s = <<Line("becomes a zombie"), Exit>>
      BY <1>1, <2>2 DEF Script, zombie
    <3> HIDE DEF s
    <3>2. /\ Len(s) = 2 /\ n \in 1 .. 2
          /\ s[1].op = "print" /\ s[1].line \in Lines \ {"collected"}
          /\ s[2].op = "exit"
      BY <1>0, <3>1 DEF Lines, Line, PpidLine, Sleep, Wait, Exit, Fork
    <3>3. /\ s[1].line \in Vocabulary(program)
          /\ Speaker(program, s[1].line) = p /\ Place(program, s[1].line) = 1
      BY <1>1, <2>2, <3>1
         DEF Vocabulary, Speaker, Place, Line, PpidLine, Sleep, Wait, Exit, Fork
    <3> HIDE <3>1
    <3>4. StepFacts(p, n, s)
      BY <1>1, <2>2, <3>2, <3>3 DEF StepFacts
    <3> QED
      BY <3>4 DEF s
  <2>3. CASE p = "third"
    <3>1. s = <<>>
      BY <1>1, <2>3 DEF Script, zombie
    <3> HIDE DEF s
    <3> QED
      BY <1>0, <3>1
  <2> QED
    BY <2>1, <2>2, <2>3
<1>2. CASE program = "orphan"
  <2>1. CASE p = "first"
    <3>1. s = <<Fork("second"), Line("created a child"), Exit>>
      BY <1>2, <2>1 DEF Script, orphan
    <3> HIDE DEF s
    <3>2. /\ Len(s) = 3 /\ n \in 1 .. 3
          /\ s[1].op = "fork" /\ s[1].child = "second"
          /\ s[2].op = "print" /\ s[2].line \in Lines \ {"collected"}
          /\ s[3].op = "exit"
      BY <1>0, <3>1 DEF Lines, Line, PpidLine, Sleep, Wait, Exit, Fork
    <3>3. /\ s[2].line \in Vocabulary(program)
          /\ Speaker(program, s[2].line) = p /\ Place(program, s[2].line) = 2
      BY <1>2, <2>1, <3>1
         DEF Vocabulary, Speaker, Place, Line, PpidLine, Sleep, Wait, Exit, Fork
    <3> HIDE <3>1
    <3>4. StepFacts(p, n, s)
      BY <1>2, <2>1, <3>2, <3>3 DEF StepFacts
    <3> QED
      BY <3>4 DEF s
  <2>2. CASE p = "second"
    <3>1. s = <<PpidLine("original parent"), Sleep, Line("awake"), PpidLine("new parent"),
               Sleep, Exit>>
      BY <1>2, <2>2 DEF Script, orphan
    <3> HIDE DEF s
    <3>2. /\ Len(s) = 6 /\ n \in 1 .. 6
          /\ s[1].op = "ppid" /\ s[1].line \in Lines \ {"collected"}
          /\ s[2].op = "sleep"
          /\ s[3].op = "print" /\ s[3].line \in Lines \ {"collected"}
          /\ s[4].op = "ppid" /\ s[4].line \in Lines \ {"collected"}
          /\ s[5].op = "sleep"
          /\ s[6].op = "exit"
      BY <1>0, <3>1 DEF Lines, Line, PpidLine, Sleep, Wait, Exit, Fork
    <3>3. /\ s[1].line \in Vocabulary(program)
          /\ Speaker(program, s[1].line) = p /\ Place(program, s[1].line) = 1
          /\ s[3].line \in Vocabulary(program)
          /\ Speaker(program, s[3].line) = p /\ Place(program, s[3].line) = 3
          /\ s[4].line \in Vocabulary(program)
          /\ Speaker(program, s[4].line) = p /\ Place(program, s[4].line) = 4
      BY <1>2, <2>2, <3>1
         DEF Vocabulary, Speaker, Place, Line, PpidLine, Sleep, Wait, Exit, Fork
    <3> HIDE <3>1
    <3>4. StepFacts(p, n, s)
      BY <1>2, <2>2, <3>2, <3>3 DEF StepFacts
    <3> QED
      BY <3>4 DEF s
  <2>3. CASE p = "third"
    <3>1. s = <<>>
      BY <1>2, <2>3 DEF Script, orphan
    <3> HIDE DEF s
    <3> QED
      BY <1>0, <3>1
  <2> QED
    BY <2>1, <2>2, <2>3
<1>3. CASE program = "three"
  <2>1. CASE p = "first"
    <3>1. s = <<Fork("second"), Line("my child"), Line("I sleep"), Sleep,
               Wait, Line("collected"), Exit>>
      BY <1>3, <2>1 DEF Script, three
    <3> HIDE DEF s
    <3>2. /\ Len(s) = 7 /\ n \in 1 .. 7
          /\ s[1].op = "fork" /\ s[1].child = "second"
          /\ s[2].op = "print" /\ s[2].line \in Lines \ {"collected"}
          /\ s[3].op = "print" /\ s[3].line \in Lines \ {"collected"}
          /\ s[4].op = "sleep"
          /\ s[5].op = "wait"
          /\ s[6].op = "print" /\ s[6].line = "collected" /\ s[6].line \in Lines
          /\ s[7].op = "exit"
      BY <1>0, <3>1 DEF Lines, Line, PpidLine, Sleep, Wait, Exit, Fork
    <3>3. /\ s[2].line \in Vocabulary(program)
          /\ Speaker(program, s[2].line) = p /\ Place(program, s[2].line) = 2
          /\ s[3].line \in Vocabulary(program)
          /\ Speaker(program, s[3].line) = p /\ Place(program, s[3].line) = 3
          /\ s[6].line \in Vocabulary(program)
          /\ Speaker(program, s[6].line) = p /\ Place(program, s[6].line) = 6
      BY <1>3, <2>1, <3>1
         DEF Vocabulary, Speaker, Place, Line, PpidLine, Sleep, Wait, Exit, Fork
    <3> HIDE <3>1
    <3>4. StepFacts(p, n, s)
      BY <1>3, <2>1, <3>2, <3>3 DEF StepFacts
    <3> QED
      BY <3>4 DEF s
  <2>2. CASE p = "second"
    <3>1. s = <<PpidLine("Ded is my parent"), Fork("third"), Line("created Syn"),
               Exit>>
      BY <1>3, <2>2 DEF Script, three
    <3> HIDE DEF s
    <3>2. /\ Len(s) = 4 /\ n \in 1 .. 4
          /\ s[1].op = "ppid" /\ s[1].line \in Lines \ {"collected"}
          /\ s[2].op = "fork" /\ s[2].child = "third"
          /\ s[3].op = "print" /\ s[3].line \in Lines \ {"collected"}
          /\ s[4].op = "exit"
      BY <1>0, <3>1 DEF Lines, Line, PpidLine, Sleep, Wait, Exit, Fork
    <3>3. /\ s[1].line \in Vocabulary(program)
          /\ Speaker(program, s[1].line) = p /\ Place(program, s[1].line) = 1
          /\ s[3].line \in Vocabulary(program)
          /\ Speaker(program, s[3].line) = p /\ Place(program, s[3].line) = 3
      BY <1>3, <2>2, <3>1
         DEF Vocabulary, Speaker, Place, Line, PpidLine, Sleep, Wait, Exit, Fork
    <3> HIDE <3>1
    <3>4. StepFacts(p, n, s)
      BY <1>3, <2>2, <3>2, <3>3 DEF StepFacts
    <3> QED
      BY <3>4 DEF s
  <2>3. CASE p = "third"
    <3>1. s = <<Sleep, PpidLine("living Papa"), PpidLine("new parent"), Sleep,
               Line("I end"), Exit>>
      BY <1>3, <2>3 DEF Script, three
    <3> HIDE DEF s
    <3>2. /\ Len(s) = 6 /\ n \in 1 .. 6
          /\ s[1].op = "sleep"
          /\ s[2].op = "ppid" /\ s[2].line \in Lines \ {"collected"}
          /\ s[3].op = "ppid" /\ s[3].line \in Lines \ {"collected"}
          /\ s[4].op = "sleep"
          /\ s[5].op = "print" /\ s[5].line \in Lines \ {"collected"}
          /\ s[6].op = "exit"
      BY <1>0, <3>1 DEF Lines, Line, PpidLine, Sleep, Wait, Exit, Fork
    <3>3. /\ s[2].line \in Vocabulary(program)
          /\ Speaker(program, s[2].line) = p /\ Place(program, s[2].line) = 2
          /\ s[3].line \in Vocabulary(program)
          /\ Speaker(program, s[3].line) = p /\ Place(program, s[3].line) = 3
          /\ s[5].line \in Vocabulary(program)
          /\ Speaker(program, s[5].line) = p /\ Place(program, s[5].line) = 5
      BY <1>3, <2>3, <3>1
         DEF Vocabulary, Speaker, Place, Line, PpidLine, Sleep, Wait, Exit, Fork
    <3> HIDE <3>1
    <3>4. StepFacts(p, n, s)
      BY <1>3, <2>3, <3>2, <3>3 DEF StepFacts
    <3> QED
      BY <3>4 DEF s
  <2> QED
    BY <2>1, <2>2, <2>3
<1> QED
  BY <1>1, <1>2, <1>3 DEF Programs

\* The step a running process is at.
LEMMA AtStep ==
  ASSUME Types, Existing, NEW p \in Proc, life[p] = "running"
  PROVE  pc[p] \in 1 .. Len(Script[p]) /\ StepFacts(p, pc[p], Script[p])
<1>1. pc[p] \in 1 .. Len(Script[p]) /\ program \in Programs
  BY DEF Types, Existing, Programs
<1> QED
  BY <1>1, Steps

\* Every process that is forked has something to do.
LEMMA NotEmpty ==
  ASSUME program \in Programs
  PROVE  /\ Len(Script["second"]) \in Nat /\ Len(Script["second"]) >= 1
         /\ program = "three" => Len(Script["third"]) \in Nat /\ Len(Script["third"]) >= 1
<1> DEFINE s == Script["second"]
           t == Script["third"]
<1>1. CASE program = "zombie"
  <2>1. s = <<Line("becomes a zombie"), Exit>>
    BY <1>1 DEF Script, zombie
  <2> HIDE DEF s
  <2>2. Len(s) = 2
    BY <2>1
  <2> HIDE <2>1
  <2> QED
    BY <1>1, <2>2 DEF s
<1>2. CASE program = "orphan"
  <2>1. s = <<PpidLine("original parent"), Sleep, Line("awake"), PpidLine("new parent"), Sleep, Exit>>
    BY <1>2 DEF Script, orphan
  <2> HIDE DEF s
  <2>2. Len(s) = 6
    BY <2>1
  <2> HIDE <2>1
  <2> QED
    BY <1>2, <2>2 DEF s
<1>3. CASE program = "three"
  <2>1. /\ s = <<PpidLine("Ded is my parent"), Fork("third"), Line("created Syn"), Exit>>
        /\ t = <<Sleep, PpidLine("living Papa"), PpidLine("new parent"), Sleep, Line("I end"), Exit>>
    BY <1>3 DEF Script, three
  <2> HIDE DEF s, t
  <2>2. Len(s) = 4 /\ Len(t) = 6
    BY <2>1
  <2> HIDE <2>1
  <2> QED
    BY <2>2 DEF s, t
<1> QED
  BY <1>1, <1>2, <1>3 DEF Programs

\* The first process has something to do too.
LEMMA FirstNotEmpty ==
  ASSUME program \in Programs
  PROVE  Len(Script["first"]) \in Nat /\ Len(Script["first"]) >= 1
<1> DEFINE s == Script["first"]
<1>1. CASE program = "zombie"
  <2>1. s = <<Fork("second"), Line("sleeps"), Sleep, Exit>>
    BY <1>1 DEF Script, zombie
  <2> HIDE DEF s
  <2>2. Len(s) = 4
    BY <2>1
  <2> HIDE <2>1
  <2> QED
    BY <2>2 DEF s
<1>2. CASE program = "orphan"
  <2>1. s = <<Fork("second"), Line("created a child"), Exit>>
    BY <1>2 DEF Script, orphan
  <2> HIDE DEF s
  <2>2. Len(s) = 3
    BY <2>1
  <2> HIDE <2>1
  <2> QED
    BY <2>2 DEF s
<1>3. CASE program = "three"
  <2>1. s = <<Fork("second"), Line("my child"), Line("I sleep"), Sleep, Wait, Line("collected"), Exit>>
    BY <1>3 DEF Script, three
  <2> HIDE DEF s
  <2>2. Len(s) = 7
    BY <2>1
  <2> HIDE <2>1
  <2> QED
    BY <2>2 DEF s
<1> QED
  BY <1>1, <1>2, <1>3 DEF Programs

\* The list does not change.
LEMMA SameScript == ASSUME program' = program PROVE Script' = Script
BY DEF Script

\* The values of life, and its changes in a step that is no fork(): nobody starts
\* to exist, to run again or comes back.
Steady ==
  /\ life' \in [Proc -> {"none", "running", "zombie", "gone"}]
  /\ \A q \in Proc : /\ life'[q] = "none" <=> life[q] = "none"
                     /\ life[q] = "gone" => life'[q] = "gone"
                     /\ life'[q] = "running" => life[q] = "running"

\* Who forks whom.
LEMMA Forkers ==
  /\ \A p \in Proc : Forker(p) \in Proc /\ Forker(p) # "third" /\ Forker(p) \in {"first", "second"}
  /\ Forker("second") = "first" /\ Forker("third") = "second"
  /\ "first" \in Proc /\ "second" \in Proc /\ "third" \in Proc
  /\ "adopter" \notin Proc /\ "shell" \notin Proc
BY ProcIs DEF Forker

\* A process that ends leaves no child with itself for a parent.
LEMMA EndsTree ==
  ASSUME Types, Existing, Tree, NEW p \in Proc, life[p] = "running", Ends(p)
  PROVE  Steady /\ Tree' /\ parent' \in [Proc -> Proc \cup Outside]
<1>1. Steady
  BY DEF Steady, Ends, Types
<1>2. parent' \in [Proc -> Proc \cup Outside]
  BY ProcIs DEF Ends, Types
<1>3. parent'["first"] = "shell"
  BY ProcIs DEF Ends, Tree, Children
<1>4. ASSUME NEW q \in Child, life'[q] \in {"running", "zombie"}
      PROVE  parent'[q] = IF life'[Forker(q)] = "running" THEN Forker(q) ELSE "adopter"
  <2>0. q \in Proc /\ Forker(q) \in Proc /\ Forker(q) # q
    BY ProcIs, Forkers
  <2>1. life'[p] # "running"
    BY DEF Ends, Types
  <2>2. \A r \in Proc : r # p => life'[r] = life[r]
    BY DEF Ends, Types
  <2>3. CASE q = p
    <3>1. parent[q] = IF life[Forker(q)] = "running" THEN Forker(q) ELSE "adopter"
      BY <2>0, <2>3 DEF Tree
    <3>2. parent[q] # p
      BY <2>0, <2>3, <3>1, Forkers
    <3>3. parent'[q] = parent[q]
      BY <2>0, <3>2 DEF Ends, Children
    <3> QED
      BY <2>0, <2>2, <2>3, <3>1, <3>3
  <2>4. CASE q # p
    <3>1. life[q] \in {"running", "zombie"}
      BY <1>4, <2>0, <2>2, <2>4
    <3>2. parent[q] = IF life[Forker(q)] = "running" THEN Forker(q) ELSE "adopter"
      BY <3>1 DEF Tree
    <3>3. parent'[q] = IF parent[q] = p THEN "adopter" ELSE parent[q]
      BY <2>0, <3>1 DEF Ends, Children
    <3>4. CASE Forker(q) = p
      BY <2>1, <3>2, <3>3, <3>4
    <3>5. CASE Forker(q) # p
      BY <2>0, <2>2, <3>2, <3>3, <3>5, Forkers
    <3> QED
      BY <3>4, <3>5
  <2> QED
    BY <2>3, <2>4
<1> QED
  BY <1>1, <1>2, <1>3, <1>4 DEF Tree

\* A process that has ended is collected.
LEMMA CollectTree ==
  ASSUME Types, Tree, NEW c \in Proc, life[c] = "zombie", life' = [life EXCEPT ![c] = "gone"],
         parent' = parent
  PROVE  Steady /\ Tree'
<1>1. Steady
  BY DEF Steady, Types
<1>2. \A q \in Proc : /\ life'[q] = "running" <=> life[q] = "running"
                      /\ life'[q] \in {"running", "zombie"} => life[q] \in {"running", "zombie"}
  BY DEF Types
<1> QED
  BY <1>1, <1>2, ProcIs, Forkers DEF Tree

\* Who has been told of another parent is not wrong later.
LEMMA SteadyTelling ==
  ASSUME Types, Telling, Steady, told' = told
  PROVE  Telling'
<1>1. \A p \in Child : p \in Proc /\ Forker(p) \in Proc
  BY ProcIs, Forkers
<1>2. \A p \in Child : life'[Forker(p)] = "running" => life[Forker(p)] = "running"
  BY <1>1 DEF Steady
<1>3. \A p \in Child : life'[p] = "none" => life[p] = "none"
  BY <1>1 DEF Steady
<1> QED
  BY <1>2, <1>3 DEF Telling

-----------------------------------------------------------------------------
(* What a step does to one part of the state                               *)

\* A process that does a step of its list other than fork() and exit() is then at
\* the next one.
LEMMA Advancing ==
  ASSUME Types, Existing, Steady, program' = program, NEW p \in Proc, life[p] = "running",
         OneStep(p), Script[p][pc[p]].op \notin {"fork", "exit"}
  PROVE  pc' \in [Proc -> Nat] /\ Existing'
<1>1. pc[p] \in 1 .. Len(Script[p]) /\ StepFacts(p, pc[p], Script[p])
  BY AtStep
<1>2. /\ pc[p] < Len(Script[p])
      /\ ~(p = "first" /\ pc[p] = 1) /\ ~(program = "three" /\ p = "second" /\ pc[p] = 2)
  BY <1>1 DEF StepFacts
<1>3. Script' = Script
  BY SameScript
<1>4. pc \in [Proc -> Nat] /\ pc' = [pc EXCEPT ![p] = @ + 1]
  BY DEF Types, OneStep
<1>5. pc' \in [Proc -> Nat]
  BY <1>4
<1>6. \A q \in Proc : pc'[q] = IF q = p THEN pc[q] + 1 ELSE pc[q]
  BY <1>4
<1>7. \A q \in Proc : life'[q] = "none" <=> life[q] = "none"
  BY DEF Steady
<1>8. life'["first"] # "none"
  BY <1>7, ProcIs DEF Existing
<1>9. life'["second"] = "none" <=> pc'["first"] = 1
  <2>1. pc'["first"] = 1 <=> pc["first"] = 1
    <3>1. pc["first"] \in Nat /\ (p = "first" => pc["first"] >= 2)
      BY <1>1, <1>2, <1>4, ProcIs
    <3> QED
      BY <1>6, <3>1, ProcIs
  <2> QED
    BY <2>1, <1>7, ProcIs DEF Existing
<1>10. life'["third"] = "none" <=> ~(program' = "three" /\ pc'["second"] >= 3)
  <2>1. program = "three" => (pc'["second"] >= 3 <=> pc["second"] >= 3)
    BY <1>2, <1>4, <1>6, ProcIs
  <2> QED
    BY <2>1, <1>7, ProcIs DEF Existing
<1>11. /\ life'["second"] = "none" => pc'["second"] = 1
       /\ life'["third"] = "none" => pc'["third"] = 1
  BY <1>6, <1>7, ProcIs DEF Existing
<1>12. \A q \in Proc : life'[q] = "none" \/ pc'[q] \in 1 .. Len(Script'[q])
  <2>1. ASSUME NEW q \in Proc, life'[q] # "none" PROVE pc'[q] \in 1 .. Len(Script[q])
    <3>1. CASE q = p
      BY <1>1, <1>2, <1>6, <3>1
    <3>2. CASE q # p
      BY <1>6, <1>7, <2>1, <3>2 DEF Existing
    <3> QED
      BY <3>1, <3>2
  <2> QED
    BY <1>3, <2>1
<1> QED
  BY <1>5, <1>8, <1>9, <1>10, <1>11, <1>12 DEF Existing

\* In the other steps that start nobody every process stays where it is.
LEMMA Standing ==
  ASSUME Existing, Steady, program' = program, pc' = pc
  PROVE  Existing'
<1>1. Script' = Script
  BY SameScript
<1> QED
  BY <1>1, ProcIs DEF Existing, Steady

\* A line goes to the output or into a buffer.
LEMMA Putting ==
  ASSUME Types, NEW p \in Proc, NEW line \in Lines, Put(p, line)
  PROVE  /\ out' \in Seq(Lines) /\ buf' \in [Proc -> Seq(Lines)]
         /\ line # "collected" /\ Silent(out) /\ (\A q \in Proc : Silent(buf[q])) =>
              Silent(out') /\ \A q \in Proc : Silent(buf'[q])
<1>1. /\ out \in Seq(Lines) /\ buf \in [Proc -> Seq(Lines)]
      /\ (out' = Append(out, line) /\ buf' = buf)
         \/ (buf' = [buf EXCEPT ![p] = Append(@, line)] /\ out' = out)
  BY DEF Types, Put
<1>2. ASSUME NEW s \in Seq(Lines)
      PROVE  /\ Append(s, line) \in Seq(Lines)
             /\ line # "collected" /\ Silent(s) => Silent(Append(s, line))
  BY DEF Silent
<1>3. CASE out' = Append(out, line) /\ buf' = buf
  BY <1>1, <1>2, <1>3
<1>4. CASE buf' = [buf EXCEPT ![p] = Append(@, line)] /\ out' = out
  <2>1. \A q \in Proc : /\ buf[q] \in Seq(Lines)
                        /\ buf'[q] = IF q = p THEN Append(buf[q], line) ELSE buf[q]
    BY <1>1, <1>4
  <2>2. buf' \in [Proc -> Seq(Lines)]
    BY <1>1, <1>2, <1>4
  <2> QED
    BY <1>1, <1>2, <1>4, <2>1, <2>2
<1> QED
  BY <1>1, <1>3, <1>4

\* A buffer is written when its process exits.
LEMMA Flushing ==
  ASSUME Types, NEW p \in Proc, out' = out \o buf[p], buf' = buf
  PROVE  /\ out' \in Seq(Lines) /\ buf' \in [Proc -> Seq(Lines)]
         /\ Silent(out) /\ (\A q \in Proc : Silent(buf[q])) =>
              Silent(out') /\ \A q \in Proc : Silent(buf'[q])
<1>1. out \in Seq(Lines) /\ buf[p] \in Seq(Lines) /\ buf \in [Proc -> Seq(Lines)]
  BY DEF Types
<1>2. ASSUME NEW s \in Seq(Lines), NEW t \in Seq(Lines)
      PROVE  s \o t \in Seq(Lines) /\ (Silent(s) /\ Silent(t) => Silent(s \o t))
  BY DEF Silent
<1> QED
  BY <1>1, <1>2

\* Nothing about Ded's wait() changes as long as nobody comes back and Ded does
\* not get further than he was.
LEMMA StillWaiting ==
  ASSUME Waiting, Steady, program' = program,
         pc'["first"] >= 6 => pc["first"] >= 6,
         pc'["first"] >= 7 => pc["first"] >= 7,
         pc["first"] >= 7 => pc'["first"] >= 7,
         Silent(out) /\ (\A q \in Proc : Silent(buf[q])) =>
           Silent(out') /\ \A q \in Proc : Silent(buf'[q])
  PROVE  Waiting'
<1>1. life["second"] = "gone" => life'["second"] = "gone"
  BY Forkers DEF Steady
<1>2. /\ program' = "three" /\ pc'["first"] >= 6 => life'["second"] = "gone"
  BY <1>1 DEF Waiting
<1>3. ~(program' = "three" /\ pc'["first"] >= 7) => Silent(out') /\ \A q \in Proc : Silent(buf'[q])
  BY DEF Waiting
<1> QED
  BY <1>2, <1>3 DEF Waiting

\* A step of the list that is no fork() and touches no process but its own.
LEMMA Quiet ==
  ASSUME Types, life' = life
  PROVE  Steady
BY DEF Types, Steady

\* A process prints a line.
LEMMA Printing ==
  ASSUME Types, Existing, Waiting, NEW p \in Proc, life[p] = "running",
         Script[p][pc[p]].op \in {"print", "ppid"}, OneStep(p),
         Put(p, Script[p][pc[p]].line), UNCHANGED <<env, life>>
  PROVE  /\ pc' \in [Proc -> Nat] /\ out' \in Seq(Lines) /\ buf' \in [Proc -> Seq(Lines)]
         /\ Steady /\ Existing' /\ Waiting'
<1> DEFINE n == pc[p]
           step == Script[p][n]
<1>1. StepFacts(p, n, Script[p]) /\ n \in Nat
  BY AtStep DEF Types
<1>2. step.line \in Lines /\ (step.line = "collected" => program = "three" /\ p = "first" /\ n = 6)
  BY <1>1 DEF StepFacts
<1>3. step.op # "wait" /\ step.op \notin {"fork", "exit"}
  OBVIOUS
<1>4. ~(program = "three" /\ p = "first" /\ n = 5)
  BY <1>1, <1>3 DEF StepFacts
<1>5. Steady /\ program' = program
  BY Quiet DEF env
<1>6. pc' \in [Proc -> Nat] /\ Existing'
  BY <1>3, <1>5, Advancing
<1>7. /\ out' \in Seq(Lines) /\ buf' \in [Proc -> Seq(Lines)]
      /\ step.line # "collected" /\ Silent(out) /\ (\A q \in Proc : Silent(buf[q])) =>
           Silent(out') /\ \A q \in Proc : Silent(buf'[q])
  BY <1>2, Putting
<1>8. pc["first"] \in Nat /\ pc'["first"] = IF p = "first" THEN pc["first"] + 1 ELSE pc["first"]
  BY ProcIs DEF Types, OneStep
<1>9. program' = "three" /\ pc'["first"] >= 6 => life'["second"] = "gone"
  <2>1. program = "three" /\ pc'["first"] >= 6 => pc["first"] >= 6
    BY <1>4, <1>8
  <2> QED
    BY <1>5, <2>1 DEF Waiting
<1>10. ~(program' = "three" /\ pc'["first"] >= 7) => Silent(out') /\ \A q \in Proc : Silent(buf'[q])
  <2>1. ~(program = "three" /\ pc'["first"] >= 7) =>
          ~(program = "three" /\ pc["first"] >= 7) /\ step.line # "collected"
    BY <1>2, <1>8
  <2> QED
    BY <1>5, <1>7, <2>1 DEF Waiting
<1> QED
  BY <1>5, <1>6, <1>7, <1>9, <1>10 DEF Waiting

\* A process ends, and writes its buffer or not.
LEMMA Ending ==
  ASSUME IInv, NEW p \in Proc, life[p] = "running", Ends(p),
         out' = out \o buf[p] \/ out' = out, UNCHANGED <<env, pc, buf, told>>,
         killed' \subseteq Proc
  PROVE  IInv'
<1>1. Types /\ Existing /\ Tree /\ Waiting /\ Telling
  BY DEF IInv
<1>2. Steady /\ Tree' /\ parent' \in [Proc -> Proc \cup Outside]
  BY <1>1, EndsTree
<1>3. /\ out' \in Seq(Lines)
      /\ Silent(out) /\ (\A q \in Proc : Silent(buf[q])) =>
           Silent(out') /\ \A q \in Proc : Silent(buf'[q])
  BY <1>1, Flushing DEF Types
<1>4. Types'
  BY <1>1, <1>2, <1>3 DEF Types, env, Steady
<1>5. Existing'
  BY <1>1, <1>2, Standing DEF env
<1>6. Waiting'
  BY <1>1, <1>2, <1>3, StillWaiting DEF env
<1>7. Telling'
  BY <1>1, <1>2, SteadyTelling
<1> QED
  BY <1>2, <1>4, <1>5, <1>6, <1>7 DEF IInv

-----------------------------------------------------------------------------
(* The steps                                                               *)

\* A line.
LEMMA PrintStep == ASSUME IInv, NEW p \in Proc, DoPrint(p) PROVE IInv'
<1>1. Types /\ Existing /\ Tree /\ Waiting /\ Telling
  BY DEF IInv
<1>2. /\ pc' \in [Proc -> Nat] /\ out' \in Seq(Lines) /\ buf' \in [Proc -> Seq(Lines)]
      /\ Steady /\ Existing' /\ Waiting'
  <2>1. /\ life[p] = "running" /\ Script[p][pc[p]].op \in {"print", "ppid"} /\ OneStep(p)
        /\ Put(p, Script[p][pc[p]].line) /\ UNCHANGED <<env, life>>
    BY DEF DoPrint, At
  <2> QED
    BY <1>1, <2>1, Printing
<1>3. Types'
  BY <1>1, <1>2 DEF Types, DoPrint, env
<1>4. Tree'
  BY <1>1 DEF Tree, DoPrint
<1>5. Telling'
  BY <1>1, <1>2, SteadyTelling DEF DoPrint
<1> QED
  BY <1>2, <1>3, <1>4, <1>5 DEF IInv

\* A line with the answer of getppid(): who is told of the adopter has lost its
\* own parent, and whoever had lost it before is told so again.
LEMMA PpidStep == ASSUME IInv, NEW p \in Proc, DoPrintPpid(p) PROVE IInv'
<1>1. Types /\ Existing /\ Tree /\ Waiting /\ Telling
  BY DEF IInv
<1>0. /\ life[p] = "running" /\ Script[p][pc[p]].op = "ppid" /\ OneStep(p)
      /\ Put(p, Script[p][pc[p]].line) /\ UNCHANGED <<env, life>>
      /\ told' = [told EXCEPT ![p] = Append(@, parent[p])]
  BY DEF DoPrintPpid, At
<1>2. /\ pc' \in [Proc -> Nat] /\ out' \in Seq(Lines) /\ buf' \in [Proc -> Seq(Lines)]
      /\ Steady /\ Existing' /\ Waiting'
  BY <1>0, <1>1, Printing
<1>3. /\ parent[p] \in Proc \cup Outside /\ told \in [Proc -> Seq(Proc \cup Outside)]
      /\ told[p] \in Seq(Proc \cup Outside)
  BY <1>1 DEF Types
<1>4. told' \in [Proc -> Seq(Proc \cup Outside)]
  BY <1>0, <1>3
<1>5. Types'
  BY <1>1, <1>2, <1>4 DEF Types, DoPrintPpid, env
<1>6. Tree'
  BY <1>1 DEF Tree, DoPrintPpid
<1>7. p \in Child
  <2>1. StepFacts(p, pc[p], Script[p])
    BY <1>0, <1>1, AtStep
  <2>2. p # "first"
    BY <1>0, <2>1 DEF StepFacts
  <2> QED
    BY <2>2, ProcIs
<1>8. Telling'
  <2>1. told'["first"] = <<>> /\ \A q \in Child : q # p => told'[q] = told[q]
    BY <1>0, <1>1, <1>3, <1>7, ProcIs DEF Telling
  <2>2. \A q \in Child : life'[q] = "none" => told'[q] = <<>>
    BY <1>0, <1>1, <2>1 DEF Telling
  <2>3. \A q \in Child : Forker(q) \in Proc
    BY Forkers, ProcIs
  <2>4. ASSUME NEW q \in Child, NEW k \in 1 .. Len(told'[q]), told'[q][k] = "adopter"
        PROVE  /\ life'[Forker(q)] # "running"
               /\ \A l \in 1 .. Len(told'[q]) : k < l => told'[q][l] = "adopter"
    <3>1. CASE q # p
      BY <1>0, <1>1, <2>1, <2>4, <3>1 DEF Telling
    <3>2. CASE q = p
      <4> DEFINE s == told[p]
      <4>1. s \in Seq(Proc \cup Outside) /\ told'[p] = Append(s, parent[p])
        BY <1>0, <1>3
      <4>2. parent[p] = IF life[Forker(p)] = "running" THEN Forker(p) ELSE "adopter"
        BY <1>0, <1>1, <1>7 DEF Tree
      <4>3. \A i \in 1 .. Len(s) : s[i] = "adopter" =>
              /\ life[Forker(p)] # "running"
              /\ \A l \in 1 .. Len(s) : i < l => s[l] = "adopter"
        BY <1>1, <1>7 DEF Telling
      <4>4. Len(s) \in Nat /\ Len(told'[p]) = Len(s) + 1 /\ told'[p][Len(s) + 1] = parent[p]
            /\ \A i \in 1 .. Len(s) : told'[p][i] = s[i]
        BY <4>1
      <4> HIDE DEF s
      <4>5. life[Forker(p)] # "running"
        <5>1. CASE k \in 1 .. Len(s)
          BY <2>4, <3>2, <4>3, <4>4, <5>1
        <5>2. CASE k = Len(s) + 1
          BY <1>7, <2>4, <3>2, <4>2, <4>4, <5>2, Forkers, ProcIs
        <5> QED
          BY <2>4, <3>2, <4>4, <5>1, <5>2
      <4>6. parent[p] = "adopter"
        BY <4>2, <4>5
      <4>7. ASSUME NEW l \in 1 .. Len(told'[p]), k < l PROVE told'[p][l] = "adopter"
        <5>1. CASE l \in 1 .. Len(s)
          BY <2>4, <3>2, <4>3, <4>4, <4>7, <5>1
        <5>2. CASE l = Len(s) + 1
          BY <4>4, <4>6, <5>2
        <5> QED
          BY <4>4, <4>7, <5>1, <5>2
      <4> QED
        BY <1>0, <3>2, <4>5, <4>7
    <3> QED
      BY <3>1, <3>2
  <2> QED
    BY <2>1, <2>2, <2>4 DEF Telling
<1> QED
  BY <1>2, <1>5, <1>6, <1>8 DEF IInv

\* A sleep.
LEMMA SleepStep == ASSUME IInv, NEW p \in Proc, DoSleep(p) PROVE IInv'
<1>1. Types /\ Existing /\ Tree /\ Waiting /\ Telling
  BY DEF IInv
<1>0. /\ life[p] = "running" /\ Script[p][pc[p]].op = "sleep" /\ OneStep(p)
      /\ UNCHANGED <<env, life, parent, killed, buf, out, told>>
  BY DEF DoSleep, At
<1>2. Steady /\ program' = program
  BY <1>0, <1>1, Quiet DEF env
<1>3. pc' \in [Proc -> Nat] /\ Existing'
  BY <1>0, <1>1, <1>2, Advancing
<1>4. StepFacts(p, pc[p], Script[p])
  BY <1>0, <1>1, AtStep
<1>5. ~(program = "three" /\ p = "first" /\ pc[p] = 5)
  BY <1>0, <1>4 DEF StepFacts
<1>6. pc["first"] \in Nat /\ pc'["first"] = IF p = "first" THEN pc["first"] + 1 ELSE pc["first"]
  BY <1>0, <1>1, ProcIs DEF Types, OneStep
<1>7. Waiting'
  <2>1. program = "three" /\ pc'["first"] >= 6 => pc["first"] >= 6
    BY <1>5, <1>6
  <2>2. ~(program = "three" /\ pc'["first"] >= 7) => ~(program = "three" /\ pc["first"] >= 7)
    BY <1>6
  <2> QED
    BY <1>0, <1>1, <1>2, <2>1, <2>2 DEF Waiting
<1>8. Types'
  BY <1>0, <1>1, <1>3 DEF Types, env
<1>9. Tree'
  BY <1>0, <1>1 DEF Tree
<1>10. Telling'
  BY <1>0, <1>1, <1>2, SteadyTelling
<1> QED
  BY <1>3, <1>7, <1>8, <1>9, <1>10 DEF IInv

\* wait(NULL) in the program `three': it comes back with a child, or because
\* there is none, and Papa is gone either way.
LEMMA WaitStep == ASSUME IInv, NEW p \in Proc, DoWait(p) PROVE IInv'
<1>1. Types /\ Existing /\ Tree /\ Waiting /\ Telling
  BY DEF IInv
<1>0. /\ life[p] = "running" /\ Script[p][pc[p]].op = "wait" /\ OneStep(p)
      /\ UNCHANGED <<env, parent, killed, buf, out, told>>
  BY DEF DoWait, At
<1>2. program = "three" /\ p = "first" /\ pc[p] = 5
  BY <1>0, <1>1, AtStep DEF StepFacts
<1>3. \/ \E c \in Children(p) : life[c] = "zombie" /\ life' = [life EXCEPT ![c] = "gone"]
      \/ Children(p) = {} /\ life' = life
  BY DEF DoWait
<1>4. Steady /\ Tree' /\ life'["second"] = "gone"
  <2>1. life["second"] # "none" /\ life["second"] \in {"none", "running", "zombie", "gone"}
    BY <1>1, <1>2, Forkers DEF Existing, Types
  <2>2. \A c \in Children(p) : c = "second"
    <3> SUFFICES ASSUME NEW c \in Children(p) PROVE c = "second"
      OBVIOUS
    <3>1. c \in Proc /\ life[c] \in {"running", "zombie"} /\ parent[c] = "first"
      BY <1>2 DEF Children
    <3>2. CASE c = "first"
      BY <1>1, <3>1, <3>2 DEF Tree
    <3>3. CASE c = "third"
      BY <1>1, <3>1, <3>3, Forkers, ProcIs DEF Tree
    <3> QED
      BY <3>1, <3>2, <3>3, ProcIs
  <2>3. CASE \E c \in Children(p) : life[c] = "zombie" /\ life' = [life EXCEPT ![c] = "gone"]
    <3>1. life["second"] = "zombie" /\ life' = [life EXCEPT !["second"] = "gone"]
      BY <2>2, <2>3
    <3>2. life'["second"] = "gone"
      BY <1>1, <3>1, Forkers DEF Types
    <3>3. parent' = parent
      BY <1>0
    <3> QED
      BY <1>1, <3>1, <3>2, <3>3, CollectTree, Forkers
  <2>4. CASE Children(p) = {} /\ life' = life
    <3>1. life["second"] \notin {"running", "zombie"}
      <4>1. SUFFICES ASSUME life["second"] \in {"running", "zombie"} PROVE FALSE
        OBVIOUS
      <4>2. parent["second"] = "first"
        BY <1>0, <1>1, <1>2, <4>1, Forkers, ProcIs DEF Tree
      <4> QED
        BY <1>2, <2>4, <4>1, <4>2, Forkers DEF Children
    <3>2. Steady
      BY <1>1, <2>4, Quiet
    <3>3. Tree'
      BY <1>0, <1>1, <2>4 DEF Tree
    <3> QED
      BY <2>1, <2>4, <3>1, <3>2, <3>3
  <2> QED
    BY <1>3, <2>3, <2>4
<1>5. program' = program
  BY <1>0 DEF env
<1>6. pc' \in [Proc -> Nat] /\ Existing'
  <2>1. Script[p][pc[p]].op \notin {"fork", "exit"}
    BY <1>0
  <2> QED
    BY <1>0, <1>1, <1>4, <1>5, <2>1, Advancing
<1>7. pc'["first"] = 6
  BY <1>0, <1>1, <1>2, ProcIs DEF Types, OneStep
<1>8. Waiting'
  <2>1. Silent(out) /\ \A q \in Proc : Silent(buf[q])
    BY <1>1, <1>2 DEF Waiting
  <2> QED
    BY <1>0, <1>4, <2>1 DEF Waiting
<1>9. Types'
  BY <1>0, <1>1, <1>4, <1>6 DEF Types, env, Steady
<1>10. Telling'
  BY <1>0, <1>1, <1>4, SteadyTelling
<1> QED
  BY <1>4, <1>6, <1>8, <1>9, <1>10 DEF IInv

\* The end of a list.
LEMMA ExitStep == ASSUME IInv, NEW p \in Proc, DoExit(p) PROVE IInv'
<1>1. /\ life[p] = "running" /\ Ends(p) /\ out' = out \o buf[p]
      /\ UNCHANGED <<env, pc, buf, told>>
  BY DEF DoExit, At
<1>2. killed' \subseteq Proc
  BY DEF DoExit, IInv, Types
<1> QED
  BY <1>1, <1>2, Ending

\* The end of a process that does not reach the end of its list.
LEMMA KillStep == ASSUME IInv, NEW p \in Proc, Kill(p) PROVE IInv'
<1>1. /\ life[p] = "running" /\ Ends(p) /\ out' = out
      /\ UNCHANGED <<env, pc, buf, told>>
  BY DEF Kill
<1>2. killed' \subseteq Proc
  BY DEF Kill, IInv, Types
<1> QED
  BY <1>1, <1>2, Ending

\* The shell or the adopter collects a process.
LEMMA ReapStep == ASSUME IInv, NEW p \in Proc, Reap(p) PROVE IInv'
<1>1. Types /\ Existing /\ Tree /\ Waiting /\ Telling
  BY DEF IInv
<1>2. Steady /\ Tree'
  BY <1>1, CollectTree DEF Reap
<1>3. Types'
  BY <1>1, <1>2 DEF Types, Reap, env, Steady
<1>4. Existing'
  BY <1>1, <1>2, Standing DEF Reap, env
<1>5. Waiting'
  <2>1. pc' = pc /\ out' = out /\ buf' = buf /\ program' = program
    BY DEF Reap, env
  <2> QED
    BY <1>1, <1>2, <2>1, StillWaiting
<1>6. Telling'
  BY <1>1, <1>2, SteadyTelling DEF Reap
<1> QED
  BY <1>2, <1>3, <1>4, <1>5, <1>6 DEF IInv

\* A process is started, or its parent cannot have one and exits.
LEMMA ForkStep == ASSUME IInv, NEW p \in Proc, DoFork(p) PROVE IInv'
<1>1. Types /\ Existing /\ Tree /\ Waiting /\ Telling
  BY DEF IInv
<1> DEFINE c == Script[p][pc[p]].child
<1>2. CASE out' = out \o buf[p] /\ Ends(p) /\ UNCHANGED <<pc, buf>>
  <2>1. life[p] = "running" /\ UNCHANGED <<env, told>> /\ killed' \subseteq Proc
    BY <1>1 DEF DoFork, At, Types
  <2> QED
    BY <1>2, <2>1, Ending
<1>3. CASE /\ life' = [life EXCEPT ![c] = "running"]
           /\ parent' = [parent EXCEPT ![c] = p]
           /\ buf' = [buf EXCEPT ![c] = buf[p]]
           /\ OneStep(p)
           /\ UNCHANGED out
  <2>1. /\ life[p] = "running" /\ Script[p][pc[p]].op = "fork" /\ UNCHANGED <<env, killed, told>>
    BY DEF DoFork, At
  <2>2. pc[p] \in 1 .. Len(Script[p]) /\ StepFacts(p, pc[p], Script[p])
    BY <1>1, <2>1, AtStep
  <2>3. \/ p = "first" /\ pc[p] = 1 /\ c = "second"
        \/ p = "second" /\ pc[p] = 2 /\ c = "third" /\ program = "three"
    BY <2>1, <2>2 DEF StepFacts
  <2>4. pc[p] < Len(Script[p]) /\ program \in Programs
    BY <1>1, <2>1, <2>2 DEF StepFacts, Types, Programs
  <2> HIDE DEF c
  <2>5. c \in Child /\ c \in Proc /\ p \in Proc /\ c # p /\ life[c] = "none" /\ Forker(c) = p
    <3>1. CASE p = "first" /\ pc[p] = 1 /\ c = "second"
      BY <1>1, <3>1, Forkers, ProcIs DEF Existing
    <3>2. CASE p = "second" /\ pc[p] = 2 /\ c = "third" /\ program = "three"
      BY <1>1, <3>2, Forkers, ProcIs DEF Existing
    <3> QED
      BY <2>3, <3>1, <3>2
  <2>6. /\ life' \in [Proc -> {"none", "running", "zombie", "gone"}]
        /\ parent' \in [Proc -> Proc \cup Outside]
        /\ pc' \in [Proc -> Nat] /\ buf' \in [Proc -> Seq(Lines)]
        /\ \A q \in Proc : /\ life'[q] = IF q = c THEN "running" ELSE life[q]
                           /\ parent'[q] = IF q = c THEN p ELSE parent[q]
                           /\ pc'[q] = IF q = p THEN pc[q] + 1 ELSE pc[q]
                           /\ buf'[q] = IF q = c THEN buf[p] ELSE buf[q]
    BY <1>1, <1>3, <2>5 DEF Types, OneStep
  <2>7. Types'
    BY <1>1, <1>3, <2>1, <2>6 DEF Types, env
  <2>8. Existing'
    <3>1. Script' = Script /\ program' = program
      BY <2>1, SameScript DEF env
    <3>2. life'["first"] # "none"
      BY <1>1, <2>6, Forkers DEF Existing
    <3>3. \A q \in Proc : life'[q] = "none" \/ pc'[q] \in 1 .. Len(Script[q])
      <4> SUFFICES ASSUME NEW q \in Proc, life'[q] # "none" PROVE pc'[q] \in 1 .. Len(Script[q])
        OBVIOUS
      <4>1. CASE q = p
        BY <2>2, <2>4, <2>6, <4>1
      <4>2. CASE q = c
        <5>1. pc[c] = 1 /\ pc'[c] = 1
          <6>1. pc[c] = 1
            BY <1>1, <2>3, <2>5 DEF Existing
          <6> QED
            BY <2>5, <2>6, <6>1
        <5>2. Len(Script[c]) \in Nat /\ Len(Script[c]) >= 1
          BY <2>3, <2>4, NotEmpty
        <5> QED
          BY <4>2, <5>1, <5>2
      <4>3. CASE q # p /\ q # c
        BY <1>1, <2>6, <4>3 DEF Existing
      <4> QED
        BY <4>1, <4>2, <4>3
    <3>4. CASE p = "first" /\ pc[p] = 1 /\ c = "second"
      <4>1. life'["second"] = "running" /\ pc'["first"] = 2 /\ pc'["second"] = 1
        BY <1>1, <2>5, <2>6, <3>4, Forkers DEF Existing
      <4>2. life'["third"] = "none" /\ pc'["third"] = 1
        BY <1>1, <2>5, <2>6, <3>4, Forkers DEF Existing
      <4> QED
        BY <3>1, <3>2, <3>3, <4>1, <4>2 DEF Existing
    <3>5. CASE p = "second" /\ pc[p] = 2 /\ c = "third" /\ program = "three"
      <4>1. life'["third"] = "running" /\ pc'["second"] = 3 /\ pc'["first"] = pc["first"]
            /\ life'["second"] = life["second"] /\ life["second"] # "none"
        BY <2>1, <2>5, <2>6, <3>5, Forkers
      <4> QED
        BY <1>1, <3>1, <3>2, <3>3, <3>5, <4>1 DEF Existing
    <3> QED
      BY <2>3, <3>4, <3>5
  <2>9. Tree'
    <3>1. parent'["first"] = "shell"
      BY <1>1, <2>5, <2>6, ProcIs DEF Tree
    <3>2. ASSUME NEW q \in Child, life'[q] \in {"running", "zombie"}
          PROVE  parent'[q] = IF life'[Forker(q)] = "running" THEN Forker(q) ELSE "adopter"
      <4>1. CASE q = c
        BY <2>1, <2>5, <2>6, <4>1
      <4>2. CASE q # c
        <5>1. q \in Proc /\ Forker(q) \in Proc
          BY ProcIs, Forkers
        <5>2. life[q] \in {"running", "zombie"} /\ parent'[q] = parent[q]
          BY <2>6, <3>2, <4>2, <5>1
        <5>3. life'[Forker(q)] = "running" <=> life[Forker(q)] = "running"
          <6>1. CASE Forker(q) # c
            BY <2>6, <5>1, <6>1
          <6>2. CASE Forker(q) = c
            <7>1. c = "second" /\ q = "third"
              BY <4>2, <6>2, Forkers, ProcIs, <2>5
            <7>2. life["third"] = "none"
              <8>1. pc["second"] = 1
                BY <1>1, <2>5, <7>1 DEF Existing
              <8> QED
                BY <1>1, <8>1 DEF Existing
            <7> QED
              BY <5>2, <7>1, <7>2
          <6> QED
            BY <6>1, <6>2
        <5> QED
          BY <1>1, <5>2, <5>3 DEF Tree
      <4> QED
        BY <4>1, <4>2
    <3> QED
      BY <3>1, <3>2 DEF Tree
  <2>10. Waiting'
    <3>1. pc["first"] \in Nat /\ program' = program
      BY <1>1, <2>1, Forkers DEF Types, env
    <3>2. p = "first" => pc["first"] = 1 /\ pc'["first"] = 2
      BY <2>3, <2>5, <2>6
    <3>3. p # "first" => pc'["first"] = pc["first"]
      BY <2>6, Forkers
    <3>4. life["second"] = "gone" => life'["second"] = "gone"
      BY <2>5, <2>6, Forkers
    <3>5. program' = "three" /\ pc'["first"] >= 6 => life'["second"] = "gone"
      BY <1>1, <3>1, <3>2, <3>3, <3>4 DEF Waiting
    <3>6. ~(program' = "three" /\ pc'["first"] >= 7) => Silent(out') /\ \A q \in Proc : Silent(buf'[q])
      <4>1. ~(program = "three" /\ pc'["first"] >= 7) => ~(program = "three" /\ pc["first"] >= 7)
        BY <3>1, <3>2, <3>3
      <4> QED
        BY <1>1, <1>3, <2>6, <3>1, <4>1 DEF Waiting
    <3> QED
      BY <3>5, <3>6 DEF Waiting
  <2>11. Telling'
    <3>1. told["first"] = <<>> /\ told[c] = <<>> /\ told' = told
      BY <1>1, <2>1, <2>5 DEF Telling
    <3>2. \A q \in Child : life'[q] = "none" => told[q] = <<>>
      <4>1. \A q \in Child : q \in Proc
        BY ProcIs
      <4> QED
        BY <1>1, <2>6, <4>1 DEF Telling
    <3>3. ASSUME NEW q \in Child, NEW k \in 1 .. Len(told[q]), told[q][k] = "adopter"
          PROVE  /\ life'[Forker(q)] # "running"
                 /\ \A l \in 1 .. Len(told[q]) : k < l => told[q][l] = "adopter"
      <4>1. /\ life[Forker(q)] # "running"
            /\ \A l \in 1 .. Len(told[q]) : k < l => told[q][l] = "adopter"
        BY <1>1, <3>3 DEF Telling
      <4>2. Forker(q) # c
        <5>1. SUFFICES ASSUME Forker(q) = c PROVE FALSE
          OBVIOUS
        <5>2. c = "second" /\ q = "third"
          BY <5>1, Forkers, ProcIs, <2>5
        <5>3. pc["second"] = 1 /\ life["third"] = "none"
          BY <1>1, <2>5, <5>2 DEF Existing
        <5>4. told[q] = <<>>
          BY <1>1, <5>2, <5>3 DEF Telling
        <5>5. Len(told[q]) = 0
          BY <5>4
        <5> QED
          BY <3>3, <5>5
      <4>3. Forker(q) \in Proc
        BY Forkers, ProcIs
      <4> QED
        BY <2>6, <4>1, <4>2, <4>3
    <3> QED
      BY <3>1, <3>2, <3>3 DEF Telling
  <2> QED
    BY <2>7, <2>8, <2>9, <2>10, <2>11 DEF IInv
<1> QED
  BY <1>2, <1>3 DEF DoFork

-----------------------------------------------------------------------------
(* The program                                                             *)

\* The shell has started the first process.
LEMMA InitHolds == Init => IInv
<1> SUFFICES ASSUME Init PROVE IInv
  OBVIOUS
<1> USE ProcIs
<1>1. /\ program \in Programs
      /\ pc = [p \in Proc |-> 1]
      /\ life = [p \in Proc |-> IF p = "first" THEN "running" ELSE "none"]
      /\ parent = [p \in Proc |-> "shell"]
      /\ out = <<>> /\ buf = [p \in Proc |-> <<>>] /\ told = [p \in Proc |-> <<>>]
  BY DEF Init, Programs
<1>2. /\ <<>> \in Seq(Lines) /\ <<>> \in Seq(Proc \cup Outside) /\ Len(<<>>) = 0
  OBVIOUS
<1>3. Types
  BY <1>1, <1>2 DEF Init, Types
<1>4. Existing
  <2>1. Len(Script["first"]) \in Nat /\ Len(Script["first"]) >= 1
    BY <1>1, FirstNotEmpty
  <2>2. pc["first"] \in 1 .. Len(Script["first"])
    BY <1>1, <2>1
  <2> QED
    BY <1>1, <2>2 DEF Existing
<1>5. Tree
  BY <1>1, Forkers DEF Tree
<1>6. Waiting
  <2>1. ~(pc["first"] >= 6)
    BY <1>1
  <2>2. Silent(out) /\ \A q \in Proc : Silent(buf[q])
    BY <1>1, <1>2 DEF Silent
  <2> QED
    BY <2>1, <2>2 DEF Waiting
<1>7. Telling
  <2>1. \A p \in Proc : told[p] = <<>> /\ Len(told[p]) = 0
    BY <1>1, <1>2
  <2> QED
    BY <2>1 DEF Telling
<1> QED
  BY <1>3, <1>4, <1>5, <1>6, <1>7 DEF IInv

\* No step breaks it.
LEMMA NextHolds == IInv /\ [Next]_vars => IInv'
<1> SUFFICES ASSUME IInv, [Next]_vars PROVE IInv'
  OBVIOUS
<1>1. CASE Next
  <2>1. PICK p \in Proc : Run(p) \/ Reap(p) \/ Kill(p)
    BY <1>1 DEF Next
  <2>2. CASE DoPrint(p)
    BY <2>2, PrintStep
  <2>3. CASE DoPrintPpid(p)
    BY <2>3, PpidStep
  <2>4. CASE DoSleep(p)
    BY <2>4, SleepStep
  <2>5. CASE DoExit(p)
    BY <2>5, ExitStep
  <2>6. CASE DoFork(p)
    BY <2>6, ForkStep
  <2>7. CASE DoWait(p)
    BY <2>7, WaitStep
  <2>8. CASE Reap(p)
    BY <2>8, ReapStep
  <2>9. CASE Kill(p)
    BY <2>9, KillStep
  <2> QED
    BY <2>1, <2>2, <2>3, <2>4, <2>5, <2>6, <2>7, <2>8, <2>9 DEF Run
<1>2. CASE UNCHANGED vars
  <2>1. UNCHANGED <<program, tty, autoreap, pc, life, parent, killed, buf, out, told>>
    BY <1>2 DEF vars, env
  <2>2. Types' /\ Tree' /\ Waiting' /\ Telling'
    BY <2>1 DEF IInv, Types, Tree, Waiting, Telling, Silent
  <2>3. Existing'
    BY <2>1, SameScript DEF IInv, Existing
  <2> QED
    BY <2>2, <2>3 DEF IInv
<1> QED
  BY <1>1, <1>2

\* The inductive invariant holds from the start on.
THEOREM FamilyInvariance == Spec => []IInv
BY InitHolds, NextHolds, PTL DEF Spec

\* Every running child has its forker for a parent or, once that one has ended,
\* the adopter; "Papa has been collected" is never printed while Papa is there,
\* not even as a zombie; and who is told of another parent has lost its own for
\* good: in all three programs, whoever may be killed (5_part/5.2).
THEOREM TruePrints == Spec => []EndsToldTruly
<1>1. IInv => EndsToldTruly
  <2> SUFFICES ASSUME IInv PROVE EndsToldTruly
    OBVIOUS
  <2>1. Types /\ Existing /\ Tree /\ Waiting /\ Telling
    BY DEF IInv
  <2>2. TypeOK
    <3>1. \A p \in Proc \ {"first"} : life[p] = "running" =>
            parent[p] = IF life[Forker(p)] = "running" THEN Forker(p) ELSE "adopter"
      BY <2>1 DEF Tree, Child
    <3> QED
      BY <2>1, <3>1 DEF TypeOK, Types, Existing, Tree
  <2>3. CollectedTruly
    <3>1. SUFFICES ASSUME ~(program = "three" /\ pc["first"] >= 7)
                   PROVE  /\ ~(\E p \in Proc : \E k \in DOMAIN buf[p] : buf[p][k] = "collected")
                          /\ Written("collected") = {}
      <4>1. pc["first"] \in Nat
        BY <2>1, Forkers DEF Types
      <4>2. program = "three" /\ pc["first"] >= 7 => life["second"] = "gone"
        BY <2>1, <4>1 DEF Waiting
      <4> QED
        BY <4>2, <3>1 DEF CollectedTruly
    <3>2. Silent(out) /\ \A q \in Proc : Silent(buf[q])
      BY <2>1, <3>1 DEF Waiting
    <3>3. DOMAIN out = 1 .. Len(out) /\ \A q \in Proc : DOMAIN buf[q] = 1 .. Len(buf[q])
      BY <2>1 DEF Types
    <3> QED
      BY <3>2, <3>3 DEF Silent, Written
  <2>4. AdoptedForGood
    <3>1. \A p \in Proc : told[p] \in Seq(Proc \cup Outside)
      BY <2>1 DEF Types
    <3>2. \A p \in Proc : DOMAIN told[p] = 1 .. Len(told[p])
      BY <3>1
    <3>3. ASSUME NEW p \in Proc, NEW k \in 1 .. Len(told[p]), told[p][k] = "adopter"
          PROVE  /\ life[Forker(p)] # "running"
                 /\ \A l \in 1 .. Len(told[p]) : k < l => told[p][l] = "adopter"
      <4>1. CASE p = "first"
        <5>1. told[p] = <<>>
          BY <2>1, <4>1 DEF Telling
        <5>2. Len(told[p]) = 0
          BY <5>1
        <5> QED
          BY <3>3, <5>2
      <4>2. CASE p \in Child
        BY <2>1, <3>3, <4>2 DEF Telling
      <4> QED
        BY <4>1, <4>2, ProcIs
    <3> QED
      BY <3>2, <3>3 DEF AdoptedForGood
  <2> QED
    BY <2>2, <2>3, <2>4 DEF EndsToldTruly
<1> QED
  BY <1>1, FamilyInvariance, PTL

\* A child that has ended stays a zombie until its parent waits for it or has
\* ended itself (5.2_d.c:21-33, 5.2_3.c:17): nobody else can collect it before.
THEOREM Zombies == Spec => ZombieStays
<1> DEFINE Stays == \A p \in Proc \ {"first"} :
             life[p] = "zombie" /\ life'[p] = "gone" =>
               life[Forker(p)] # "running" \/ (program = "three" /\ At("first", "wait"))
<1>1. IInv /\ [Next]_vars => Stays
  <2> SUFFICES ASSUME IInv, [Next]_vars, NEW p \in Proc \ {"first"},
                      life[p] = "zombie", life'[p] = "gone"
               PROVE  life[Forker(p)] # "running" \/ (program = "three" /\ At("first", "wait"))
    OBVIOUS
  <2>1. Types /\ Existing /\ Tree /\ p \in Child /\ p \in Proc
    BY DEF IInv, Child
  <2>2. life' # life
    OBVIOUS
  <2>3. PICK q \in Proc : Run(q) \/ Reap(q) \/ Kill(q)
    BY <2>2 DEF Next, vars
  <2>4. ~(life[q] = "running" /\ Ends(q))
    <3>1. ASSUME life[q] = "running", Ends(q) PROVE FALSE
      <4>1. life'[p] = life[p]
        BY <2>1, <3>1 DEF Ends, Types
      <4> QED
        BY <4>1
    <3> QED
      BY <3>1
  <2>5. ~DoFork(q)
    <3>1. SUFFICES ASSUME DoFork(q) PROVE FALSE
      OBVIOUS
    <3>2. life' = [life EXCEPT ![Script[q][pc[q]].child] = "running"]
      BY <2>4, <3>1 DEF DoFork, At
    <3> QED
      BY <2>1, <3>2 DEF Types
  <2>6. DoWait(q) \/ Reap(q)
    BY <2>2, <2>3, <2>4, <2>5 DEF Run, DoPrint, DoPrintPpid, DoSleep, DoExit, Kill, At
  <2>7. CASE DoWait(q)
    <3>1. life[q] = "running" /\ Script[q][pc[q]].op = "wait"
      BY <2>7 DEF DoWait, At
    <3>2. program = "three" /\ q = "first"
      BY <2>1, <3>1, AtStep DEF StepFacts
    <3> QED
      BY <3>1, <3>2 DEF At
  <2>8. CASE Reap(q)
    <3>1. q = p
      BY <2>1, <2>8 DEF Reap, Types
    <3>2. parent[p] \in Outside
      BY <2>8, <3>1 DEF Reap
    <3>3. parent[p] = IF life[Forker(p)] = "running" THEN Forker(p) ELSE "adopter"
      BY <2>1 DEF Tree
    <3> QED
      BY <3>2, <3>3, Forkers, ProcIs
  <2> QED
    BY <2>6, <2>7, <2>8
<1>2. Spec => [][Stays]_vars
  BY <1>1, FamilyInvariance, PTL DEF Spec
<1> QED
  BY <1>2 DEF ZombieStays

-----------------------------------------------------------------------------
(* The lines                                                               *)

\* Whose lines they are.
LEMMA Voices ==
  /\ \A prog, line : Speaker(prog, line) \in Proc /\ Place(prog, line) \in {1, 2, 3, 4, 5, 6}
  /\ Ded # Syn
  /\ \A prog : Speaker(prog, Ded) = "second" /\ Speaker(prog, Syn) = "second"
  /\ \A prog \in Programs : Syn \in Vocabulary(prog) => prog = "three"
  /\ \A line \in Vocabulary("three") :
       Speaker("three", line) = "second" /\ Place("three", line) = 1 => line = Ded
  /\ \A t, prog, line : Early(t, line) => Speaker(prog, line) = "first"
  /\ \A line : Early(TRUE, line) => line = "collected"
<1>1. \A prog, line : Speaker(prog, line) \in Proc
  BY ProcIs, Zenon DEF Speaker
<1>2. \A prog, line : Place(prog, line) \in {1, 2, 3, 4, 5, 6}
  BY Zenon DEF Place
<1>3. Ded # Syn /\ \A prog : Speaker(prog, Ded) = "second" /\ Speaker(prog, Syn) = "second"
  BY DEF Ded, Syn, Speaker
<1>4. \A prog \in Programs : Syn \in Vocabulary(prog) => prog = "three"
  BY DEF Programs, Syn, Vocabulary
<1>5. ASSUME NEW line \in Vocabulary("three"),
             Speaker("three", line) = "second", Place("three", line) = 1
      PROVE  line = Ded
  <2>1. CASE line \in {Ded, Syn}
    <3>1. Place("three", Syn) = 3
      BY Zenon DEF Place, Syn
    <3>2. line # Syn
      BY <1>5, <3>1
    <3> QED
      BY <2>1, <3>2
  <2>2. CASE line \notin {Ded, Syn}
    BY <1>5, <2>2, Zenon DEF Vocabulary, Speaker, Ded, Syn
  <2> QED
    BY <2>1, <2>2
<1>6. \A t, prog, line : Early(t, line) => Speaker(prog, line) = "first"
  BY Zenon DEF Early, Speaker
<1>7. \A line : Early(TRUE, line) => line = "collected"
  BY Zenon DEF Early
<1> QED
  BY <1>1, <1>2, <1>3, <1>4, <1>5, <1>6, <1>7

\* What has been said stays said.
LEMMA SaidLater ==
  ASSUME NEW prog, NEW at \in [Proc -> Nat], NEW at2 \in [Proc -> Nat],
         \A p \in Proc : at2[p] >= at[p]
  PROVE  /\ \A line : Said(prog, at, line) => Said(prog, at2, line)
         /\ \A p, line : Held(prog, at, p, line) => Held(prog, at2, p, line)
<1>1. ASSUME NEW line, Said(prog, at, line) PROVE Said(prog, at2, line)
  <2> DEFINE p == Speaker(prog, line)
             n == Place(prog, line)
  <2>1. p \in Proc /\ n \in {1, 2, 3, 4, 5, 6}
    BY Voices
  <2>2. line \in Vocabulary(prog) /\ at[p] > n
    BY <1>1 DEF Said
  <2> SUFFICES at2[p] > n
    BY <2>2 DEF Said
  <2> HIDE DEF p, n
  <2> QED
    BY <2>1, <2>2
<1> QED
  BY <1>1 DEF Held

\* What has been written stays written for a good reason.
LEMMA KeptLater ==
  ASSUME NEW prog, NEW at \in [Proc -> Nat], NEW at2 \in [Proc -> Nat],
         \A p \in Proc : at2[p] >= at[p], NEW lf, NEW lf2,
         \A p \in Proc : Ended(lf, p) => Ended(lf2, p),
         lf["second"] = "gone" => lf2["second"] = "gone"
  PROVE  \A line : Kept(prog, at, lf, line) => Kept(prog, at2, lf2, line)
BY SaidLater, Voices DEF Kept

\* Writing s after o keeps the order if s has not Papa's last line, or nothing of
\* what must come later is there.
LEMMA OrderKept ==
  ASSUME NEW t, NEW o \in Seq(Lines), NEW s \in Seq(Lines), InOrder(t, o),
         \/ \A k \in 1 .. Len(s) : s[k] # Syn
         \/ (\A k \in 1 .. Len(o) : ~Early(t, o[k])) /\ (\A k \in 1 .. Len(s) : ~Early(t, s[k]))
  PROVE  InOrder(t, o \o s)
<1> SUFFICES ASSUME NEW k \in 1 .. Len(o \o s), NEW l \in 1 .. Len(o \o s),
                    (o \o s)[k] = Syn, Early(t, (o \o s)[l])
             PROVE  k < l
  BY DEF InOrder
<1>1. /\ Len(o) \in Nat /\ Len(s) \in Nat /\ Len(o \o s) = Len(o) + Len(s)
      /\ \A i \in 1 .. Len(o) : (o \o s)[i] = o[i]
      /\ \A i \in 1 .. Len(o \o s) : i > Len(o) =>
           (o \o s)[i] = s[i - Len(o)] /\ i - Len(o) \in 1 .. Len(s)
  OBVIOUS
<1>2. CASE \A i \in 1 .. Len(s) : s[i] # Syn
  <2>1. k <= Len(o)
    BY <1>1, <1>2
  <2>2. CASE l <= Len(o)
    BY <1>1, <2>1, <2>2 DEF InOrder
  <2>3. CASE l > Len(o)
    BY <1>1, <2>1, <2>3
  <2> QED
    BY <1>1, <2>2, <2>3
<1>3. CASE (\A i \in 1 .. Len(o) : ~Early(t, o[i])) /\ (\A i \in 1 .. Len(s) : ~Early(t, s[i]))
  BY <1>1, <1>3
<1> QED
  BY <1>2, <1>3


\* What is written after o.
LEMMA Together ==
  ASSUME NEW o \in Seq(Lines), NEW s \in Seq(Lines)
  PROVE  /\ o \o s \in Seq(Lines) /\ Len(o) \in Nat /\ Len(s) \in Nat
         /\ Len(o \o s) = Len(o) + Len(s)
         /\ \A i \in 1 .. Len(o) : (o \o s)[i] = o[i] /\ i \in 1 .. Len(o \o s)
         /\ \A i \in 1 .. Len(o \o s) : i \notin 1 .. Len(o) =>
              (o \o s)[i] = s[i - Len(o)] /\ i - Len(o) \in 1 .. Len(s)
OBVIOUS

\* A line is there once if it is in one part only.
LEMMA OnceTogether ==
  ASSUME NEW o \in Seq(Lines), NEW s \in Seq(Lines), Distinct(s)
  PROVE  /\ Distinct(o) /\ (\A k \in 1 .. Len(o), l \in 1 .. Len(s) : o[k] # s[l]) => Distinct(o \o s)
         /\ Unrepeated(o) /\ (\A k \in 1 .. Len(o), l \in 1 .. Len(s) : o[k] = s[l] => o[k] = Ded) =>
              Unrepeated(o \o s)
<1> DEFINE w == o \o s
<1>0. /\ Len(o) \in Nat /\ Len(s) \in Nat /\ Len(w) = Len(o) + Len(s)
      /\ \A i \in 1 .. Len(o) : w[i] = o[i]
      /\ \A i \in 1 .. Len(w) : i \notin 1 .. Len(o) =>
           w[i] = s[i - Len(o)] /\ i - Len(o) \in 1 .. Len(s)
  BY Together
<1> HIDE DEF w
<1>1. ASSUME NEW k \in 1 .. Len(w), NEW l \in 1 .. Len(w), w[k] = w[l], k # l
      PROVE  \/ \E i \in 1 .. Len(o), j \in 1 .. Len(o) : i # j /\ o[i] = o[j] /\ o[i] = w[k]
             \/ \E i \in 1 .. Len(o), j \in 1 .. Len(s) : o[i] = s[j] /\ o[i] = w[k]
  <2>1. CASE k \in 1 .. Len(o) /\ l \in 1 .. Len(o)
    BY <1>0, <1>1, <2>1
  <2>2. CASE k \in 1 .. Len(o) /\ l \notin 1 .. Len(o)
    BY <1>0, <1>1, <2>2
  <2>3. CASE k \notin 1 .. Len(o) /\ l \in 1 .. Len(o)
    BY <1>0, <1>1, <2>3
  <2>4. CASE k \notin 1 .. Len(o) /\ l \notin 1 .. Len(o)
    <3>1. k - Len(o) = l - Len(o)
      BY <1>0, <1>1, <2>4 DEF Distinct
    <3> QED
      BY <1>0, <1>1, <3>1
  <2> QED
    BY <2>1, <2>2, <2>3, <2>4
<1>2. ASSUME Distinct(o), \A k \in 1 .. Len(o), l \in 1 .. Len(s) : o[k] # s[l]
      PROVE  Distinct(w)
  BY <1>1, <1>2 DEF Distinct
<1>3. ASSUME Unrepeated(o), \A k \in 1 .. Len(o), l \in 1 .. Len(s) : o[k] = s[l] => o[k] = Ded
      PROVE  Unrepeated(w)
  BY <1>1, <1>3 DEF Unrepeated
<1> QED
  BY <1>2, <1>3 DEF w

\* The places of a line in a sequence.
LEMMA FinitePlaces ==
  ASSUME NEW s \in Seq(Lines), NEW x
  PROVE  IsFiniteSet(Places(s, x)) /\ Cardinality(Places(s, x)) \in Nat
<1>1. Len(s) \in Nat /\ IsFiniteSet(1 .. Len(s))
  BY FS_Interval
<1>2. Places(s, x) \subseteq 1 .. Len(s)
  BY DEF Places
<1> QED
  BY <1>1, <1>2, FS_Subset, FS_CardinalityType

\* Writing s adds at most one place, and none if the line is not in s.
LEMMA PlacesTogether ==
  ASSUME NEW o \in Seq(Lines), NEW s \in Seq(Lines), NEW x, Distinct(s)
  PROVE  /\ Cardinality(Places(o \o s, x)) <= Cardinality(Places(o, x)) + 1
         /\ (\A k \in 1 .. Len(s) : s[k] # x) => Places(o \o s, x) = Places(o, x)
<1> DEFINE w == o \o s
<1>0. /\ Len(o) \in Nat /\ Len(s) \in Nat /\ Len(w) = Len(o) + Len(s) /\ w \in Seq(Lines)
      /\ \A i \in 1 .. Len(o) : w[i] = o[i] /\ i \in 1 .. Len(w)
      /\ \A i \in 1 .. Len(w) : i \notin 1 .. Len(o) =>
           w[i] = s[i - Len(o)] /\ i - Len(o) \in 1 .. Len(s)
  BY Together
<1> HIDE DEF w
<1>1. ASSUME \A k \in 1 .. Len(s) : s[k] # x PROVE Places(w, x) = Places(o, x)
  BY <1>0, <1>1 DEF Places
<1>2. ASSUME NEW j \in 1 .. Len(s), s[j] = x
      PROVE  Places(w, x) \subseteq Places(o, x) \cup {Len(o) + j}
  <2> SUFFICES ASSUME NEW i \in 1 .. Len(w), w[i] = x, i \notin 1 .. Len(o)
               PROVE  i = Len(o) + j
    BY <1>0 DEF Places
  <2>1. s[i - Len(o)] = s[j] /\ i - Len(o) \in 1 .. Len(s)
    BY <1>0, <1>2
  <2>2. i - Len(o) = j
    BY <2>1 DEF Distinct
  <2> QED
    BY <1>0, <2>2
<1>3. IsFiniteSet(Places(o, x)) /\ Cardinality(Places(o, x)) \in Nat
  BY FinitePlaces
<1>4. ASSUME NEW e, Places(w, x) \subseteq Places(o, x) \cup {e}
      PROVE  Cardinality(Places(w, x)) <= Cardinality(Places(o, x)) + 1
  <2> DEFINE T == Places(o, x) \cup {e}
  <2>1. /\ IsFiniteSet(T)
        /\ Cardinality(T) = Cardinality(Places(o, x)) \/ Cardinality(T) = Cardinality(Places(o, x)) + 1
    BY <1>3, FS_AddElement
  <2>2. Cardinality(Places(w, x)) <= Cardinality(T)
    BY <1>4, <2>1, FS_Subset
  <2>3. Cardinality(Places(w, x)) \in Nat
    BY <1>0, FinitePlaces
  <2> HIDE DEF T
  <2> QED
    BY <1>3, <2>1, <2>2, <2>3
<1>5. Cardinality(Places(w, x)) <= Cardinality(Places(o, x)) + 1
  <2>1. CASE \A k \in 1 .. Len(s) : s[k] # x
    BY <1>1, <1>3, <2>1
  <2>2. CASE \E k \in 1 .. Len(s) : s[k] = x
    BY <1>2, <1>4, <2>2
  <2> QED
    BY <2>1, <2>2
<1> QED
  BY <1>1, <1>5 DEF w

\* In every step processes go on, and who has ended has ended.
Later ==
  /\ program' = program /\ tty' = tty
  /\ pc' \in [Proc -> Nat] /\ \A p \in Proc : pc'[p] >= pc[p]
  /\ \A p \in Proc : Ended(life, p) => Ended(life', p)
  /\ life["second"] = "gone" => life'["second"] = "gone"

\* What was true of the lines written and held stays true.
LEMMA LinesLater ==
  ASSUME Types, LInv, Later
  PROVE  /\ tty => \A k \in 1 .. Len(out) : Said(program, pc', out[k])
         /\ ~tty => \A k \in 1 .. Len(out) : Kept(program, pc', life', out[k])
         /\ ~tty => \A p \in Proc : \A k \in 1 .. Len(buf[p]) : Held(program, pc', p, buf[p][k])
         /\ \A p \in Proc : Copies(life, p) <= Copies(life', p) /\ Copies(life', p) \in {0, 1}
                            /\ Copies(life, p) \in {0, 1}
<1>1. /\ pc \in [Proc -> Nat] /\ pc' \in [Proc -> Nat] /\ \A p \in Proc : pc'[p] >= pc[p]
      /\ \A p \in Proc : Ended(life, p) => Ended(life', p)
      /\ life["second"] = "gone" => life'["second"] = "gone"
  BY DEF Types, Later
<1>2. \A line : Said(program, pc, line) => Said(program, pc', line)
  BY <1>1, SaidLater
<1>3. \A p, line : Held(program, pc, p, line) => Held(program, pc', p, line)
  BY <1>1, SaidLater
<1>4. \A line : Kept(program, pc, life, line) => Kept(program, pc', life', line)
  BY <1>1, KeptLater
<1>5. tty => \A k \in 1 .. Len(out) : Said(program, pc', out[k])
  BY <1>2 DEF LInv, OnTerminal
<1>6. ~tty => \A k \in 1 .. Len(out) : Kept(program, pc', life', out[k])
  BY <1>4 DEF LInv, InFile
<1>7. ~tty => \A p \in Proc : \A k \in 1 .. Len(buf[p]) : Held(program, pc', p, buf[p][k])
  BY <1>3 DEF LInv, InBuffer
<1>8. \A p \in Proc : Copies(life, p) <= Copies(life', p) /\ Copies(life', p) \in {0, 1}
                      /\ Copies(life, p) \in {0, 1}
  BY <1>1 DEF Copies
<1> QED
  BY <1>5, <1>6, <1>7, <1>8

\* A step that writes nothing.
LEMMA NothingWritten ==
  ASSUME Types, LInv, Later, out' = out
  PROVE  /\ InFile' /\ DedTwice' /\ InOrder(tty, out)'
         /\ tty => Distinct(out) /\ \A k \in 1 .. Len(out) : Said(program, pc', out[k])
         /\ buf' = buf => LInv'
<1>0. program' = program /\ tty' = tty
  BY DEF Later
<1>1. InFile'
  BY <1>0, LinesLater DEF LInv, InFile
<1>2. DedTwice'
  <2>1. Cardinality(Places(out, Ded)) \in Nat
    BY FinitePlaces DEF Types
  <2>2. /\ Copies(life, "second") <= Copies(life', "second")
        /\ Copies(life, "third") <= Copies(life', "third")
        /\ {Copies(life, "second"), Copies(life, "third"),
            Copies(life', "second"), Copies(life', "third")} \subseteq {0, 1}
    BY LinesLater, Forkers
  <2>3. ~tty => Cardinality(Places(out, Ded)) <= Copies(life, "second") + Copies(life, "third")
    BY DEF LInv, DedTwice
  <2>4. ~tty => Cardinality(Places(out, Ded)) <= Copies(life', "second") + Copies(life', "third")
    BY <2>1, <2>2, <2>3
  <2> QED
    BY <1>0, <2>4 DEF DedTwice
<1>3. InOrder(tty, out)'
  BY <1>0 DEF LInv
<1>4. tty => Distinct(out) /\ \A k \in 1 .. Len(out) : Said(program, pc', out[k])
  BY LinesLater DEF LInv, OnTerminal
<1>5. ASSUME buf' = buf PROVE OnTerminal' /\ InBuffer'
  <2>1. OnTerminal'
    BY <1>0, <1>4, <1>5 DEF LInv, OnTerminal
  <2>2. InBuffer'
    BY <1>0, <1>5, LinesLater DEF LInv, InBuffer
  <2> QED
    BY <2>1, <2>2
<1> QED
  BY <1>1, <1>2, <1>3, <1>4, <1>5 DEF LInv

\* A sequence of one line.
LEMMA OneLine ==
  ASSUME NEW o \in Seq(Lines), NEW line \in Lines
  PROVE  /\ <<line>> \in Seq(Lines) /\ Append(o, line) = o \o <<line>>
         /\ \A k \in 1 .. Len(<<line>>) : <<line>>[k] = line
         /\ Distinct(o) /\ (\A k \in 1 .. Len(o) : o[k] # line) => Distinct(Append(o, line))
<1>1. /\ <<line>> \in Seq(Lines) /\ Append(o, line) = o \o <<line>>
      /\ Len(<<line>>) = 1 /\ <<line>>[1] = line
  OBVIOUS
<1> DEFINE s == <<line>>
<1> HIDE DEF s
<1>2. \A k \in 1 .. Len(s) : k = 1 /\ s[k] = line
  BY <1>1 DEF s
<1>3. Distinct(s)
  BY <1>2 DEF Distinct
<1> QED
  BY <1>1, <1>2, <1>3, OnceTogether DEF s

\* A line is said: written at once, or kept.
LEMMA LinePut ==
  ASSUME Types, Existing, Waiting, LInv, NEW p \in Proc, life[p] = "running",
         Script[p][pc[p]].op \in {"print", "ppid"}, OneStep(p),
         Put(p, Script[p][pc[p]].line), UNCHANGED <<env, life>>
  PROVE  LInv'
<1> DEFINE n == pc[p]
           line == Script[p][n].line
<1>1. StepFacts(p, n, Script[p]) /\ n \in Nat
  BY AtStep DEF Types
<1>2. /\ line \in Lines /\ line \in Vocabulary(program)
      /\ Speaker(program, line) = p /\ Place(program, line) = n
  BY <1>1 DEF StepFacts
<1>3. Put(p, line) /\ program \in Programs
  BY DEF Types, Programs
<1> HIDE DEF line
<1>4. /\ pc' \in [Proc -> Nat] /\ pc'[p] = n + 1 /\ \A q \in Proc : pc'[q] >= pc[q]
  BY DEF Types, OneStep
<1>5. Later /\ life' = life /\ program' = program /\ tty' = tty
  BY <1>4 DEF Later, env
<1>6. ~Said(program, pc, line) /\ Said(program, pc', line)
  BY <1>1, <1>2, <1>4 DEF Said
<1>7. CASE tty
  <2>1. out' = Append(out, line) /\ buf' = buf
    BY <1>3, <1>7 DEF Put
  <2>2. /\ <<line>> \in Seq(Lines) /\ out \in Seq(Lines) /\ out' = out \o <<line>>
    BY <1>2, <2>1, OneLine DEF Types
  <2>3. OnTerminal'
    <3>1. \A k \in 1 .. Len(out) : out[k] # line
      BY <1>6, <1>7 DEF LInv, OnTerminal
    <3>2. Distinct(out')
      BY <1>2, <1>7, <2>1, <2>2, <3>1, OneLine DEF LInv, OnTerminal
    <3>3. \A k \in 1 .. Len(out') : Said(program, pc', out'[k])
      BY <1>5, <1>6, <1>7, <2>1, <2>2, LinesLater
    <3> QED
      BY <1>5, <1>7, <2>1, <3>2, <3>3 DEF LInv, OnTerminal
  <2>4. InOrder(tty, out)'
    <3>1. CASE line # Syn
      <4>1. \A k \in 1 .. Len(<<line>>) : <<line>>[k] # Syn
        BY <1>2, <2>2, <3>1, OneLine
      <4> QED
        BY <1>5, <2>2, <4>1, OrderKept DEF LInv
    <3>2. CASE line = Syn
      <4>1. p = "second" /\ program = "three"
        BY <1>2, <1>3, <3>2, Voices
      <4>2. Silent(out)
        <5>1. pc["first"] \in Nat /\ ~(pc["first"] >= 6)
          BY <4>1, Forkers DEF Types, Waiting
        <5> QED
          BY <5>1 DEF Waiting
      <4>3. \A k \in 1 .. Len(out) : ~Early(TRUE, out[k])
        BY <4>2, Voices DEF Silent
      <4>4. ~Early(TRUE, line)
        <5>1. Speaker(program, line) # "first"
          BY <1>2, <4>1
        <5> QED
          BY <5>1, Voices
      <4>5. \A k \in 1 .. Len(<<line>>) : ~Early(TRUE, <<line>>[k])
        BY <1>2, <2>2, <4>4, OneLine
      <4> QED
        BY <1>5, <1>7, <2>2, <4>3, <4>5, OrderKept DEF LInv
    <3> QED
      BY <3>1, <3>2
  <2>5. InBuffer' /\ InFile' /\ DedTwice'
    BY <1>5, <1>7 DEF InBuffer, InFile, DedTwice
  <2> QED
    BY <2>3, <2>4, <2>5 DEF LInv
<1>8. CASE ~tty
  <2>1. out' = out /\ buf' = [buf EXCEPT ![p] = Append(@, line)]
    BY <1>3, <1>8 DEF Put
  <2>2. InFile' /\ DedTwice' /\ InOrder(tty, out)'
    BY <1>5, <2>1, NothingWritten
  <2>3. OnTerminal'
    BY <1>5, <1>8 DEF OnTerminal
  <2>4. InBuffer'
    <3>1. /\ buf[p] \in Seq(Lines) /\ buf'[p] = Append(buf[p], line)
          /\ \A q \in Proc : q # p => buf'[q] = buf[q]
      BY <2>1 DEF Types
    <3>3. /\ Distinct(buf[p])
          /\ \A k \in 1 .. Len(buf[p]) : Held(program, pc, p, buf[p][k])
      BY <1>8 DEF LInv, InBuffer
    <3>4. \A k \in 1 .. Len(buf[p]) : buf[p][k] # line
      BY <1>6, <3>3 DEF Held
    <3>5. Distinct(buf'[p])
      BY <1>2, <3>1, <3>3, <3>4, OneLine
    <3>6. \A q \in Proc : \A k \in 1 .. Len(buf[q]) : Held(program, pc', q, buf[q][k])
      BY <1>5, <1>8, LinesLater
    <3>7. Held(program, pc', p, line)
      BY <1>2, <1>6 DEF Held
    <3>8. \A k \in 1 .. Len(buf'[p]) : Held(program, pc', p, buf'[p][k])
      BY <3>1, <3>6, <3>7
    <3>9. \A q \in Proc : q # p =>
            Distinct(buf'[q]) /\ \A k \in 1 .. Len(buf'[q]) : Held(program, pc', q, buf'[q][k])
      BY <1>8, <3>1, <3>6 DEF LInv, InBuffer
    <3>10. \A q \in Proc :
            Distinct(buf'[q]) /\ \A k \in 1 .. Len(buf'[q]) : Held(program, pc', q, buf'[q][k])
      BY <3>5, <3>8, <3>9
    <3> QED
      BY <1>5, <3>10 DEF InBuffer
  <2> QED
    BY <2>2, <2>3, <2>4 DEF LInv
<1> QED
  BY <1>7, <1>8

\* A process ends and its buffer is written.
LEMMA BufferWritten ==
  ASSUME Types, LInv, Later, NEW p \in Proc, life[p] = "running", Ended(life', p),
         out' = out \o buf[p], buf' = buf,
         program = "three" /\ p = "first" => life["second"] = "gone" \/ buf[p] = <<>>
  PROVE  LInv'
<1> DEFINE s == buf[p]
<1>1. out \in Seq(Lines) /\ s \in Seq(Lines) /\ program \in Programs
  BY DEF Types, Programs
<1>2. program' = program /\ tty' = tty
  BY DEF Later
<1>3. CASE tty
  <2>1. s = <<>>
    BY <1>3 DEF LInv, OnTerminal
  <2>2. out' = out
    BY <1>1, <2>1
  <2> QED
    BY <2>2, NothingWritten
<1>4. CASE ~tty
  <2>1. /\ Distinct(s) /\ \A k \in 1 .. Len(s) : Held(program, pc, p, s[k])
        /\ Unrepeated(out) /\ \A k \in 1 .. Len(out) : Kept(program, pc, life, out[k])
    BY <1>4 DEF LInv, InBuffer, InFile
  <2>2. /\ \A k \in 1 .. Len(s) : Held(program, pc', p, s[k])
        /\ \A k \in 1 .. Len(out) : Kept(program, pc', life', out[k])
    BY <1>4, LinesLater
  <2>3. \A k \in 1 .. Len(s) : p = "first" => Speaker(program, s[k]) = "first"
    BY <2>1, ProcIs DEF Held
  <2>4. InBuffer' /\ OnTerminal'
    BY <1>2, <1>4, LinesLater DEF LInv, InBuffer, OnTerminal
  <2> HIDE DEF s
  <2>5. \A k \in 1 .. Len(s) : Kept(program, pc', life', s[k])
    <3> SUFFICES ASSUME NEW k \in 1 .. Len(s) PROVE Kept(program, pc', life', s[k])
      OBVIOUS
    <3>1. Said(program, pc', s[k]) /\ (s[k] # Ded => Ended(life', Speaker(program, s[k])))
      BY <2>2 DEF Held
    <3>2. ASSUME program = "three", Speaker(program, s[k]) = "first"
          PROVE  life'["second"] = "gone"
      <4>1. p = "first"
        BY <2>1, <3>2, Voices DEF Held
      <4>2. s # <<>>
        BY <1>1
      <4> QED
        BY <3>2, <4>1, <4>2 DEF Later, s
    <3> QED
      BY <3>1, <3>2 DEF Kept
  <2>6. InFile'
    <3>1. \A k \in 1 .. Len(out), l \in 1 .. Len(s) : out[k] = s[l] => out[k] = Ded
      <4> SUFFICES ASSUME NEW k \in 1 .. Len(out), NEW l \in 1 .. Len(s), out[k] = s[l], out[k] # Ded
                   PROVE  FALSE
        OBVIOUS
      <4>1. Speaker(program, out[k]) = p
        BY <2>1 DEF Held
      <4>2. Ended(life, p)
        BY <2>1, <4>1 DEF Kept
      <4> QED
        BY <4>2 DEF Ended
    <3>2. Unrepeated(out \o s)
      BY <1>1, <2>1, <3>1, OnceTogether
    <3>3. \A k \in 1 .. Len(out \o s) : Kept(program, pc', life', (out \o s)[k])
      <4> SUFFICES ASSUME NEW k \in 1 .. Len(out \o s)
                   PROVE  Kept(program, pc', life', (out \o s)[k])
        OBVIOUS
      <4>1. CASE k \in 1 .. Len(out)
        BY <1>1, <2>2, <4>1, Together
      <4>2. CASE k \notin 1 .. Len(out)
        BY <1>1, <2>5, <4>2, Together
      <4> QED
        BY <4>1, <4>2
    <3> QED
      BY <1>2, <3>2, <3>3 DEF InFile, s
  <2>7. DedTwice'
    <3>1. /\ Cardinality(Places(out, Ded)) \in Nat /\ Cardinality(Places(out \o s, Ded)) \in Nat
          /\ Cardinality(Places(out \o s, Ded)) <= Cardinality(Places(out, Ded)) + 1
      BY <1>1, <2>1, Together, FinitePlaces, PlacesTogether
    <3>2. Cardinality(Places(out, Ded)) <= Copies(life, "second") + Copies(life, "third")
      BY <1>4 DEF LInv, DedTwice
    <3>3. /\ Copies(life, "second") <= Copies(life', "second")
          /\ Copies(life, "third") <= Copies(life', "third")
          /\ {Copies(life, "second"), Copies(life, "third"),
              Copies(life', "second"), Copies(life', "third")} \subseteq {0, 1}
      BY LinesLater, Forkers
    <3>4. Cardinality(Places(out \o s, Ded)) <= Copies(life', "second") + Copies(life', "third")
      <4>1. CASE p = "first"
        <5>1. \A k \in 1 .. Len(s) : s[k] # Ded
          BY <2>3, <4>1, Voices
        <5>2. Places(out \o s, Ded) = Places(out, Ded)
          BY <1>1, <2>1, <5>1, PlacesTogether
        <5> QED
          BY <3>1, <3>2, <3>3, <5>2
      <4>2. CASE p # "first"
        <5>1. p \in {"second", "third"} /\ Copies(life, p) = 0 /\ Copies(life', p) = 1
          BY <4>2, ProcIs DEF Copies, Ended
        <5> QED
          BY <3>1, <3>2, <3>3, <5>1
      <4> QED
        BY <4>1, <4>2
    <3> QED
      BY <1>2, <3>4 DEF DedTwice, s
  <2>8. InOrder(tty, out)'
    <3>1. \/ \A k \in 1 .. Len(s) : s[k] # Syn
          \/ (\A k \in 1 .. Len(out) : ~Early(tty, out[k])) /\ (\A k \in 1 .. Len(s) : ~Early(tty, s[k]))
      <4> SUFFICES ASSUME NEW j \in 1 .. Len(s), s[j] = Syn
                   PROVE  /\ \A k \in 1 .. Len(out) : ~Early(tty, out[k])
                          /\ \A k \in 1 .. Len(s) : ~Early(tty, s[k])
        OBVIOUS
      <4>1. p = "second" /\ program = "three"
        BY <1>1, <2>1, Voices DEF Held, Said
      <4>2. \A k \in 1 .. Len(s) : Speaker(program, s[k]) = "second"
        BY <2>1, <4>1 DEF Held
      <4>3. \A k \in 1 .. Len(out) : Speaker(program, out[k]) # "first"
        BY <2>1, <4>1 DEF Kept
      <4> QED
        BY <4>2, <4>3, Voices
    <3>2. InOrder(tty, out)
      BY DEF LInv
    <3> QED
      BY <1>1, <1>2, <3>1, <3>2, OrderKept DEF s
  <2> QED
    BY <2>4, <2>6, <2>7, <2>8 DEF LInv
<1> QED
  BY <1>3, <1>4

\* What has a parent said when it forks?  Nothing, or what its child will say too.
LEMMA Forked ==
  ASSUME IInv, LInv, NEW p \in Proc, life[p] = "running", Script[p][pc[p]].op = "fork", ~tty,
         NEW k \in 1 .. Len(buf[p])
  PROVE  p = "second" /\ program = "three" /\ buf[p][k] = Ded /\ Said(program, pc, Ded)
<1>1. Held(program, pc, p, buf[p][k]) /\ Types /\ Existing
  BY DEF LInv, InBuffer, IInv
<1>2. StepFacts(p, pc[p], Script[p])
  BY <1>1, AtStep
<1>3. (p = "first" /\ pc[p] = 1) \/ (program = "three" /\ p = "second" /\ pc[p] = 2)
  BY <1>2 DEF StepFacts
<1>4. Speaker(program, buf[p][k]) = p /\ Said(program, pc, buf[p][k])
  BY <1>1, <1>3 DEF Held
<1>5. Place(program, buf[p][k]) \in {1, 2, 3, 4, 5, 6}
  BY Voices
<1>6. pc[p] > Place(program, buf[p][k]) /\ buf[p][k] \in Vocabulary(program)
  BY <1>4 DEF Said
<1>7. pc[p] = 2 /\ Place(program, buf[p][k]) = 1
  BY <1>3, <1>5, <1>6
<1>8. program = "three" /\ p = "second"
  BY <1>3, <1>7
<1> QED
  BY <1>4, <1>6, <1>7, <1>8, Voices

\* The steps in which nobody starts.
LEMMA SteadyLater ==
  ASSUME Types, Steady, UNCHANGED env,
         pc' = pc \/ \E p \in Proc : OneStep(p)
  PROVE  Later
<1>1. pc' \in [Proc -> Nat] /\ \A p \in Proc : pc'[p] >= pc[p]
  <2>1. pc \in [Proc -> Nat]
    BY DEF Types
  <2>2. CASE pc' = pc
    BY <2>1, <2>2
  <2>3. ASSUME NEW p \in Proc, OneStep(p)
        PROVE  pc' \in [Proc -> Nat] /\ \A q \in Proc : pc'[q] >= pc[q]
    BY <2>1, <2>3 DEF OneStep
  <2> QED
    BY <2>2, <2>3
<1>2. \A p \in Proc : Ended(life, p) => Ended(life', p)
  BY DEF Types, Steady, Ended
<1>3. life["second"] = "gone" => life'["second"] = "gone"
  BY Forkers DEF Steady
<1> QED
  BY <1>1, <1>2, <1>3 DEF Later, env

\* A process ends, and writes its buffer or not.
LEMMA EndingLines ==
  ASSUME IInv, LInv, NEW p \in Proc, life[p] = "running", Ends(p), UNCHANGED <<env, pc, buf>>,
         \/ out' = out
         \/ out' = out \o buf[p] /\ Script[p][pc[p]].op \in {"exit", "fork"}
  PROVE  LInv'
<1>1. Types /\ Existing /\ Tree /\ Waiting
  BY DEF IInv
<1>2. Steady /\ Ended(life', p)
  BY <1>1, EndsTree DEF Ends, Types, Ended
<1>3. Later
  BY <1>1, <1>2, SteadyLater
<1>4. CASE out' = out
  BY <1>1, <1>3, <1>4, NothingWritten
<1>5. CASE out' = out \o buf[p] /\ Script[p][pc[p]].op \in {"exit", "fork"}
  <2>1. program = "three" /\ p = "first" => life["second"] = "gone" \/ buf[p] = <<>>
    <3>1. ASSUME program = "three", p = "first", Script[p][pc[p]].op = "exit"
          PROVE  life["second"] = "gone"
      <4>1. pc["first"] = 7
        BY <1>1, <3>1, AtStep DEF StepFacts
      <4> QED
        BY <1>1, <3>1, <4>1 DEF Waiting
    <3>2. ASSUME p = "first", Script[p][pc[p]].op = "fork"
          PROVE  buf[p] = <<>>
      <4>1. CASE tty
        BY <4>1 DEF LInv, OnTerminal
      <4>2. CASE ~tty
        <5>1. 1 .. Len(buf[p]) = {}
          BY <3>2, <4>2, Forked
        <5>2. buf[p] \in Seq(Lines)
          BY <1>1 DEF Types
        <5>3. Len(buf[p]) = 0
          <6>1. Len(buf[p]) \in Nat /\ 1 \notin 1 .. Len(buf[p])
            BY <5>1, <5>2
          <6> QED
            BY <6>1
        <5> QED
          BY <5>2, <5>3
      <4> QED
        BY <4>1, <4>2
    <3> QED
      BY <1>5, <3>1, <3>2
  <2> QED
    BY <1>1, <1>2, <1>3, <1>5, <2>1, BufferWritten
<1> QED
  BY <1>4, <1>5

\* The child starts with what its parent has in its buffer.
LEMMA StartingLines ==
  ASSUME IInv, IInv', LInv, NEW p \in Proc, NEW c \in Proc, At(p, "fork"),
         c = Script[p][pc[p]].child,
         life' = [life EXCEPT ![c] = "running"], buf' = [buf EXCEPT ![c] = buf[p]],
         OneStep(p), out' = out, UNCHANGED env
  PROVE  LInv'
<1>1. Types /\ Existing /\ Types' /\ life[p] = "running" /\ Script[p][pc[p]].op = "fork"
  BY DEF IInv, At
<1>2. StepFacts(p, pc[p], Script[p])
  BY <1>1, AtStep
<1>3. \/ p = "first" /\ pc[p] = 1 /\ c = "second"
      \/ p = "second" /\ pc[p] = 2 /\ c = "third" /\ program = "three"
  BY <1>1, <1>2 DEF StepFacts
<1>4. life[c] = "none"
  BY <1>1, <1>3 DEF Existing
<1>5. Later
  <2>1. pc' \in [Proc -> Nat] /\ \A q \in Proc : pc'[q] >= pc[q]
    BY <1>1 DEF Types, OneStep
  <2>2. \A q \in Proc : Ended(life, q) => Ended(life', q)
    BY <1>1, <1>4 DEF Types, Ended
  <2>3. life["second"] = "gone" => life'["second"] = "gone"
    BY <1>1, <1>4, Forkers DEF Types
  <2> QED
    BY <2>1, <2>2, <2>3 DEF Later, env
<1>6. /\ InFile' /\ DedTwice' /\ InOrder(tty, out)'
      /\ tty => Distinct(out) /\ \A k \in 1 .. Len(out) : Said(program, pc', out[k])
  BY <1>1, <1>5, NothingWritten
<1>7. program' = program /\ tty' = tty /\ \A q \in Proc : buf'[q] = IF q = c THEN buf[p] ELSE buf[q]
  BY <1>1 DEF Types, env
<1>8. OnTerminal'
  BY <1>6, <1>7 DEF LInv, OnTerminal
<1>9. InBuffer'
  <2> SUFFICES ASSUME ~tty
               PROVE  \A q \in Proc : /\ Distinct(buf'[q])
                                      /\ \A k \in 1 .. Len(buf'[q]) : Held(program, pc', q, buf'[q][k])
    BY <1>7 DEF InBuffer
  <2>1. \A q \in Proc : \A k \in 1 .. Len(buf[q]) : Held(program, pc', q, buf[q][k])
    BY <1>1, <1>5, LinesLater
  <2>2. \A q \in Proc : Distinct(buf[q])
    BY DEF LInv, InBuffer
  <2>3. \A k \in 1 .. Len(buf[p]) : Held(program, pc', c, buf[p][k])
    <3> SUFFICES ASSUME NEW k \in 1 .. Len(buf[p]) PROVE Held(program, pc', c, buf[p][k])
      OBVIOUS
    <3>1. p = "second" /\ buf[p][k] = Ded
      BY <1>1, Forked
    <3>2. c = "third"
      BY <1>3, <3>1
    <3> QED
      BY <2>1, <3>1, <3>2 DEF Held
  <2> QED
    BY <1>7, <2>1, <2>2, <2>3
<1> QED
  BY <1>6, <1>8, <1>9 DEF LInv

\* No step breaks what is known of the lines.
LEMMA LinesNext == IInv /\ IInv' /\ LInv /\ [Next]_vars => LInv'
<1> SUFFICES ASSUME IInv, IInv', LInv, [Next]_vars PROVE LInv'
  OBVIOUS
<1>0. Types /\ Existing /\ Tree /\ Waiting
  BY DEF IInv
<1>1. ASSUME Steady, UNCHANGED <<env, buf, out>>, pc' = pc \/ \E p \in Proc : OneStep(p)
      PROVE  LInv'
  BY <1>0, <1>1, SteadyLater, NothingWritten
<1>2. CASE Next
  <2>1. PICK p \in Proc : Run(p) \/ Reap(p) \/ Kill(p)
    BY <1>2 DEF Next
  <2>2. CASE DoPrint(p)
    <3>1. /\ life[p] = "running" /\ Script[p][pc[p]].op \in {"print", "ppid"} /\ OneStep(p)
          /\ Put(p, Script[p][pc[p]].line) /\ UNCHANGED <<env, life>>
      BY <2>2 DEF DoPrint, At
    <3> QED
      BY <1>0, <3>1, LinePut
  <2>3. CASE DoPrintPpid(p)
    <3>1. /\ life[p] = "running" /\ Script[p][pc[p]].op \in {"print", "ppid"} /\ OneStep(p)
          /\ Put(p, Script[p][pc[p]].line) /\ UNCHANGED <<env, life>>
      BY <2>3 DEF DoPrintPpid, At
    <3> QED
      BY <1>0, <3>1, LinePut
  <2>4. CASE DoSleep(p)
    BY <1>0, <1>1, <2>4, Quiet DEF DoSleep
  <2>5. CASE DoExit(p)
    <3>1. /\ life[p] = "running" /\ Script[p][pc[p]].op = "exit" /\ Ends(p)
          /\ out' = out \o buf[p] /\ UNCHANGED <<env, pc, buf>>
      BY <2>5 DEF DoExit, At
    <3> QED
      BY <3>1, EndingLines
  <2>6. CASE DoFork(p)
    <3> DEFINE c == Script[p][pc[p]].child
    <3>1. At(p, "fork") /\ UNCHANGED env
      BY <2>6 DEF DoFork
    <3>2. CASE out' = out \o buf[p] /\ Ends(p) /\ UNCHANGED <<pc, buf>>
      <4>1. life[p] = "running" /\ Script[p][pc[p]].op = "fork"
        BY <3>1 DEF At
      <4> QED
        BY <3>1, <3>2, <4>1, EndingLines
    <3>3. CASE /\ life' = [life EXCEPT ![c] = "running"]
               /\ buf' = [buf EXCEPT ![c] = buf[p]]
               /\ OneStep(p) /\ UNCHANGED out
      <4>1. c \in Proc
        <5>1. life[p] = "running" /\ Script[p][pc[p]].op = "fork"
          BY <3>1 DEF At
        <5>2. StepFacts(p, pc[p], Script[p])
          BY <1>0, <5>1, AtStep
        <5> QED
          BY <5>1, <5>2, Forkers DEF StepFacts
      <4> QED
        BY <3>1, <3>3, <4>1, StartingLines
    <3> QED
      BY <2>6, <3>2, <3>3 DEF DoFork
  <2>7. CASE DoWait(p)
    <3>1. Steady
      <4>1. CASE \E d \in Children(p) : life[d] = "zombie" /\ life' = [life EXCEPT ![d] = "gone"]
        BY <1>0, <2>7, <4>1, CollectTree DEF DoWait, Children
      <4>2. CASE life' = life
        BY <1>0, <4>2, Quiet
      <4> QED
        BY <2>7, <4>1, <4>2 DEF DoWait
    <3> QED
      BY <1>1, <2>7, <3>1 DEF DoWait
  <2>8. CASE Reap(p)
    <3>1. Steady
      BY <1>0, <2>8, CollectTree DEF Reap
    <3> QED
      BY <1>1, <2>8, <3>1 DEF Reap
  <2>9. CASE Kill(p)
    <3>1. /\ life[p] = "running" /\ Ends(p) /\ out' = out /\ UNCHANGED <<env, pc, buf>>
      BY <2>9 DEF Kill
    <3> QED
      BY <3>1, EndingLines
  <2> QED
    BY <2>1, <2>2, <2>3, <2>4, <2>5, <2>6, <2>7, <2>8, <2>9 DEF Run
<1>3. CASE UNCHANGED vars
  BY <1>0, <1>1, <1>3, Quiet DEF vars
<1> QED
  BY <1>2, <1>3

\* At the start nothing has been said.
LEMMA LinesInit == Init => LInv
<1> SUFFICES ASSUME Init PROVE LInv
  OBVIOUS
<1>1. out = <<>> /\ Len(out) = 0 /\ \A p \in Proc : buf[p] = <<>> /\ Len(buf[p]) = 0
  BY DEF Init
<1>2. life = [p \in Proc |-> IF p = "first" THEN "running" ELSE "none"]
  BY DEF Init
<1>3. OnTerminal /\ InBuffer /\ InFile /\ InOrder(tty, out)
  BY <1>1 DEF OnTerminal, InBuffer, InFile, InOrder, Distinct, Unrepeated
<1>4. DedTwice
  <2>1. Places(out, Ded) = {}
    BY <1>1 DEF Places
  <2>2. Cardinality(Places(out, Ded)) = 0
    BY <2>1, FS_EmptySet
  <2>3. Copies(life, "second") = 0 /\ Copies(life, "third") = 0
    BY <1>2, Forkers DEF Copies, Ended
  <2> QED
    BY <2>2, <2>3 DEF DedTwice
<1> QED
  BY <1>3, <1>4 DEF LInv

\* A line is printed once, with the exception of Papa's first line in a file, which
\* Syn may print as well; Papa says that he has created Syn before Ded says that
\* Papa has been collected, and into a file before Ded writes anything
\* (5_part/5.2): for every interleaving, whoever may be killed.
THEOREM Prints == Spec => []Printed
<1>1. IInv /\ LInv => Printed
  <2> SUFFICES ASSUME IInv, LInv PROVE LinesOnce /\ OutputOrder
    BY DEF Printed
  <2>1. out \in Seq(Lines) /\ Len(out) \in Nat /\ DOMAIN out = 1 .. Len(out)
    BY DEF IInv, Types
  <2>2. \A line : Written(line) = Places(out, line)
    BY <2>1 DEF Written, Places
  <2>3. \A line : ~(line = Ded /\ ~tty) => Cardinality(Places(out, line)) <= 1
    <3> SUFFICES ASSUME NEW line, ~(line = Ded /\ ~tty)
                 PROVE  Cardinality(Places(out, line)) <= 1
      OBVIOUS
    <3>1. \A k \in Places(out, line), l \in Places(out, line) : k = l
      BY DEF LInv, OnTerminal, InFile, Distinct, Unrepeated, Places
    <3>2. CASE Places(out, line) = {}
      BY <3>2, FS_EmptySet
    <3>3. CASE Places(out, line) # {}
      <4>1. PICK k : Places(out, line) = {k}
        BY <3>1, <3>3
      <4>2. Cardinality({k}) = 1
        BY FS_Singleton
      <4> QED
        BY <4>1, <4>2
    <3> QED
      BY <3>2, <3>3
  <2>4. ~tty => Cardinality(Places(out, Ded)) <= 2
    <3>1. Copies(life, "second") \in {0, 1} /\ Copies(life, "third") \in {0, 1}
      BY DEF Copies
    <3>2. Cardinality(Places(out, Ded)) \in Nat
      BY <2>1, FinitePlaces
    <3> QED
      BY <3>1, <3>2 DEF LInv, DedTwice
  <2>5. \A line : Cardinality(Written(line)) <= IF line = Ded /\ ~tty THEN 2 ELSE 1
    <3>1. ASSUME NEW line, line = Ded /\ ~tty PROVE Cardinality(Written(line)) <= 2
      BY <2>2, <2>4, <3>1
    <3>2. ASSUME NEW line, ~(line = Ded /\ ~tty) PROVE Cardinality(Written(line)) <= 1
      BY <2>2, <2>3, <3>2
    <3> QED
      BY <3>1, <3>2
  <2>6. LinesOnce
    BY <2>5, Zenon DEF LinesOnce, Ded
  <2>7. \A k \in Written(Syn), l \in DOMAIN out : Early(tty, out[l]) => k < l
    BY <2>1 DEF LInv, InOrder, Written
  <2>8. OutputOrder
    BY <2>7, Zenon DEF OutputOrder, Early, Syn
  <2> QED
    BY <2>6, <2>8
<1> QED
  BY <1>1, InitHolds, NextHolds, LinesInit, LinesNext, PTL DEF Spec
=============================================================================
