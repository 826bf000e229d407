-------------------------- MODULE FileAndSortProofs --------------------------
(***************************************************************************)
(* Proofs about the programs of 3_part, modules FileTree, ReverseCopy and  *)
(* FileCommands, for every set of directories, names and files, every tree *)
(* of them and any number of runs and commands; and about Sort, for every  *)
(* number and every value of the elements.                                 *)
(***************************************************************************)
EXTENDS FileCommands, Sort, FunctionTheorems, FiniteSetTheorems, TLAPS

USE FileTreeAssumption

\* The kind of an entry of inode that is not in use.
LEMMA FreeKind == Free.kind = "free"
  BY DEF Free

-----------------------------------------------------------------------------
(* Paths in the tree t with the files v.  A missing directory has no names, *)
(* so where a path leads does not depend on which directories exist.       *)

NameAt(t, p) == t[p[1]][p[2]]
IsA(t, v, p, kind) == NameAt(t, p) # 0 /\ v[NameAt(t, p)].kind = kind
HopIn(t, v, p) == IF IsA(t, v, p, "symlink") THEN From(p[1], v[NameAt(t, p)].link) ELSE p
WalkIn(t, v, p) == HopIn(t, v, HopIn(t, v, HopIn(t, v, p)))
FileAt(t, v, p) == IF IsA(t, v, WalkIn(t, v, p), "symlink") THEN 0 ELSE NameAt(t, WalkIn(t, v, p))

IsTree(D, t, v) ==
  /\ Cwd \in D /\ D \subseteq Dirs
  /\ t \in [Dirs -> [Names -> Inodes \cup {0}]] /\ v \in [Inodes -> Inode]
  /\ \A d \in Dirs, n \in Names : t[d][n] # 0 => d \in D /\ v[t[d][n]].kind # "free"
  /\ \A k \in Inodes : v[k].kind = "symlink" => v[k].link \in Link

LEMMA TreeOKIs == TreeOK <=> IsTree(dirs, tree, inode)
  BY DEF TreeOK, IsTree

\* The path operators of FileTree lead from a path to paths and files.
LEMMA NameType ==
  ASSUME NEW D, NEW t, NEW v, IsTree(D, t, v), NEW p \in Path
  PROVE  NameAt(t, p) \in Inodes \cup {0} /\ (NameAt(t, p) # 0 => p[1] \in D /\ v[NameAt(t, p)].kind # "free")
  BY DEF IsTree, NameAt, Path

LEMMA HopType ==
  ASSUME NEW D, NEW t, NEW v, IsTree(D, t, v), NEW p \in Path
  PROVE  HopIn(t, v, p) \in Path
<1>1. CASE IsA(t, v, p, "symlink")
  <2> DEFINE k == NameAt(t, p)
  <2>1. k \in Inodes /\ v[k].link \in Link
    <3>1. k # 0 /\ v[k].kind = "symlink"
      BY <1>1 DEF IsA
    <3>2. k \in Inodes
      BY <3>1, NameType
    <3> QED
      BY <3>1, <3>2 DEF IsTree
  <2>2. v[k].link[1] \in Dirs \cup {"."} /\ v[k].link[2] \in Names /\ p[1] \in Dirs
        /\ v[k].link = <<v[k].link[1], v[k].link[2]>>
    BY <2>1 DEF Link, Path
  <2>3. From(p[1], v[k].link) \in Path
    BY <2>2 DEF From, Path
  <2> QED
    BY <1>1, <2>3 DEF HopIn
<1>2. CASE ~IsA(t, v, p, "symlink")
  BY <1>2 DEF HopIn
<1> QED
  BY <1>1, <1>2

LEMMA WalkType ==
  ASSUME NEW D, NEW t, NEW v, IsTree(D, t, v), NEW p \in Path
  PROVE  /\ WalkIn(t, v, p) \in Path
         /\ FileAt(t, v, p) \in Inodes \cup {0}
         /\ FileAt(t, v, p) # 0 => v[FileAt(t, v, p)].kind # "free"
<1>1. WalkIn(t, v, p) \in Path
  BY HopType DEF WalkIn
<1> QED
  BY <1>1, NameType DEF FileAt

\* The operators of FileTree, in these terms.
LEMMA Bridge ==
  ASSUME TreeOK, NEW p \in Path
  PROVE  /\ Lookup(p) = NameAt(tree, p)
         /\ \A kind : Is(p, kind) <=> IsA(tree, inode, p, kind)
         /\ Hop[p] = HopIn(tree, inode, p)
         /\ Walk(p) = WalkIn(tree, inode, p)
         /\ Denotes(p) = FileAt(tree, inode, p)
<1>t. IsTree(dirs, tree, inode)
  BY TreeOKIs
<1>1. ASSUME NEW q \in Path PROVE Lookup(q) = NameAt(tree, q)
  BY <1>t, NameType DEF Lookup, NameAt, IsTree, Path
<1>2. ASSUME NEW q \in Path PROVE \A kind : Is(q, kind) <=> IsA(tree, inode, q, kind)
  BY <1>1 DEF Is, IsA
<1>3. ASSUME NEW q \in Path PROVE Hop[q] = HopIn(tree, inode, q) /\ HopIn(tree, inode, q) \in Path
  BY <1>t, <1>1, <1>2, HopType DEF Hop, HopIn
<1>4. Walk(p) = WalkIn(tree, inode, p) /\ WalkIn(tree, inode, p) \in Path
  BY <1>3 DEF Walk, WalkIn
<1>5. Denotes(p) = FileAt(tree, inode, p)
  BY <1>1, <1>2, <1>4 DEF Denotes, FileAt
<1> QED
  BY <1>1, <1>2, <1>3, <1>4, <1>5

MayRead(t, v, p) == IsA(t, v, WalkIn(t, v, p), "file") /\ "r" \in v[FileAt(t, v, p)].mode
MayWrite(D, t, v, p) ==
  \/ IsA(t, v, WalkIn(t, v, p), "file") /\ "w" \in v[FileAt(t, v, p)].mode
  \/ WalkIn(t, v, p)[1] \in D /\ NameAt(t, WalkIn(t, v, p)) = 0

LEMMA OpenBridge ==
  ASSUME TreeOK, NEW p \in Path
  PROVE  /\ CanRead(p) <=> MayRead(tree, inode, p)
         /\ CanWrite(p) <=> MayWrite(dirs, tree, inode, p)
<1>1. WalkIn(tree, inode, p) \in Path
  BY TreeOKIs, WalkType
<1>2. /\ Walk(p) = WalkIn(tree, inode, p) /\ Denotes(p) = FileAt(tree, inode, p)
      /\ Lookup(WalkIn(tree, inode, p)) = NameAt(tree, WalkIn(tree, inode, p))
      /\ Is(WalkIn(tree, inode, p), "file") <=> IsA(tree, inode, WalkIn(tree, inode, p), "file")
  BY <1>1, Bridge
<1> QED
  BY <1>2 DEF CanRead, CanWrite, MayRead, MayWrite

-----------------------------------------------------------------------------
(* What the steps of the programs do to a tree.                            *)

\* Paths lead where they led when no link is added, removed or changed.
LEMMA SameWalk ==
  ASSUME NEW D, NEW t, NEW v, IsTree(D, t, v), NEW t2, NEW v2,
         \A q \in Path : HopIn(t2, v2, q) = HopIn(t, v, q),
         NEW p \in Path
  PROVE  WalkIn(t2, v2, p) = WalkIn(t, v, p)
  BY HopType DEF WalkIn

\* A name is bound to the file k.
Bound(t, t2, w, k) == t2 = [t EXCEPT ![w[1]][w[2]] = k]

LEMMA BindFacts ==
  ASSUME NEW t \in [Dirs -> [Names -> Inodes \cup {0}]], NEW w \in Path, NEW k \in Inodes \cup {0},
         NEW t2, Bound(t, t2, w, k)
  PROVE  /\ t2 \in [Dirs -> [Names -> Inodes \cup {0}]]
         /\ \A p \in Path : NameAt(t2, p) = IF p = w THEN k ELSE NameAt(t, p)
         /\ \A d \in Dirs, n \in Names : t2[d][n] = IF <<d, n>> = w THEN k ELSE t[d][n]
<1>1. w[1] \in Dirs /\ w[2] \in Names /\ w = <<w[1], w[2]>>
  BY DEF Path
<1>2. t \in [Dirs -> [Names -> Inodes \cup {0}]]
  OBVIOUS
<1>3. t2 \in [Dirs -> [Names -> Inodes \cup {0}]]
  BY <1>1, <1>2 DEF Bound
<1>4. ASSUME NEW d \in Dirs, NEW n \in Names
      PROVE  t2[d][n] = IF d = w[1] /\ n = w[2] THEN k ELSE t[d][n]
  BY <1>1, <1>2 DEF Bound
<1>5. ASSUME NEW d \in Dirs, NEW n \in Names
      PROVE  t2[d][n] = IF <<d, n>> = w THEN k ELSE t[d][n]
  BY <1>1, <1>4
<1>6. ASSUME NEW p \in Path
      PROVE  NameAt(t2, p) = IF p = w THEN k ELSE NameAt(t, p)
  <2>1. p[1] \in Dirs /\ p[2] \in Names /\ p = <<p[1], p[2]>>
    BY DEF Path
  <2> QED
    BY <1>5, <2>1 DEF NameAt
<1> QED
  BY <1>3, <1>5, <1>6

Created(t, v, t2, v2, w, k, r) ==
  /\ k \in Inodes /\ v[k] = Free /\ w \in Path /\ NameAt(t, w) = 0
  /\ Bound(t, t2, w, k) /\ v2 = [v EXCEPT ![k] = r]

LEMMA CreatedTree ==
  ASSUME NEW D, NEW t, NEW v, IsTree(D, t, v), NEW t2, NEW v2, NEW w, NEW k,
         NEW r \in Inode, r.kind # "free", r.kind = "symlink" => r.link \in Link,
         Created(t, v, t2, v2, w, k, r), w[1] \in D
  PROVE  IsTree(D, t2, v2)
<1>1. /\ t2 \in [Dirs -> [Names -> Inodes \cup {0}]]
      /\ \A d \in Dirs, n \in Names : t2[d][n] = IF <<d, n>> = w THEN k ELSE t[d][n]
  <2>1. /\ t \in [Dirs -> [Names -> Inodes \cup {0}]] /\ w \in Path /\ k \in Inodes \cup {0}
        /\ Bound(t, t2, w, k)
    BY DEF Created, IsTree
  <2> QED
    BY <2>1, BindFacts
<1>2. v2 \in [Inodes -> Inode] /\ v2[k] = r /\ \A x \in Inodes \ {k} : v2[x] = v[x]
  BY DEF Created, IsTree
<1>3. ASSUME NEW d \in Dirs, NEW n \in Names, t2[d][n] # 0
      PROVE  d \in D /\ v2[t2[d][n]].kind # "free"
  <2>1. CASE <<d, n>> = w
    BY <1>1, <1>2, <1>3, <2>1
  <2>2. CASE <<d, n>> # w
    <3>1. t2[d][n] = t[d][n]
      BY <1>1, <2>2
    <3>2. d \in D /\ v[t[d][n]].kind # "free" /\ t[d][n] \in Inodes
      BY <1>3, <3>1 DEF IsTree
    <3> QED
      BY <1>2, <3>1, <3>2 DEF Created
  <2> QED
    BY <2>1, <2>2
<1>4. ASSUME NEW x \in Inodes, v2[x].kind = "symlink" PROVE v2[x].link \in Link
  BY <1>2, <1>4 DEF IsTree
<1> QED
  BY <1>1, <1>2, <1>3, <1>4 DEF IsTree

\* A file that is created is where its path led; other paths lead where they led.
LEMMA CreatedFile ==
  ASSUME NEW D, NEW t, NEW v, IsTree(D, t, v), NEW t2, NEW v2, NEW w, NEW k,
         NEW r, r.kind = "file", Created(t, v, t2, v2, w, k, r), NEW p \in Path
  PROVE  /\ WalkIn(t2, v2, p) = WalkIn(t, v, p)
         /\ FileAt(t, v, p) # k
         /\ FileAt(t2, v2, p) = IF WalkIn(t, v, p) = w THEN k ELSE FileAt(t, v, p)
         /\ \A x \in Inodes \ {k} : v2[x] = v[x]
         /\ v2[k] = r
<1>1. \A q \in Path : NameAt(t2, q) = IF q = w THEN k ELSE NameAt(t, q)
  <2>1. /\ t \in [Dirs -> [Names -> Inodes \cup {0}]] /\ w \in Path /\ k \in Inodes \cup {0}
        /\ Bound(t, t2, w, k)
    BY DEF Created, IsTree
  <2> QED
    BY <2>1, BindFacts
<1>2. v2[k] = r /\ \A x \in Inodes \ {k} : v2[x] = v[x]
  BY DEF Created, IsTree
<1>3. ASSUME NEW q \in Path
      PROVE  /\ IsA(t2, v2, q, "symlink") <=> IsA(t, v, q, "symlink")
             /\ q # w /\ NameAt(t, q) # 0 => v2[NameAt(t, q)] = v[NameAt(t, q)] /\ NameAt(t, q) # k
  <2>1. CASE q = w
    <3>1. NameAt(t2, q) = k /\ v2[k].kind = "file"
      BY <1>1, <1>2, <2>1
    <3>2. ~IsA(t2, v2, q, "symlink")
      BY <3>1 DEF IsA
    <3>3. ~IsA(t, v, q, "symlink")
      BY <2>1 DEF IsA, Created
    <3> QED
      BY <2>1, <3>2, <3>3
  <2>2. CASE q # w
    <3>1. NameAt(t2, q) = NameAt(t, q)
      BY <1>1, <2>2
    <3>2. NameAt(t, q) # 0 => NameAt(t, q) \in Inodes \ {k}
      BY NameType, FreeKind DEF Created
    <3> QED
      BY <1>2, <3>1, <3>2 DEF IsA
  <2> QED
    BY <2>1, <2>2
<1>4. ASSUME NEW q \in Path PROVE HopIn(t2, v2, q) = HopIn(t, v, q)
  <2>1. CASE q = w
    <3>1. ~IsA(t, v, q, "symlink")
      BY <2>1 DEF IsA, Created
    <3> QED
      BY <1>3, <3>1 DEF HopIn
  <2>2. CASE q # w
    BY <1>1, <1>3, <2>2 DEF HopIn, IsA
  <2> QED
    BY <2>1, <2>2
<1>5. WalkIn(t2, v2, p) = WalkIn(t, v, p) /\ WalkIn(t, v, p) \in Path
  BY <1>4, SameWalk, WalkType
<1>6. FileAt(t, v, p) # k
  BY WalkType, FreeKind DEF Created
<1>7. FileAt(t2, v2, p) = IF WalkIn(t, v, p) = w THEN k ELSE FileAt(t, v, p)
  <2> DEFINE u == WalkIn(t, v, p)
  <2>1. u \in Path /\ WalkIn(t2, v2, p) = u
    BY <1>5
  <2> HIDE DEF u
  <2>2. FileAt(t2, v2, p) = IF IsA(t2, v2, u, "symlink") THEN 0 ELSE NameAt(t2, u)
    BY <2>1 DEF FileAt
  <2>3. FileAt(t, v, p) = IF IsA(t, v, u, "symlink") THEN 0 ELSE NameAt(t, u)
    BY DEF FileAt, u
  <2>4. u = w => ~IsA(t, v, u, "symlink")
    BY DEF IsA, Created
  <2>5. FileAt(t2, v2, p) = IF u = w THEN k ELSE FileAt(t, v, p)
    BY <1>1, <1>3, <2>1, <2>2, <2>3, <2>4
  <2> QED
    BY <2>5 DEF u
<1> QED
  BY <1>2, <1>5, <1>6, <1>7

\* The file k changes, but not what kind of a file it is.
Changed(v, v2, k, r) ==
  k \in Inodes /\ v2 = [v EXCEPT ![k] = r] /\ r.kind = v[k].kind /\ r.link = v[k].link

LEMMA ChangedTree ==
  ASSUME NEW D, NEW t, NEW v, IsTree(D, t, v), NEW v2, NEW k, NEW r \in Inode,
         Changed(v, v2, k, r), r.kind # "free"
  PROVE  IsTree(D, t, v2)
<1>1. v2 \in [Inodes -> Inode] /\ v2[k] = r /\ \A x \in Inodes \ {k} : v2[x] = v[x]
  BY DEF Changed, IsTree
<1>2. ASSUME NEW d \in Dirs, NEW n \in Names, t[d][n] # 0 PROVE d \in D /\ v2[t[d][n]].kind # "free"
  <2>1. d \in D /\ t[d][n] \in Inodes /\ v[t[d][n]].kind # "free"
    BY <1>2 DEF IsTree
  <2> QED
    BY <1>1, <2>1
<1>3. ASSUME NEW x \in Inodes, v2[x].kind = "symlink" PROVE v2[x].link \in Link
  BY <1>1, <1>3 DEF IsTree, Changed
<1> QED
  BY <1>1, <1>2, <1>3 DEF IsTree

LEMMA ChangedFile ==
  ASSUME NEW D, NEW t, NEW v, IsTree(D, t, v), NEW v2, NEW k, NEW r, Changed(v, v2, k, r),
         NEW p \in Path
  PROVE  /\ WalkIn(t, v2, p) = WalkIn(t, v, p)
         /\ FileAt(t, v2, p) = FileAt(t, v, p)
         /\ \A kind : IsA(t, v2, p, kind) <=> IsA(t, v, p, kind)
         /\ \A x \in Inodes \ {k} : v2[x] = v[x]
         /\ v2[k] = r
<1>1. v2[k] = r /\ \A x \in Inodes \ {k} : v2[x] = v[x]
  BY DEF Changed, IsTree
<1>2. \A x \in Inodes : v2[x].kind = v[x].kind /\ v2[x].link = v[x].link
  BY <1>1 DEF Changed
<1>3. ASSUME NEW q \in Path PROVE \A kind : IsA(t, v2, q, kind) <=> IsA(t, v, q, kind)
  BY <1>2, NameType DEF IsA
<1>4. ASSUME NEW q \in Path PROVE HopIn(t, v2, q) = HopIn(t, v, q)
  <2>1. CASE IsA(t, v, q, "symlink")
    <3>1. NameAt(t, q) \in Inodes
      BY <2>1, NameType DEF IsA
    <3> QED
      BY <1>2, <1>3, <3>1 DEF HopIn
  <2>2. CASE ~IsA(t, v, q, "symlink")
    BY <1>3, <2>2 DEF HopIn
  <2> QED
    BY <2>1, <2>2
<1>5. WalkIn(t, v2, p) = WalkIn(t, v, p) /\ WalkIn(t, v, p) \in Path
  BY <1>4, SameWalk, WalkType
<1>6. FileAt(t, v2, p) = FileAt(t, v, p)
  BY <1>3, <1>5 DEF FileAt
<1> QED
  BY <1>1, <1>3, <1>5, <1>6

-----------------------------------------------------------------------------
(* The type invariant.                                                     *)

LEMMA CreateIs ==
  ASSUME TreeOK, NEW w \in Path, NEW r, NameAt(tree, w) = 0, Create(w, r)
  PROVE  Fresh \in Inodes /\ Created(tree, inode, tree', inode', w, Fresh, r)
<1>1. Fresh \in Inodes /\ inode[Fresh] = Free
  BY DEF Create, Room, Fresh
<1> QED
  BY <1>1 DEF Create, Make, Bind, Created, Bound

\* What fopen(p, "wb") and open() with O_CREAT find at the end of the path p.
LEMMA WriteFinds ==
  ASSUME TreeOK, NEW p \in Path, CanWrite(p)
  PROVE  /\ Walk(p) \in Path
         /\ Denotes(p) # 0 => Denotes(p) \in Inodes /\ inode[Denotes(p)].kind = "file"
         /\ Denotes(p) = 0 => Walk(p)[1] \in dirs /\ NameAt(tree, Walk(p)) = 0
<1> DEFINE w == WalkIn(tree, inode, p)
<1>1. /\ w \in Path /\ Walk(p) = w /\ Denotes(p) = FileAt(tree, inode, p)
      /\ FileAt(tree, inode, p) \in Inodes \cup {0}
  BY TreeOKIs, Bridge, WalkType
<1>2. \/ IsA(tree, inode, w, "file")
      \/ w[1] \in dirs /\ NameAt(tree, w) = 0
  BY OpenBridge DEF MayWrite
<1>3. FileAt(tree, inode, p) = IF IsA(tree, inode, w, "symlink") THEN 0 ELSE NameAt(tree, w)
  BY DEF FileAt
<1> HIDE DEF w
<1> QED
  BY <1>1, <1>2, <1>3 DEF IsA

\* What can be read is a file.
LEMMA ReadFinds ==
  ASSUME TreeOK, NEW p \in Path, CanRead(p)
  PROVE  Denotes(p) \in Inodes /\ inode[Denotes(p)].kind = "file"
<1> DEFINE w == WalkIn(tree, inode, p)
<1>1. Denotes(p) = FileAt(tree, inode, p) /\ FileAt(tree, inode, p) \in Inodes \cup {0}
  BY TreeOKIs, Bridge, WalkType
<1>2. IsA(tree, inode, w, "file")
  BY OpenBridge DEF MayRead
<1>3. FileAt(tree, inode, p) = IF IsA(tree, inode, w, "symlink") THEN 0 ELSE NameAt(tree, w)
  BY DEF FileAt
<1> HIDE DEF w
<1> QED
  BY <1>1, <1>2, <1>3 DEF IsA

\* The files that are made are files.
LEMMA FileType ==
  ASSUME NEW m \in SUBSET RW, NEW data \in Seq(0 .. 255)
  PROVE  /\ File(data, m) \in Inode /\ File(data, m).kind = "file"
         /\ File(data, m).data = data /\ File(data, m).mode = m
  BY DEF File, Inode

LEMMA LinkType ==
  ASSUME NEW text \in Link
  PROVE  LET r == [kind |-> "symlink", mode |-> RW, data |-> <<>>, link |-> text]
         IN r \in Inode /\ r.kind = "symlink" /\ r.link = text
  BY DEF Inode, RW

\* New data or a new mode.
LEMMA EditType ==
  ASSUME NEW r \in Inode, NEW data \in Seq(0 .. 255), NEW m \in SUBSET RW
  PROVE  /\ [r EXCEPT !.data = data] \in Inode /\ [r EXCEPT !.mode = m] \in Inode
         /\ [r EXCEPT !.data = data].kind = r.kind /\ [r EXCEPT !.data = data].link = r.link
         /\ [r EXCEPT !.data = data].mode = r.mode /\ [r EXCEPT !.data = data].data = data
         /\ [r EXCEPT !.mode = m].kind = r.kind /\ [r EXCEPT !.mode = m].link = r.link
         /\ [r EXCEPT !.mode = m].data = r.data
  BY DEF Inode

LEMMA ReverseType ==
  ASSUME NEW S, NEW s \in Seq(S)
  PROVE  Reverse(s) \in Seq(S) /\ Len(Reverse(s)) = Len(s) /\ Reverse(Reverse(s)) = s
<1> DEFINE l == Len(s)
           z == Reverse(s)
<1>1. l \in Nat /\ z = [x \in 1 .. l |-> s[(l - x) + 1]]
  BY DEF Reverse
<1>2. z \in [1 .. l -> S]
  BY <1>1
<1>3. z \in Seq(S) /\ Len(z) = l
  BY <1>1, <1>2
<1>4. Reverse(z) = [x \in 1 .. l |-> z[(l - x) + 1]]
  BY <1>3 DEF Reverse
<1>5. \A x \in 1 .. l : z[(l - x) + 1] = s[x]
  BY <1>1
<1>6. s = [x \in 1 .. l |-> s[x]]
  OBVIOUS
<1> HIDE DEF z, l
<1>7. Reverse(z) = s
  BY <1>4, <1>5, <1>6
<1> QED
  BY <1>3, <1>7 DEF z, l

LEMMA TypeInit == Init => TypeOK
<1> SUFFICES ASSUME Init PROVE TypeOK
  OBVIOUS
<1>1. TreeOK /\ cmds \in 0 .. MAXCMDS
  BY FileCommandsAssumption DEF Init
<1>2. runs \in 0 .. MAXRUNS /\ src \in Dirs
  <2>1. runs = 0 /\ src = Cwd
    BY DEF Init, RInit
  <2>2. MAXRUNS \in Nat
    BY ReverseCopyAssumption
  <2> QED
    BY <2>1, <2>2
<1>3. fit \in BOOLEAN /\ alone \in BOOLEAN /\ calm \in BOOLEAN
  BY DEF Init, RInit
<1>4. /\ rpc = "idle" /\ e = NoName /\ f = 0 /\ g = 0 /\ returned = {} /\ stayed = {}
  BY DEF Init, RInit
<1> QED
  BY <1>1, <1>2, <1>3, <1>4 DEF TypeOK, TypeOKReverse

\* A file stays the kind of file it is, and holds what it holds.
KindsKept == \A k \in Inodes : inode[k].kind # "free" => inode'[k].kind = inode[k].kind
DataKept == \A k \in Inodes : inode[k].kind # "free" => inode'[k].data = inode[k].data

\* Making a file, changing one, and binding a name to one keep the tree.
LEMMA CreateKeeps ==
  ASSUME TreeOK, dirs' = dirs, NEW w \in Path, w[1] \in dirs, NameAt(tree, w) = 0,
         NEW r \in Inode, r.kind # "free", r.kind = "symlink" => r.link \in Link, Create(w, r)
  PROVE  TreeOK' /\ KindsKept /\ DataKept /\ Fresh \in Inodes /\ inode'[Fresh] = r
<1>1. Created(tree, inode, tree', inode', w, Fresh, r) /\ Fresh \in Inodes
  BY CreateIs
<1>2. IsTree(dirs, tree', inode')
  BY <1>1, TreeOKIs, CreatedTree
<1>3. KindsKept /\ DataKept /\ inode'[Fresh] = r
  BY <1>1, FreeKind DEF Created, KindsKept, DataKept, TreeOK
<1> QED
  BY <1>1, <1>2, <1>3 DEF IsTree, TreeOK

LEMMA ChangeKeeps ==
  ASSUME TreeOK, dirs' = dirs, tree' = tree, NEW k \in Inodes, inode[k].kind # "free",
         NEW r \in Inode, r.kind = inode[k].kind, r.link = inode[k].link, Make(k, r)
  PROVE  TreeOK' /\ KindsKept
<1>1. Changed(inode, inode', k, r)
  BY DEF Changed, Make
<1>2. IsTree(dirs, tree, inode')
  BY <1>1, TreeOKIs, ChangedTree
<1>3. KindsKept
  BY <1>1 DEF Changed, KindsKept, TreeOK
<1> QED
  BY <1>2, <1>3 DEF IsTree, TreeOK

LEMMA BindKeeps ==
  ASSUME TreeOK, dirs' = dirs, inode' = inode, NEW w \in Path, NEW k \in Inodes \cup {0},
         k # 0 => w[1] \in dirs /\ inode[k].kind # "free", Bind(w, k)
  PROVE  TreeOK'
<1>1. /\ tree' \in [Dirs -> [Names -> Inodes \cup {0}]]
      /\ \A d \in Dirs, n \in Names : tree'[d][n] = IF <<d, n>> = w THEN k ELSE tree[d][n]
  <2>1. tree \in [Dirs -> [Names -> Inodes \cup {0}]] /\ Bound(tree, tree', w, k)
    BY DEF TreeOK, Bind, Bound
  <2> QED
    BY <2>1, BindFacts
<1>2. ASSUME NEW d \in Dirs, NEW n \in Names, tree'[d][n] # 0
      PROVE  d \in dirs /\ inode[tree'[d][n]].kind # "free"
  <2>1. CASE <<d, n>> = w
    BY <1>1, <1>2, <2>1
  <2>2. CASE <<d, n>> # w
    BY <1>1, <1>2, <2>2 DEF TreeOK
  <2> QED
    BY <2>1, <2>2
<1> QED
  BY <1>1, <1>2 DEF TreeOK

\* New data in a file that is there.
LEMMA DataKeeps ==
  ASSUME TreeOK, dirs' = dirs, tree' = tree, NEW k \in Inodes, inode[k].kind # "free",
         NEW data \in Seq(0 .. 255), Make(k, [inode[k] EXCEPT !.data = data])
  PROVE  TreeOK' /\ KindsKept
<1> DEFINE r == [inode[k] EXCEPT !.data = data]
<1>1. inode[k] \in Inode
  BY DEF TreeOK
<1>2. inode[k].mode \in SUBSET RW
  BY <1>1 DEF Inode
<1>3. r \in Inode /\ r.kind = inode[k].kind /\ r.link = inode[k].link
  BY <1>1, <1>2, EditType
<1> HIDE DEF r
<1>4. Make(k, r)
  BY DEF r
<1> QED
  BY <1>3, <1>4, ChangeKeeps

\* fopen() of the copy keeps the tree, and what it opens is a file.
LEMMA OpenNewKeeps ==
  ASSUME TreeOK, dirs' = dirs, NEW p \in Path, OpenNew(p)
  PROVE  /\ TreeOK' /\ KindsKept
         /\ CanWrite(p) /\ Denotes(p) = 0 => Fresh \in Inodes /\ inode'[Fresh].kind = "file"
<1>1. CASE CanWrite(p) /\ Denotes(p) # 0
  <2>1. /\ Make(Denotes(p), [inode[Denotes(p)] EXCEPT !.data = <<>>]) /\ tree' = tree
    BY <1>1 DEF OpenNew
  <2>2. Denotes(p) \in Inodes /\ inode[Denotes(p)].kind = "file"
    BY <1>1, WriteFinds
  <2>3. <<>> \in Seq(0 .. 255)
    OBVIOUS
  <2> QED
    BY <1>1, <2>1, <2>2, <2>3, DataKeeps
<1>2. CASE CanWrite(p) /\ Denotes(p) = 0
  <2>1. Create(Walk(p), File(<<>>, RW))
    BY <1>2 DEF OpenNew
  <2>2. Walk(p) \in Path /\ Walk(p)[1] \in dirs /\ NameAt(tree, Walk(p)) = 0
    BY <1>2, WriteFinds
  <2>3. File(<<>>, RW) \in Inode /\ File(<<>>, RW).kind = "file"
    <3>1. <<>> \in Seq(0 .. 255) /\ RW \in SUBSET RW
      OBVIOUS
    <3> QED
      BY <3>1, FileType
  <2> QED
    BY <2>1, <2>2, <2>3, CreateKeeps
<1>3. CASE ~CanWrite(p)
  BY <1>3 DEF OpenNew, TreeOK, KindsKept
<1> QED
  BY <1>1, <1>2, <1>3

LEMMA NewPathType ==
  ASSUME NEW d \in Dirs, NEW n \in Names
  PROVE  NewPath(d, n) \in Path /\ <<d, n>> \in Path /\ RevDir[d] \in Dirs
         /\ RevName[n] \in Names /\ NewPath(d, n) = <<RevDir[d], RevName[n]>>
  BY ReverseCopyAssumption DEF NewPath, Path

\* The types after a step of the copying program, of the user who starts or stops
\* it, and after a command.
LEMMA ReverserType ==
  ASSUME TypeOK, Reverser
  PROVE  TypeOKReverse' /\ TreeOK'
<1> USE DEF TypeOK, histories
<1>0. CASE R_Mkdir
  <2>1. dirs \subseteq dirs' /\ dirs' \subseteq Dirs /\ tree' = tree /\ inode' = inode
    BY <1>0, ReverseCopyAssumption DEF R_Mkdir, TypeOKReverse, TreeOK
  <2>2. TreeOK'
    BY <2>1 DEF TreeOK
  <2> QED
    BY <1>0, <2>2 DEF R_Mkdir, Over, TypeOKReverse
<1>1. CASE R_Readdir
  <2>1. TreeOK'
    BY <1>1 DEF R_Readdir, fs, TreeOK
  <2>2. /\ e' \in Names \cup {NoName} /\ returned' \subseteq Names
        /\ rpc' = "readdir" \/ (rpc' = "open" /\ e' \in Names)
    BY <1>1 DEF R_Readdir, TypeOKReverse
  <2> QED
    BY <1>1, <2>1, <2>2 DEF R_Readdir, TypeOKReverse
<1>2. CASE R_End
  BY <1>2 DEF R_End, Over, fs, TreeOK, TypeOKReverse
<1>3. CASE R_Open
  <2>1. src \in Dirs /\ rpc = "open" /\ e \in Names
    BY <1>3 DEF R_Open, TypeOKReverse
  <2> DEFINE old == <<src, e>>
             new == NewPath(src, e)
  <2>2. old \in Path /\ new \in Path
    BY <2>1, NewPathType
  <2>3. OpenNew(new) /\ Opens(old, new, CanRead(old) /\ CanWrite(new))
        /\ UNCHANGED <<dirs, src, runs, histories>>
    BY <1>3 DEF R_Open
  <2> HIDE DEF old, new
  <2>4. TreeOK' /\ KindsKept
    BY <2>2, <2>3, OpenNewKeeps
  <2>5. CASE CanRead(old) /\ CanWrite(new)
    <3>1. f' \in Inodes /\ inode'[f'].kind = "file"
      <4>1. f' = Denotes(old)
        BY <2>3, <2>5 DEF Opens
      <4>2. Denotes(old) \in Inodes /\ inode[Denotes(old)].kind = "file"
        BY <2>2, <2>5, ReadFinds
      <4> QED
        BY <2>4, <4>1, <4>2 DEF KindsKept
    <3>2. g' \in Inodes /\ inode'[g'].kind = "file"
      <4>1. CASE Denotes(new) # 0
        <5>1. g' = Denotes(new)
          BY <2>3, <2>5, <4>1 DEF Opens
        <5>2. Denotes(new) \in Inodes /\ inode[Denotes(new)].kind = "file"
          BY <2>2, <2>5, <4>1, WriteFinds
        <5> QED
          BY <2>4, <5>1, <5>2 DEF KindsKept
      <4>2. CASE Denotes(new) = 0
        <5>1. g' = Fresh
          BY <2>3, <2>5, <4>2 DEF Opens
        <5> QED
          BY <2>2, <2>3, <2>5, <4>2, <5>1, OpenNewKeeps
      <4> QED
        BY <4>1, <4>2
    <3>3. rpc' = "copy" /\ UNCHANGED <<e, returned, stayed, src, runs, histories>>
      BY <2>3, <2>5 DEF Opens
    <3> QED
      BY <2>4, <3>1, <3>2, <3>3 DEF TypeOKReverse
  <2>6. CASE ~(CanRead(old) /\ CanWrite(new))
    BY <2>3, <2>4, <2>6 DEF Opens, Over, TypeOKReverse
  <2> QED
    BY <2>5, <2>6
<1>4. CASE R_Copy
  <2>1. /\ f \in Inodes /\ g \in Inodes /\ inode[f] \in Inode
        /\ inode[g].kind = "file" /\ UNCHANGED <<dirs, tree>>
        /\ Make(g, [inode[g] EXCEPT !.data = Reverse(inode[f].data)])
    BY <1>4 DEF R_Copy, TypeOKReverse, TreeOK
  <2>2. Reverse(inode[f].data) \in Seq(0 .. 255)
    BY <2>1, ReverseType DEF Inode
  <2>3. TreeOK'
    BY <2>1, <2>2, DataKeeps
  <2> QED
    BY <1>4, <2>3 DEF R_Copy, TypeOKReverse
<1>5. CASE R_Hang
  BY <1>5 DEF R_Hang, fs, TreeOK, TypeOKReverse
<1> QED
  BY <1>0, <1>1, <1>2, <1>3, <1>4, <1>5 DEF Reverser

LEMMA OthersType ==
  ASSUME TypeOK, R_Kill \/ \E d \in Dirs : R_Start(d)
  PROVE  TypeOKReverse' /\ TreeOK'
<1> USE DEF TypeOK, histories
<1>1. CASE R_Kill
  BY <1>1 DEF R_Kill, Over, fs, TreeOK, TypeOKReverse
<1>2. ASSUME NEW d \in Dirs, R_Start(d)
      PROVE  TypeOKReverse' /\ TreeOK'
  <2>1. TreeOK'
    BY <1>2 DEF R_Start, fs, TreeOK
  <2>2. rpc' \in {"mkdir", "nodir"}
    BY <1>2 DEF R_Start
  <2>a. runs \in 0 .. MAXRUNS /\ MAXRUNS \in Nat
    BY ReverseCopyAssumption DEF TypeOKReverse
  <2>b. runs' = runs + 1 /\ runs < MAXRUNS
    BY <1>2 DEF R_Start
  <2>c. runs' \in 0 .. MAXRUNS
    BY <2>a, <2>b
  <2>3. /\ src' \in Dirs /\ e' = NoName /\ f' = 0 /\ g' = 0
        /\ returned' \subseteq Names /\ stayed' \subseteq Names
    BY <1>2 DEF R_Start
  <2>4. fit' \in BOOLEAN /\ alone' \in BOOLEAN /\ calm' \in BOOLEAN
    BY <1>2 DEF R_Start, Fit, Calm
  <2> QED
    BY <2>1, <2>2, <2>c, <2>3, <2>4 DEF TypeOKReverse
<1> QED
  BY <1>1, <1>2

\* After a command the types are right if the tree is and files remain files.
LEMMA CommandType ==
  ASSUME TypeOK, Command, Disturbed, TreeOK', KindsKept
  PROVE  TypeOK'
<1>1. rpc = "copy" => \A k \in {f, g} : k \in Inodes /\ inode'[k].kind = "file"
  BY DEF TypeOK, TypeOKReverse, KindsKept
<1>2. returned' \subseteq Names /\ stayed' \subseteq Names
  BY DEF TypeOK, TypeOKReverse, Disturbed
<1>3. fit' \in BOOLEAN /\ alone' \in BOOLEAN /\ calm' \in BOOLEAN
  BY DEF Disturbed
<1>4. TypeOKReverse'
  BY <1>1, <1>2, <1>3 DEF TypeOK, TypeOKReverse, Command
<1>5. cmds' \in 0 .. MAXCMDS
  BY FileCommandsAssumption DEF TypeOK, Command
<1> QED
  BY <1>4, <1>5 DEF TypeOK

\* The commands with a path: they keep the tree.
LEMMA PathCommandType ==
  ASSUME TypeOK, NEW p \in Args,
         \/ create_file(p) \/ remove_file(p)
         \/ \E text \in Texts : create_symlink(text, p)
         \/ \E q \in Args : create_hardlink(p, q)
         \/ \E m \in Modes : change_perm(p, m)
  PROVE  Command /\ TreeOK' /\ KindsKept /\ DataKept
<1>0. TreeOK /\ p \in Path /\ IsTree(dirs, tree, inode)
  BY FileCommandsAssumption, TreeOKIs DEF TypeOK
<1>1. CASE create_file(p)
  <2>1. CASE Denotes(p) # 0 /\ UNCHANGED <<tree, inode>>
    BY <1>0, <1>1, <2>1 DEF create_file, TreeOK, KindsKept, DataKept
  <2>2. ASSUME Denotes(p) = 0, NEW m \in SUBSET RW, Create(Walk(p), File(<<>>, m))
        PROVE  TreeOK' /\ KindsKept /\ DataKept
    <3>1. Walk(p) \in Path /\ Walk(p)[1] \in dirs /\ NameAt(tree, Walk(p)) = 0
      BY <1>0, <1>1, <2>2, WriteFinds DEF create_file
    <3>2. <<>> \in Seq(0 .. 255)
      OBVIOUS
    <3>3. File(<<>>, m) \in Inode /\ File(<<>>, m).kind = "file"
      BY <3>2, FileType
    <3>4. dirs' = dirs
      BY <1>1 DEF create_file
    <3> QED
      BY <1>0, <2>2, <3>1, <3>3, <3>4, CreateKeeps
  <2> QED
    BY <1>1, <2>1, <2>2 DEF create_file
<1>2. CASE remove_file(p)
  <2>1. Command /\ Bind(p, 0) /\ dirs' = dirs /\ inode' = inode
    BY <1>2 DEF remove_file
  <2>2. TreeOK'
    BY <1>0, <2>1, BindKeeps
  <2> QED
    BY <2>1, <2>2 DEF KindsKept, DataKept
<1>3. ASSUME NEW text \in Texts, create_symlink(text, p)
      PROVE  Command /\ TreeOK' /\ KindsKept /\ DataKept
  <2> DEFINE r == [kind |-> "symlink", mode |-> RW, data |-> <<>>, link |-> text]
  <2>1. Command /\ p[1] \in dirs /\ Lookup(p) = 0 /\ Create(p, r) /\ dirs' = dirs
    BY <1>3 DEF create_symlink
  <2>2. text \in Link
    BY FileCommandsAssumption
  <2>3. r \in Inode /\ r.kind = "symlink" /\ r.link = text
    BY <2>2, LinkType
  <2>4. NameAt(tree, p) = 0
    BY <1>0, <2>1, Bridge
  <2> HIDE DEF r
  <2> QED
    BY <1>0, <2>1, <2>2, <2>3, <2>4, CreateKeeps
<1>4. ASSUME NEW q \in Args, create_hardlink(p, q)
      PROVE  Command /\ TreeOK' /\ KindsKept /\ DataKept
  <2>1. /\ Command /\ Lookup(p) # 0 /\ q[1] \in dirs /\ Bind(q, Lookup(p))
        /\ dirs' = dirs /\ inode' = inode /\ q \in Path
    BY <1>4, FileCommandsAssumption DEF create_hardlink
  <2>2. Lookup(p) \in Inodes /\ inode[Lookup(p)].kind # "free"
    <3>1. Lookup(p) = NameAt(tree, p)
      BY <1>0, Bridge
    <3> QED
      BY <1>0, <2>1, <3>1, NameType
  <2>3. TreeOK'
    BY <1>0, <2>1, <2>2, BindKeeps
  <2> QED
    BY <2>1, <2>3 DEF KindsKept, DataKept
<1>5. ASSUME NEW m \in Modes, change_perm(p, m)
      PROVE  Command /\ TreeOK' /\ KindsKept /\ DataKept
  <2> DEFINE k == Denotes(p)
             r == [inode[k] EXCEPT !.mode = m]
  <2>1. Command /\ k # 0 /\ Make(k, r) /\ dirs' = dirs /\ tree' = tree
    BY <1>5 DEF change_perm
  <2>2. k \in Inodes /\ inode[k].kind # "free"
    BY <1>0, <2>1, Bridge, WalkType
  <2>3. inode[k] \in Inode /\ m \in SUBSET RW
    BY <1>0, <2>2, FileCommandsAssumption DEF TreeOK
  <2>4. inode[k].data \in Seq(0 .. 255)
    BY <2>3 DEF Inode
  <2>5. r \in Inode /\ r.kind = inode[k].kind /\ r.link = inode[k].link /\ r.data = inode[k].data
    BY <2>3, <2>4, EditType
  <2> HIDE DEF r, k
  <2>6. TreeOK' /\ KindsKept
    BY <1>0, <2>1, <2>2, <2>5, ChangeKeeps
  <2>7. DataKept
    BY <1>0, <2>1, <2>2, <2>5 DEF DataKept, Make, TreeOK
  <2> QED
    BY <2>1, <2>6, <2>7
<1> QED
  BY <1>1, <1>2, <1>3, <1>4, <1>5 DEF create_file, remove_file

LEMMA DirCommandType ==
  ASSUME TypeOK, NEW d \in Dirs, create_dir(d) \/ remove_dir(d)
  PROVE  Command /\ TreeOK' /\ KindsKept /\ DataKept
<1>1. CASE create_dir(d)
  BY <1>1 DEF create_dir, TypeOK, TreeOK, KindsKept, DataKept
<1>2. CASE remove_dir(d)
  BY <1>2 DEF remove_dir, TypeOK, TreeOK, KindsKept, DataKept
<1> QED
  BY <1>1, <1>2

LEMMA PrintingIs == Printing => UNCHANGED <<fs, local, cmds>>
  BY DEF Printing, print_file, print_symlink_file, NoLink, Say

\* A command prints something, or changes names and leaves the data of files.
LEMMA Steps ==
  ASSUME TypeOK, Commands
  PROVE  Printing \/ (Command /\ Disturbed /\ TreeOK' /\ KindsKept /\ DataKept)
  BY PathCommandType, DirCommandType DEF Commands, Changing

LEMMA TypeStep ==
  ASSUME TypeOK, [Next]_vars
  PROVE  TypeOK'
<1>1. CASE Commands
  <2>1. CASE Printing
    BY <2>1, PrintingIs DEF TypeOK, TypeOKReverse, TreeOK, fs, local, histories
  <2>2. CASE Command /\ Disturbed /\ TreeOK' /\ KindsKept
    BY <2>2, CommandType
  <2> QED
    BY <1>1, <2>1, <2>2, Steps
<1>2. CASE Reversing
  BY <1>2, ReverserType DEF Reversing, TypeOK
<1>3. CASE Others
  BY <1>3, OthersType DEF Others, TypeOK
<1>4. CASE UNCHANGED vars
  BY <1>4 DEF vars, fs, local, histories, TypeOK, TypeOKReverse, TreeOK
<1> QED
  BY <1>1, <1>2, <1>3, <1>4 DEF Next

\* The programs of 3_part keep the tree of files a tree, whatever they are called
\* with and in whatever order they run.
THEOREM TypeInvariance == Spec => []TypeOK
<1>1. TypeOK /\ [Next]_vars => TypeOK'
  BY TypeStep
<1> QED
  BY <1>1, TypeInit, PTL DEF Spec

-----------------------------------------------------------------------------
(* catlink_cmd and cat_cmd.                                                *)

\* A link that is followed from its text leads where it leads from its name.
LEMMA TextLeads ==
  ASSUME TreeOK, NEW p \in Path, Is(p, "symlink"), ~Is(Walk(p), "symlink"),
         inode[Lookup(p)].link[1] # "."
  PROVE  Contents(inode[Lookup(p)].link) = Contents(p)
<1> DEFINE text == inode[Lookup(p)].link
<1>0. ASSUME NEW q \in Path PROVE Hop[q] \in Path
  BY TreeOKIs, Bridge, HopType
<1>1. Hop[p] = text /\ text \in Path
  <2>1. Hop[p] = text
    BY DEF Hop, From
  <2> QED
    BY <1>0, <2>1
<1>2. Walk(p) = Hop[Hop[text]] /\ Walk(text) = Hop[Hop[Hop[text]]]
  BY <1>1 DEF Walk
<1>3. Hop[Walk(p)] = Walk(p)
  <2>1. Walk(p) \in Path
    BY <1>0 DEF Walk
  <2> QED
    BY <2>1 DEF Hop
<1>4. Walk(text) = Walk(p)
  BY <1>2, <1>3
<1> HIDE DEF text
<1>5. Denotes(text) = Denotes(p) /\ CanRead(text) = CanRead(p)
  BY <1>4 DEF Denotes, CanRead
<1>6. Contents(text) = Contents(p)
  BY <1>5 DEF Contents, Data
<1> QED
  BY <1>6 DEF text

\* What a path leads to and holds depends on the tree alone.
LEMMA SameFiles ==
  ASSUME fs' = fs
  PROVE  /\ \A p : Lookup(p)' = Lookup(p) /\ Contents(p)' = Contents(p) /\ Walk(p)' = Walk(p)
         /\ \A p, kind : Is(p, kind)' <=> Is(p, kind)
<1>1. dirs' = dirs /\ tree' = tree /\ inode' = inode
  BY DEF fs
<1>2. \A p : Lookup(p)' = Lookup(p)
  BY <1>1 DEF Lookup
<1>3. \A p, kind : Is(p, kind)' <=> Is(p, kind)
  BY <1>1, <1>2 DEF Is
<1>4. Hop' = Hop
  BY <1>1, <1>2, <1>3 DEF Hop
<1>5. \A p : Walk(p)' = Walk(p)
  BY <1>4 DEF Walk
<1>6. \A p : Denotes(p)' = Denotes(p)
  BY <1>2, <1>3, <1>5 DEF Denotes
<1>7. \A p : CanRead(p)' = CanRead(p)
  BY <1>1, <1>3, <1>5, <1>6 DEF CanRead
<1>8. \A p : Contents(p)' = Contents(p)
  BY <1>1, <1>6, <1>7 DEF Contents, Data
<1> QED
  BY <1>2, <1>3, <1>5, <1>8

\* A step that prints shows what the property says, and no other step does.
LEMMA CatStep ==
  ASSUME TypeOK, CatlinkIsCat, [Next]_vars
  PROVE  CatlinkIsCat'
<1>1. CASE said' = Nothing
  BY <1>1 DEF CatlinkIsCat, Nothing
<1>2. ASSUME NEW p \in Path, Is(p, "symlink"),
             Say("catlink", p, Contents(From(Cwd, inode[Lookup(p)].link)))
      PROVE  CatlinkIsCat'
  <2> DEFINE text == inode[Lookup(p)].link
             shown == Contents(IF text[1] = "." THEN <<Cwd, text[2]>> ELSE p)
  <2>1. fs' = fs /\ inode' = inode /\ said'.path = p /\ said'.data = Contents(From(Cwd, text))
    BY <1>2 DEF Say, fs
  <2>2. ~Is(Walk(p), "symlink") => Contents(From(Cwd, text)) = shown
    BY <1>2, TextLeads DEF TypeOK, From
  <2>3. /\ Lookup(said.path)' = Lookup(p)
        /\ Is(Walk(said.path), "symlink")' <=> Is(Walk(p), "symlink")
        /\ \A q : Contents(q)' = Contents(q)
    BY <2>1, SameFiles
  <2> HIDE DEF shown
  <2>4. inode'[Lookup(said.path)'].link = text
    BY <2>1, <2>3
  <2>5. Contents(IF inode[Lookup(said.path)].link[1] = "."
                 THEN <<Cwd, inode[Lookup(said.path)].link[2]>> ELSE said.path)' = shown
    BY <2>1, <2>3, <2>4 DEF shown
  <2> HIDE DEF text
  <2> QED
    BY <2>1, <2>2, <2>3, <2>4, <2>5 DEF CatlinkIsCat
<1>3. ASSUME NEW p, NEW data, ~Is(p, "symlink"), Say("catlink", p, data)
      PROVE  CatlinkIsCat'
  <2>1. fs' = fs /\ said'.path = p
    BY <1>3 DEF Say
  <2>2. ~Is(said.path, "symlink")'
    BY <1>3, <2>1, SameFiles
  <2> QED
    BY <2>2 DEF CatlinkIsCat
<1>4. ASSUME NEW p, print_file(p) PROVE CatlinkIsCat'
  BY <1>4 DEF print_file, Say, CatlinkIsCat
<1>5. CASE Printing
  <2>1. PICK p \in Args : print_file(p) \/ print_symlink_file(p)
    BY <1>5 DEF Printing
  <2>2. p \in Path
    BY FileCommandsAssumption
  <2> QED
    BY <1>2, <1>3, <1>4, <2>1, <2>2 DEF print_symlink_file, NoLink
<1>6. CASE UNCHANGED vars
  <2>1. fs' = fs /\ inode' = inode /\ said' = said
    BY <1>6 DEF vars, fs
  <2> QED
    BY <2>1, SameFiles DEF CatlinkIsCat
<1>7. CASE Commands
  BY <1>1, <1>5, <1>7, Steps DEF Command
<1> QED
  BY <1>1, <1>6, <1>7 DEF Next, Reversing, Others

\* What catlink_cmd prints of a link is what cat_cmd would print of it, or of the
\* file in the working directory that its text names (main.c:38-49).
THEOREM CatlinkIsCatHolds == Spec => []CatlinkIsCat
<1>0. Nothing.cmd # "catlink"
  BY DEF Nothing
<1>1. Init => CatlinkIsCat
  BY <1>0 DEF Init, CatlinkIsCat
<1>2. TypeOK /\ CatlinkIsCat /\ [Next]_vars => CatlinkIsCat'
  BY CatStep
<1> QED
  BY <1>1, <1>2, TypeInvariance, PTL DEF Spec

-----------------------------------------------------------------------------
(* A run whose copies do not come to lie in the place of others.           *)

\* Where the files of d are read and where their copies go.
SourceFile(t, v, d, n) == FileAt(t, v, <<d, n>>)
Target(t, v, d, n) == WalkIn(t, v, NewPath(d, n))
TargetFile(t, v, d, n) == FileAt(t, v, NewPath(d, n))

ChosenIn(t, v, d) ==
  {n \in Names : SourceFile(t, v, d, n) # 0 /\ v[SourceFile(t, v, d, n)].kind \in {"file", "socket"}}

\* What Calm says.
SepIn(t, v, d) ==
  /\ \A n \in Names : t[d][n] # 0 => SourceFile(t, v, d, n) # 0
  /\ \A m \in Names :
       /\ Target(t, v, d, m)[1] # d
       /\ \A n \in Names :
            /\ TargetFile(t, v, d, m) = 0 \/ TargetFile(t, v, d, m) # SourceFile(t, v, d, n)
            /\ m # n => /\ Target(t, v, d, m) # Target(t, v, d, n)
                        /\ TargetFile(t, v, d, m) = 0 \/ TargetFile(t, v, d, m) # TargetFile(t, v, d, n)

\* What Fit says of the files, once the other directory is there.
MayIn(D, t, v, d) ==
  \A m \in ChosenIn(t, v, d) :
    MayRead(t, v, <<d, m>>) /\ MayWrite(D \cup {RevDir[d]}, t, v, NewPath(d, m))

\* The copy of c is opened: only its own target changes.
Writes(D, t, v, t2, v2, d, c) ==
  /\ SepIn(t2, v2, d) /\ ChosenIn(t2, v2, d) = ChosenIn(t, v, d)
  /\ MayIn(D, t, v, d) => MayIn(D, t2, v2, d)
  /\ \A n \in Names : SourceFile(t2, v2, d, n) = SourceFile(t, v, d, n) /\ t2[d][n] = t[d][n]
  /\ \A n \in ChosenIn(t, v, d) : v2[SourceFile(t, v, d, n)].data = v[SourceFile(t, v, d, n)].data
  /\ \A n \in Names \ {c} : TargetFile(t, v, d, n) # 0 =>
       /\ TargetFile(t2, v2, d, n) = TargetFile(t, v, d, n)
       /\ v2[TargetFile(t, v, d, n)].data = v[TargetFile(t, v, d, n)].data

\* A name without a file is where its path ends.
LEMMA NoNameThere ==
  ASSUME NEW t, NEW v, NEW p, NameAt(t, p) = 0
  PROVE  WalkIn(t, v, p) = p /\ FileAt(t, v, p) = 0
<1>1. ~IsA(t, v, p, "symlink")
  BY DEF IsA
<1>2. HopIn(t, v, p) = p
  BY <1>1 DEF HopIn
<1> QED
  BY <1>1, <1>2 DEF WalkIn, FileAt

\* A chosen name and the file it leads to.
LEMMA ChosenFacts ==
  ASSUME NEW D, NEW t, NEW v, IsTree(D, t, v), NEW d \in Dirs, NEW n \in Names
  PROVE  /\ SourceFile(t, v, d, n) \in Inodes \cup {0}
         /\ TargetFile(t, v, d, n) \in Inodes \cup {0}
         /\ Target(t, v, d, n) \in Path
         /\ SourceFile(t, v, d, n) # 0 => t[d][n] # 0
<1>1. <<d, n>> \in Path /\ NewPath(d, n) \in Path
  BY NewPathType
<1>2. t[d][n] = NameAt(t, <<d, n>>)
  BY DEF NameAt
<1>3. t[d][n] = 0 => SourceFile(t, v, d, n) = 0
  BY <1>2, NoNameThere DEF SourceFile
<1> QED
  BY <1>1, <1>3, WalkType DEF SourceFile, TargetFile, Target

\* New data in a file that is there.
LEMMA DataChanges ==
  ASSUME NEW D, NEW t, NEW v, IsTree(D, t, v), NEW d \in Dirs, NEW v2, NEW k, NEW r,
         Changed(v, v2, k, r), r.mode = v[k].mode
  PROVE  /\ \A n \in Names : /\ SourceFile(t, v2, d, n) = SourceFile(t, v, d, n)
                             /\ TargetFile(t, v2, d, n) = TargetFile(t, v, d, n)
         /\ ChosenIn(t, v2, d) = ChosenIn(t, v, d)
         /\ SepIn(t, v, d) => SepIn(t, v2, d)
         /\ \A E : MayIn(E, t, v, d) => MayIn(E, t, v2, d)
         /\ v2[k] = r /\ \A x \in Inodes \ {k} : v2[x] = v[x]
<1>c. \A n \in ChosenIn(t, v, d) : n \in Names
  BY DEF ChosenIn
<1>1. /\ \A p \in Path : /\ WalkIn(t, v2, p) = WalkIn(t, v, p)
                         /\ FileAt(t, v2, p) = FileAt(t, v, p)
                         /\ \A kind : IsA(t, v2, p, kind) <=> IsA(t, v, p, kind)
      /\ \A x \in Inodes \ {k} : v2[x] = v[x]
      /\ v2[k] = r
  <2>1. v2[k] = r /\ \A x \in Inodes \ {k} : v2[x] = v[x]
    BY DEF Changed, IsTree
  <2> QED
    BY <2>1, ChangedFile
<1>2. \A x \in Inodes : v2[x].kind = v[x].kind /\ v2[x].mode = v[x].mode
  BY <1>1 DEF Changed
<1>3. ASSUME NEW p \in Path
      PROVE  /\ MayRead(t, v2, p) <=> MayRead(t, v, p)
             /\ \A E : MayWrite(E, t, v2, p) <=> MayWrite(E, t, v, p)
  <2>1. WalkIn(t, v, p) \in Path /\ FileAt(t, v, p) \in Inodes \cup {0}
    BY WalkType
  <2>2. IsA(t, v, WalkIn(t, v, p), "file") => FileAt(t, v, p) # 0
    BY DEF IsA, FileAt
  <2>3. FileAt(t, v, p) # 0 => v2[FileAt(t, v, p)].mode = v[FileAt(t, v, p)].mode
    BY <1>2, <2>1
  <2> QED
    BY <1>1, <2>1, <2>2, <2>3 DEF MayRead, MayWrite
<1>4. ASSUME NEW n \in Names
      PROVE  /\ SourceFile(t, v2, d, n) = SourceFile(t, v, d, n)
             /\ TargetFile(t, v2, d, n) = TargetFile(t, v, d, n)
             /\ Target(t, v2, d, n) = Target(t, v, d, n)
             /\ MayRead(t, v2, <<d, n>>) <=> MayRead(t, v, <<d, n>>)
             /\ \A E : MayWrite(E, t, v2, NewPath(d, n)) <=> MayWrite(E, t, v, NewPath(d, n))
  <2>1. <<d, n>> \in Path /\ NewPath(d, n) \in Path
    BY NewPathType
  <2> QED
    BY <1>1, <1>3, <2>1 DEF SourceFile, TargetFile, Target
<1>5. ChosenIn(t, v2, d) = ChosenIn(t, v, d)
  <2>1. ASSUME NEW n \in Names PROVE n \in ChosenIn(t, v2, d) <=> n \in ChosenIn(t, v, d)
    <3>1. SourceFile(t, v2, d, n) = SourceFile(t, v, d, n)
      BY <1>4
    <3>2. SourceFile(t, v, d, n) \in Inodes \cup {0}
      BY ChosenFacts
    <3> QED
      BY <1>2, <3>1, <3>2 DEF ChosenIn
  <2> QED
    BY <2>1 DEF ChosenIn
<1>6. SepIn(t, v, d) => SepIn(t, v2, d)
  BY <1>4 DEF SepIn
<1>7. \A E : MayIn(E, t, v, d) => MayIn(E, t, v2, d)
  BY <1>c, <1>4, <1>5 DEF MayIn
<1> QED
  BY <1>1, <1>4, <1>5, <1>6, <1>7

\* A target that is there is emptied.
LEMMA WriteChanges ==
  ASSUME NEW D, NEW t, NEW v, IsTree(D, t, v), NEW d \in Dirs, SepIn(t, v, d),
         NEW c \in Names, NEW v2, NEW r,
         Changed(v, v2, TargetFile(t, v, d, c), r), r.mode = v[TargetFile(t, v, d, c)].mode
  PROVE  /\ Writes(D, t, v, t, v2, d, c)
         /\ TargetFile(t, v2, d, c) = TargetFile(t, v, d, c)
<1> DEFINE k == TargetFile(t, v, d, c)
<1>0. k \in Inodes
  BY DEF Changed
<1>1. /\ \A n \in Names : /\ SourceFile(t, v2, d, n) = SourceFile(t, v, d, n)
                          /\ TargetFile(t, v2, d, n) = TargetFile(t, v, d, n)
      /\ ChosenIn(t, v2, d) = ChosenIn(t, v, d)
      /\ SepIn(t, v2, d)
      /\ MayIn(D, t, v, d) => MayIn(D, t, v2, d)
      /\ \A x \in Inodes \ {k} : v2[x] = v[x]
  <2>1. Changed(v, v2, k, r) /\ r.mode = v[k].mode
    OBVIOUS
  <2> HIDE DEF k
  <2> QED
    BY <2>1, DataChanges
<1>2. ASSUME NEW n \in ChosenIn(t, v, d)
      PROVE  v2[SourceFile(t, v, d, n)].data = v[SourceFile(t, v, d, n)].data
  <2>1. n \in Names /\ SourceFile(t, v, d, n) \in Inodes
    BY ChosenFacts DEF ChosenIn
  <2>2. SourceFile(t, v, d, n) # k
    BY <1>0, <2>1 DEF SepIn
  <2> QED
    BY <1>1, <2>1, <2>2
<1>3. ASSUME NEW n \in Names \ {c}, TargetFile(t, v, d, n) # 0
      PROVE  v2[TargetFile(t, v, d, n)].data = v[TargetFile(t, v, d, n)].data
  <2>1. TargetFile(t, v, d, n) \in Inodes
    BY <1>3, ChosenFacts
  <2>2. TargetFile(t, v, d, n) # k
    BY <1>0, <2>1 DEF SepIn
  <2> QED
    BY <1>1, <2>1, <2>2
<1> QED
  BY <1>1, <1>2, <1>3 DEF Writes

\* A target that is created.
LEMMA WriteCreates ==
  ASSUME NEW D, NEW t, NEW v, IsTree(D, t, v), NEW d \in Dirs, SepIn(t, v, d),
         NEW c \in Names, NEW t2, NEW v2, NEW k, NEW r,
         r.kind = "file", "w" \in r.mode, TargetFile(t, v, d, c) = 0,
         Created(t, v, t2, v2, Target(t, v, d, c), k, r)
  PROVE  /\ Writes(D, t, v, t2, v2, d, c)
         /\ TargetFile(t2, v2, d, c) = k
<1> DEFINE w == Target(t, v, d, c)
<1>c. \A n \in ChosenIn(t, v, d) : n \in Names
  BY DEF ChosenIn
<1>0. k \in Inodes /\ v[k] = Free /\ w \in Path /\ NameAt(t, w) = 0 /\ w[1] # d
  BY DEF Created, SepIn
<1>a. Created(t, v, t2, v2, w, k, r)
  OBVIOUS
<1>b. w = WalkIn(t, v, NewPath(d, c))
  BY DEF Target
<1> HIDE DEF w
<1>1. ASSUME NEW p \in Path
      PROVE  /\ WalkIn(t2, v2, p) = WalkIn(t, v, p)
             /\ FileAt(t, v, p) # k
             /\ FileAt(t2, v2, p) = IF WalkIn(t, v, p) = w THEN k ELSE FileAt(t, v, p)
             /\ \A x \in Inodes \ {k} : v2[x] = v[x]
             /\ v2[k] = r
  BY <1>a, CreatedFile
<1>2. \A p \in Path : NameAt(t2, p) = IF p = w THEN k ELSE NameAt(t, p)
  <2>1. /\ t \in [Dirs -> [Names -> Inodes \cup {0}]] /\ w \in Path /\ k \in Inodes \cup {0}
        /\ Bound(t, t2, w, k)
    BY <1>0, <1>a DEF Created, IsTree
  <2> QED
    BY <2>1, BindFacts
<1>3. \A n \in Names : t2[d][n] = t[d][n]
  <2>1. ASSUME NEW n \in Names PROVE t2[d][n] = t[d][n]
    <3>1. <<d, n>> \in Path /\ <<d, n>> # w
      BY <1>0, NewPathType
    <3>2. NameAt(t2, <<d, n>>) = NameAt(t, <<d, n>>)
      BY <1>2, <3>1
    <3> QED
      BY <3>2 DEF NameAt
  <2> QED
    BY <2>1
\* The sources are not affected.
<1>4. ASSUME NEW n \in Names
      PROVE  /\ SourceFile(t2, v2, d, n) = SourceFile(t, v, d, n)
             /\ SourceFile(t, v, d, n) \in Inodes \cup {0}
             /\ SourceFile(t, v, d, n) # k
             /\ SourceFile(t, v, d, n) # 0 =>
                  /\ v2[SourceFile(t, v, d, n)] = v[SourceFile(t, v, d, n)]
                  /\ MayRead(t2, v2, <<d, n>>) <=> MayRead(t, v, <<d, n>>)
  <2> DEFINE u == WalkIn(t, v, <<d, n>>)
             s == SourceFile(t, v, d, n)
  <2>1. <<d, n>> \in Path /\ <<d, n>> # w
    BY <1>0, NewPathType
  <2>2. u \in Path /\ s \in Inodes \cup {0} /\ s = IF IsA(t, v, u, "symlink") THEN 0 ELSE NameAt(t, u)
    BY <2>1, WalkType DEF SourceFile, FileAt
  <2>3. u # w
    <3>1. CASE t[d][n] = 0
      BY <2>1, <3>1, NoNameThere DEF NameAt
    <3>2. CASE t[d][n] # 0
      <4>1. s # 0
        BY <3>2 DEF SepIn
      <4> HIDE DEF u, s
      <4> QED
        BY <1>0, <2>2, <4>1
    <3> QED
      BY <3>1, <3>2
  <2>4. /\ SourceFile(t2, v2, d, n) = s /\ s # k
        /\ WalkIn(t2, v2, <<d, n>>) = u
        /\ NameAt(t2, u) = NameAt(t, u)
        /\ FileAt(t, v, <<d, n>>) = s /\ FileAt(t2, v2, <<d, n>>) = s
        /\ \A x \in Inodes \ {k} : v2[x] = v[x]
    <3>1. /\ WalkIn(t2, v2, <<d, n>>) = u /\ FileAt(t, v, <<d, n>>) # k
          /\ FileAt(t2, v2, <<d, n>>) = FileAt(t, v, <<d, n>>)
          /\ \A x \in Inodes \ {k} : v2[x] = v[x]
      BY <1>1, <2>1, <2>3
    <3>2. NameAt(t2, u) = NameAt(t, u)
      BY <1>2, <2>2, <2>3
    <3> QED
      BY <3>1, <3>2 DEF SourceFile
  <2> HIDE DEF u
  <2>5. s # 0 => NameAt(t, u) = s
    BY <2>2
  <2> HIDE DEF s
  <2>6. s # 0 => v2[s] = v[s]
    BY <2>2, <2>4
  <2>7. s # 0 => (MayRead(t2, v2, <<d, n>>) <=> MayRead(t, v, <<d, n>>))
    BY <2>4, <2>5, <2>6 DEF MayRead, IsA, u
  <2> QED
    BY <2>2, <2>4, <2>6, <2>7 DEF s
\* Of the targets only that of c is.
<1>5. TargetFile(t2, v2, d, c) = k /\ Target(t2, v2, d, c) = w /\ v2[k] = r
  BY <1>1, <1>b, NewPathType DEF Target, TargetFile
<1>6. ASSUME NEW n \in Names \ {c}
      PROVE  /\ Target(t2, v2, d, n) = Target(t, v, d, n)
             /\ TargetFile(t2, v2, d, n) = TargetFile(t, v, d, n)
             /\ TargetFile(t, v, d, n) # k
             /\ TargetFile(t, v, d, n) # 0 => v2[TargetFile(t, v, d, n)] = v[TargetFile(t, v, d, n)]
             /\ \A E : MayWrite(E, t, v, NewPath(d, n)) => MayWrite(E, t2, v2, NewPath(d, n))
  <2> DEFINE u == WalkIn(t, v, NewPath(d, n))
             s == TargetFile(t, v, d, n)
  <2>1. NewPath(d, n) \in Path /\ u \in Path /\ s \in Inodes \cup {0}
    BY NewPathType, WalkType DEF TargetFile
  <2>2. u # w
    BY <1>6 DEF SepIn, Target, w
  <2>3. /\ WalkIn(t2, v2, NewPath(d, n)) = u /\ FileAt(t2, v2, NewPath(d, n)) = s
        /\ FileAt(t, v, NewPath(d, n)) = s /\ s # k
        /\ \A x \in Inodes \ {k} : v2[x] = v[x]
    BY <1>1, <2>1, <2>2 DEF TargetFile
  <2>4. NameAt(t2, u) = NameAt(t, u)
    BY <1>2, <2>1, <2>2
  <2>5. s # 0 => v2[s] = v[s]
    BY <2>1, <2>3
  <2>6. s = IF IsA(t, v, u, "symlink") THEN 0 ELSE NameAt(t, u)
    BY DEF TargetFile, FileAt
  <2>7. ASSUME NEW E, MayWrite(E, t, v, NewPath(d, n))
        PROVE  MayWrite(E, t2, v2, NewPath(d, n))
    <3>1. CASE IsA(t, v, u, "file") /\ "w" \in v[s].mode
      <4>1. NameAt(t, u) = s /\ s # 0 /\ v[s].kind = "file"
        BY <2>6, <3>1 DEF IsA
      <4> QED
        BY <2>3, <2>4, <2>5, <3>1, <4>1 DEF MayWrite, IsA
    <3>2. CASE u[1] \in E /\ NameAt(t, u) = 0
      BY <2>3, <2>4, <3>2 DEF MayWrite
    <3> QED
      BY <2>3, <2>7, <3>1, <3>2 DEF MayWrite
  <2> QED
    BY <2>3, <2>5, <2>7 DEF Target, TargetFile
<1>7. \A E : MayWrite(E, t2, v2, NewPath(d, c))
  <2>1. WalkIn(t2, v2, NewPath(d, c)) = w /\ FileAt(t2, v2, NewPath(d, c)) = k
    BY <1>5 DEF Target, TargetFile
  <2>2. NameAt(t2, w) = k /\ k # 0
    BY <1>0, <1>2
  <2> QED
    BY <1>5, <2>1, <2>2 DEF MayWrite, IsA
<1>8. ChosenIn(t2, v2, d) = ChosenIn(t, v, d)
  <2>1. ASSUME NEW n \in Names PROVE n \in ChosenIn(t2, v2, d) <=> n \in ChosenIn(t, v, d)
    BY <1>4 DEF ChosenIn
  <2> QED
    BY <2>1 DEF ChosenIn
<1>9. SepIn(t2, v2, d)
  <2>1. ASSUME NEW n \in Names, t2[d][n] # 0 PROVE SourceFile(t2, v2, d, n) # 0
    BY <1>3, <1>4, <2>1 DEF SepIn
  <2>2. ASSUME NEW m \in Names PROVE Target(t2, v2, d, m)[1] # d
    <3>1. Target(t2, v2, d, m) = Target(t, v, d, m)
      BY <1>5, <1>6 DEF w
    <3>2. Target(t, v, d, m)[1] # d
      BY DEF SepIn
    <3> QED
      BY <3>1, <3>2
  <2>3. ASSUME NEW m \in Names, NEW n \in Names
        PROVE  /\ TargetFile(t2, v2, d, m) = 0 \/ TargetFile(t2, v2, d, m) # SourceFile(t2, v2, d, n)
               /\ m # n => /\ Target(t2, v2, d, m) # Target(t2, v2, d, n)
                           /\ TargetFile(t2, v2, d, m) = 0 \/ TargetFile(t2, v2, d, m) # TargetFile(t2, v2, d, n)
    <3>1. /\ TargetFile(t, v, d, m) = 0 \/ TargetFile(t, v, d, m) # SourceFile(t, v, d, n)
          /\ m # n => /\ Target(t, v, d, m) # Target(t, v, d, n)
                      /\ TargetFile(t, v, d, m) = 0 \/ TargetFile(t, v, d, m) # TargetFile(t, v, d, n)
      BY DEF SepIn
    <3>2. SourceFile(t2, v2, d, n) = SourceFile(t, v, d, n) /\ SourceFile(t, v, d, n) # k
      BY <1>4
    <3>3. CASE m = c /\ n = c
      BY <1>5, <3>2, <3>3
    <3>4. CASE m = c /\ n # c
      BY <1>5, <1>6, <3>1, <3>2, <3>4 DEF w
    <3>5. CASE m # c /\ n = c
      BY <1>5, <1>6, <3>1, <3>2, <3>5 DEF w
    <3>6. CASE m # c /\ n # c
      BY <1>6, <3>1, <3>2, <3>6
    <3> QED
      BY <3>3, <3>4, <3>5, <3>6
  <2> QED
    BY <2>1, <2>2, <2>3 DEF SepIn
<1>m. MayIn(D, t, v, d) => MayIn(D, t2, v2, d)
  <2>1. ASSUME MayIn(D, t, v, d), NEW m \in ChosenIn(t, v, d)
        PROVE  /\ MayRead(t2, v2, <<d, m>>)
               /\ MayWrite(D \cup {RevDir[d]}, t2, v2, NewPath(d, m))
    <3>1. /\ m \in Names /\ SourceFile(t, v, d, m) # 0
          /\ MayRead(t, v, <<d, m>>) /\ MayWrite(D \cup {RevDir[d]}, t, v, NewPath(d, m))
      BY <2>1 DEF MayIn, ChosenIn
    <3> QED
      BY <1>4, <1>6, <1>7, <3>1
  <2> QED
    BY <1>8, <2>1 DEF MayIn
<1>10. Writes(D, t, v, t2, v2, d, c)
  <2>1. ASSUME NEW n \in ChosenIn(t, v, d)
        PROVE  v2[SourceFile(t, v, d, n)].data = v[SourceFile(t, v, d, n)].data
    BY <1>4, <1>c DEF ChosenIn
  <2> QED
    BY <1>3, <1>4, <1>6, <1>8, <1>9, <1>m, <2>1 DEF Writes
<1> QED
  BY <1>5, <1>10

\* The copy of n: the image of what n held.
Mirror(n) ==
  /\ TargetFile(tree, inode, src, n) # 0
  /\ inode[TargetFile(tree, inode, src, n)].data = Reverse(before[n])

\* What is known of a source that has been left alone.
Kept(n) ==
  /\ n \in ChosenIn(tree, inode, src)
  /\ inode[SourceFile(tree, inode, src, n)].data = before[n]
  /\ Copied(n) => Mirror(n)
  /\ Running => n \in stayed
  /\ rpc = "ended" => Copied(n)
  /\ rpc = "copy" => /\ g # SourceFile(tree, inode, src, n)
                     /\ n = e => /\ f = SourceFile(tree, inode, src, n)
                                 /\ g = TargetFile(tree, inode, src, n)
                     /\ n # e => g # TargetFile(tree, inode, src, n)

CalmInv ==
  calm => /\ SepIn(tree, inode, src)
          /\ \A n \in Names : before[n] # NotCopied => Kept(n)

NameInv == rpc \in {"readdir", "mkdir", "nodir"} => e = NoName

FitInv ==
  fit => /\ calm /\ rpc \notin {"nodir", "crashed", "hung"}
         /\ Running => MayIn(dirs, tree, inode, src)
         /\ rpc \in {"readdir", "open", "copy"} => RevDir[src] \in dirs
         /\ rpc = "open" => e \in ChosenIn(tree, inode, src)

RunInv == CalmInv /\ NameInv /\ FitInv

-----------------------------------------------------------------------------
(* A run in a directory that is its own reversal, without links.           *)

DataOf(n) == inode[tree[src][n]].data
PlainIn(t, v, d) ==
  \A n \in Names : t[d][n] = 0 \/ /\ v[t[d][n]].kind = "file"
                                  /\ \A m \in Names \ {n} : t[d][m] # t[d][n]

\* A file is one of two with each other's names, or its name is a palindrome.
Busy(n) == rpc = "copy" /\ n = e
Pair(n, m) ==
  /\ ~Copied(n) /\ ~Copied(m) /\ ~Busy(n) /\ ~Busy(m) =>
       before[n] = IF tree[src][n] # 0 THEN DataOf(n) ELSE NotCopied
  /\ (Copied(n) \/ Copied(m)) /\ ~Busy(n) /\ ~Busy(m) =>
       /\ tree[src][n] # 0 /\ tree[src][m] # 0
       /\ DataOf(m) = Reverse(DataOf(n))
       /\ DataOf(n) = before[n] \/ DataOf(m) = before[m]
  /\ Busy(n) =>
       /\ tree[src][n] # 0 /\ tree[src][m] # 0
       /\ DataOf(n) = before[n] \/ Reverse(DataOf(n)) = before[m]
Palindrome(n) == Copied(n) \/ Busy(n) => tree[src][n] # 0 /\ DataOf(n) = <<>>

OwnReversal == alone /\ RevDir[src] = src /\ PlainIn(tree, inode, src)

PalRun ==
  OwnReversal /\ Running =>
    /\ \A n \in Names : /\ n \in stayed => tree[src][n] # 0
                        /\ before[n] # NotCopied => n \in stayed
    /\ rpc \in {"open", "copy"} => e \in returned /\ tree[src][e] # 0
    /\ rpc = "copy" => f = tree[src][e] /\ g = tree[src][RevName[e]]
    /\ \A n \in Names : IF RevName[n] = n THEN Palindrome(n) ELSE Pair(n, RevName[n])

PalEnd ==
  OwnReversal /\ rpc = "ended" =>
    \A n \in Names : before[n] # NotCopied =>
      IF RevName[n] = n THEN DataOf(n) = <<>>
      ELSE /\ tree[src][RevName[n]] # 0
           /\ DataOf(RevName[n]) = Reverse(DataOf(n))
           /\ DataOf(n) = before[n] \/ DataOf(RevName[n]) = before[RevName[n]]

PalInv == PalRun /\ PalEnd

-----------------------------------------------------------------------------
\* The operators of ReverseCopy, as functions of the tree and the files.
LEMMA DirBridge ==
  ASSUME TreeOK, NEW d \in Dirs
  PROVE  /\ Chosen(d) = ChosenIn(tree, inode, d)
         /\ \A n \in Names :
              /\ Lookup(<<d, n>>) = tree[d][n]
              /\ Denotes(<<d, n>>) = SourceFile(tree, inode, d, n)
              /\ Denotes(NewPath(d, n)) = TargetFile(tree, inode, d, n)
              /\ Walk(NewPath(d, n)) = Target(tree, inode, d, n)
              /\ CanRead(<<d, n>>) <=> MayRead(tree, inode, <<d, n>>)
              /\ CanWrite(NewPath(d, n)) <=> MayWrite(dirs, tree, inode, NewPath(d, n))
<1>1. ASSUME NEW n \in Names
      PROVE  /\ Lookup(<<d, n>>) = tree[d][n]
             /\ Denotes(<<d, n>>) = SourceFile(tree, inode, d, n)
             /\ Denotes(NewPath(d, n)) = TargetFile(tree, inode, d, n)
             /\ Walk(NewPath(d, n)) = Target(tree, inode, d, n)
             /\ CanRead(<<d, n>>) <=> MayRead(tree, inode, <<d, n>>)
             /\ CanWrite(NewPath(d, n)) <=> MayWrite(dirs, tree, inode, NewPath(d, n))
  <2>1. <<d, n>> \in Path /\ NewPath(d, n) \in Path
    BY NewPathType
  <2>2. NameAt(tree, <<d, n>>) = tree[d][n]
    BY DEF NameAt
  <2> QED
    BY <2>1, <2>2, Bridge, OpenBridge DEF SourceFile, TargetFile, Target
<1>2. Chosen(d) = ChosenIn(tree, inode, d)
  BY <1>1 DEF Chosen, ChosenIn
<1> QED
  BY <1>1, <1>2

LEMMA CalmSeparates ==
  ASSUME TreeOK, NEW d \in Dirs, Calm(d)
  PROVE  SepIn(tree, inode, d)
<1>1. ASSUME NEW n \in Names, tree[d][n] # 0 PROVE SourceFile(tree, inode, d, n) # 0
  BY <1>1, DirBridge DEF Calm
<1>2. ASSUME NEW m \in Names PROVE Target(tree, inode, d, m)[1] # d
  BY DirBridge DEF Calm
<1>3. ASSUME NEW m \in Names, NEW n \in Names
      PROVE  /\ TargetFile(tree, inode, d, m) = 0
                \/ TargetFile(tree, inode, d, m) # SourceFile(tree, inode, d, n)
             /\ m # n => /\ Target(tree, inode, d, m) # Target(tree, inode, d, n)
                         /\ TargetFile(tree, inode, d, m) = 0
                            \/ TargetFile(tree, inode, d, m) # TargetFile(tree, inode, d, n)
  <2>1. /\ Denotes(NewPath(d, m)) # 0 =>
             /\ Denotes(NewPath(d, m)) # Denotes(<<d, n>>)
             /\ m # n => Denotes(NewPath(d, m)) # Denotes(NewPath(d, n))
        /\ m # n => Walk(NewPath(d, m)) # Walk(NewPath(d, n))
    BY DEF Calm
  <2>2. /\ Denotes(NewPath(d, m)) = TargetFile(tree, inode, d, m)
        /\ Walk(NewPath(d, m)) = Target(tree, inode, d, m)
        /\ Denotes(NewPath(d, n)) = TargetFile(tree, inode, d, n)
        /\ Walk(NewPath(d, n)) = Target(tree, inode, d, n)
        /\ Denotes(<<d, n>>) = SourceFile(tree, inode, d, n)
    BY DirBridge
  <2> QED
    BY <2>1, <2>2
<1> QED
  BY <1>1, <1>2, <1>3 DEF SepIn

\* A directory that Fit accepts is one in which all can be opened.
LEMMA StartFits ==
  ASSUME TreeOK, NEW d \in Dirs, Fit(d)
  PROVE  MayIn(dirs, tree, inode, d)
<1>0. IsTree(dirs, tree, inode)
  BY TreeOKIs
<1> SUFFICES ASSUME NEW m \in ChosenIn(tree, inode, d)
             PROVE  /\ MayRead(tree, inode, <<d, m>>)
                    /\ MayWrite(dirs \cup {RevDir[d]}, tree, inode, NewPath(d, m))
  BY DEF MayIn
<1>1. m \in Names /\ m \in Chosen(d)
  BY DirBridge DEF ChosenIn
<1>2. MayRead(tree, inode, <<d, m>>)
  BY <1>1, DirBridge DEF Fit
<1>3. CASE RevDir[d] \in dirs
  <2>1. MayWrite(dirs, tree, inode, NewPath(d, m))
    BY <1>1, <1>3, DirBridge DEF Fit
  <2> QED
    BY <1>2, <2>1 DEF MayWrite
<1>4. CASE RevDir[d] \notin dirs
  <2>0. NewPath(d, m) \in Path
    BY <1>1, NewPathType
  <2>1. NewPath(d, m) \in Path /\ NewPath(d, m)[1] = RevDir[d]
    BY <2>0 DEF NewPath
  <2>2. NameAt(tree, NewPath(d, m)) = 0
    BY <1>0, <1>4, <2>1, NameType
  <2>3. WalkIn(tree, inode, NewPath(d, m)) = NewPath(d, m)
    BY <2>2, NoNameThere
  <2> QED
    BY <1>2, <2>1, <2>2, <2>3 DEF MayWrite
<1> QED
  BY <1>3, <1>4

\* RunInv after each action of the copying program: the start of a run, the other
\* directory, a name read, the end, an interruption, a FIFO.
LEMMA RunStarts ==
  ASSUME TypeOK, NEW d \in Dirs, R_Start(d)
  PROVE  RunInv'
<1>0. TreeOK /\ IsTree(dirs, tree, inode)
  BY TreeOKIs DEF TypeOK
<1>1. /\ src' = d /\ rpc' = (IF d \in dirs THEN "mkdir" ELSE "nodir") /\ e' = NoName
      /\ returned' = {} /\ stayed' = {n \in Names : Lookup(<<d, n>>) # 0}
      /\ before' = [n \in Names |-> IF n \in Chosen(d) THEN inode[Denotes(<<d, n>>)].data ELSE NotCopied]
      /\ fit' = Fit(d) /\ calm' = Calm(d)
      /\ dirs' = dirs /\ tree' = tree /\ inode' = inode
  BY DEF R_Start, fs
<1>2. ASSUME calm' PROVE SepIn(tree', inode', src')
  BY <1>0, <1>1, <1>2, CalmSeparates
<1>3. ASSUME NEW n \in Names, before'[n] # NotCopied PROVE Kept(n)'
  <2>1. n \in Chosen(d) /\ before'[n] = inode[Denotes(<<d, n>>)].data
    BY <1>1, <1>3
  <2>2. /\ n \in ChosenIn(tree, inode, d) /\ Denotes(<<d, n>>) = SourceFile(tree, inode, d, n)
        /\ Lookup(<<d, n>>) = tree[d][n]
    BY <1>0, <2>1, DirBridge
  <2>3. tree[d][n] # 0
    BY <1>0, <2>2, ChosenFacts DEF ChosenIn
  <2> QED
    BY <1>1, <2>1, <2>2, <2>3 DEF Kept, Copied
<1>4. CalmInv' /\ NameInv'
  BY <1>1, <1>2, <1>3 DEF CalmInv, NameInv
<1>5. FitInv'
  <2>1. ASSUME Fit(d)
        PROVE  Calm(d) /\ d \in dirs /\ MayIn(dirs, tree, inode, d)
    BY <1>0, <2>1, StartFits DEF Fit
  <2> QED
    BY <1>1, <2>1 DEF FitInv
<1> QED
  BY <1>4, <1>5 DEF RunInv

LEMMA RunMakes ==
  ASSUME TypeOK, RunInv, R_Mkdir
  PROVE  RunInv'
<1>1. /\ rpc \in {"mkdir", "nodir"} /\ Running /\ e = NoName
      /\ dirs' = dirs \/ dirs' = dirs \cup {RevDir[src]}
      /\ fit' = (fit /\ RevDir[src] \in dirs')
      /\ rpc' = IF rpc = "mkdir" THEN "readdir" ELSE "crashed"
      /\ tree' = tree /\ inode' = inode /\ UNCHANGED <<src, e, returned, before, calm>>
      /\ rpc = "mkdir" => stayed' = stayed
  BY DEF R_Mkdir, Over, RunInv, NameInv, Running, Going
<1>2. ASSUME NEW n \in Names, Kept(n) PROVE Kept(n)'
  BY <1>1, <1>2 DEF Kept, Copied, Mirror, Running, Going
<1>3. CalmInv' /\ NameInv'
  BY <1>1, <1>2 DEF RunInv, CalmInv, NameInv
<1>4. FitInv'
  <2>1. MayIn(dirs, tree, inode, src) => MayIn(dirs', tree', inode', src')
    <3>1. dirs' \cup {RevDir[src]} = dirs \cup {RevDir[src]}
      BY <1>1
    <3> QED
      BY <1>1, <3>1 DEF MayIn
  <2> QED
    BY <1>1, <2>1 DEF RunInv, FitInv
<1> QED
  BY <1>3, <1>4 DEF RunInv

LEMMA RunReads ==
  ASSUME TypeOK, RunInv, R_Readdir
  PROVE  RunInv'
<1>0. TreeOK /\ src \in Dirs /\ rpc = "readdir" /\ Running /\ e = NoName
  BY DEF TypeOK, TypeOKReverse, R_Readdir, Running, Going, RunInv, NameInv
<1>1. /\ dirs' = dirs /\ tree' = tree /\ inode' = inode
      /\ UNCHANGED <<src, f, g, stayed, before, fit, calm>>
  BY DEF R_Readdir, fs, histories
<1>2. PICK n \in Names \ returned :
        /\ returned' = returned \cup {n}
        /\ \/ n \in Chosen(src) /\ rpc' = "open" /\ e' = n
           \/ n \notin Chosen(src) /\ UNCHANGED <<rpc, e>>
  BY DEF R_Readdir
<1>3. Chosen(src) = ChosenIn(tree, inode, src) /\ \A m \in Names : m # NoName
  BY <1>0, DirBridge, ReverseCopyAssumption DEF NoName
<1>4. ASSUME NEW m \in Names, Kept(m) PROVE Kept(m)'
  <2>1. m \in ChosenIn(tree, inode, src) /\ (m \in returned => Mirror(m))
    BY <1>0, <1>3, <1>4 DEF Kept, Copied
  <2>2. Copied(m)' => m \in returned
    BY <1>2, <1>3, <2>1 DEF Copied
  <2>3. Mirror(m) => Mirror(m)'
    BY <1>1 DEF Mirror
  <2>4. rpc' \in {"readdir", "open"}
    BY <1>0, <1>2
  <2> QED
    BY <1>0, <1>1, <1>4, <2>1, <2>2, <2>3, <2>4 DEF Kept
<1>5. CalmInv'
  BY <1>1, <1>4 DEF RunInv, CalmInv
<1>6. NameInv' /\ FitInv'
  BY <1>0, <1>1, <1>2, <1>3 DEF RunInv, NameInv, FitInv
<1> QED
  BY <1>5, <1>6 DEF RunInv

LEMMA RunFinishes ==
  ASSUME TypeOK, RunInv, R_End
  PROVE  RunInv'
<1>1. /\ rpc = "readdir" /\ Running /\ e = NoName /\ stayed \subseteq returned
      /\ dirs' = dirs /\ tree' = tree /\ inode' = inode
      /\ rpc' = "ended" /\ ~Running' /\ UNCHANGED <<src, e, returned, before, fit, calm>>
  BY DEF R_End, Over, fs, histories, Running, Going, RunInv, NameInv
<1>2. ASSUME NEW n \in Names, Kept(n) PROVE Kept(n)'
  <2>1. Copied(n)
    BY <1>1, <1>2, ReverseCopyAssumption DEF Kept, Copied, NoName
  <2> QED
    BY <1>1, <1>2, <2>1 DEF Kept, Copied, Mirror
<1>3. CalmInv'
  BY <1>1, <1>2 DEF RunInv, CalmInv
<1>4. NameInv' /\ FitInv'
  BY <1>1 DEF RunInv, NameInv, FitInv
<1> QED
  BY <1>3, <1>4 DEF RunInv

LEMMA RunStops ==
  ASSUME TypeOK, RunInv, R_Kill
  PROVE  RunInv'
<1>1. /\ dirs' = dirs /\ tree' = tree /\ inode' = inode
      /\ rpc' = "killed" /\ ~Running' /\ UNCHANGED <<src, e, returned, before, fit, calm>>
  BY DEF R_Kill, Over, fs, histories, Running, Going
<1>2. ASSUME NEW n \in Names, Kept(n) PROVE Kept(n)'
  BY <1>1, <1>2 DEF Kept, Copied, Mirror
<1>3. CalmInv'
  BY <1>1, <1>2 DEF RunInv, CalmInv
<1>4. NameInv' /\ FitInv'
  BY <1>1 DEF RunInv, NameInv, FitInv
<1> QED
  BY <1>3, <1>4 DEF RunInv

\* What can be opened when nothing stands in the way.
LEMMA FitOpens ==
  ASSUME TypeOK, RunInv, fit, rpc = "open"
  PROVE  CanRead(<<src, e>>) /\ CanWrite(NewPath(src, e))
<1>1. TreeOK /\ src \in Dirs /\ e \in Names /\ e \in ChosenIn(tree, inode, src)
  BY DEF TypeOK, TypeOKReverse, RunInv, FitInv
<1>2. MayIn(dirs, tree, inode, src) /\ dirs \cup {RevDir[src]} = dirs
  BY DEF RunInv, FitInv, Running, Going
<1>3. MayRead(tree, inode, <<src, e>>) /\ MayWrite(dirs, tree, inode, NewPath(src, e))
  BY <1>1, <1>2 DEF MayIn
<1> QED
  BY <1>1, <1>3, DirBridge

LEMMA RunHangs ==
  ASSUME TypeOK, RunInv, R_Hang
  PROVE  RunInv'
<1>1. /\ rpc = "open" /\ Running /\ Waits(<<src, e>>, NewPath(src, e))
      /\ dirs' = dirs /\ tree' = tree /\ inode' = inode
      /\ rpc' = "hung" /\ UNCHANGED <<src, e, returned, stayed, before, fit, calm>>
  BY DEF R_Hang, fs, histories, Running, Going
<1>2. ASSUME NEW n \in Names, Kept(n) PROVE Kept(n)'
  BY <1>1, <1>2 DEF Kept, Copied, Mirror
<1>3. CalmInv'
  BY <1>1, <1>2 DEF RunInv, CalmInv
<1>4. ~fit
  <2>1. ASSUME CanRead(<<src, e>>), CanWrite(NewPath(src, e)) PROVE FALSE
    BY <1>1, <2>1 DEF Waits, Blocks, CanRead, CanWrite, Is
  <2> QED
    BY <1>1, <2>1, FitOpens
<1>5. NameInv' /\ FitInv'
  BY <1>1, <1>4 DEF NameInv, FitInv
<1> QED
  BY <1>3, <1>5 DEF RunInv

\* What opening the copy of e leaves as it is.
LEMMA WritesKeep ==
  ASSUME NEW n \in Names, Kept(n), src' = src, before' = before,
         Writes(dirs, tree, inode, tree', inode', src, e)
  PROVE  /\ n \in ChosenIn(tree', inode', src')
         /\ SourceFile(tree', inode', src', n) = SourceFile(tree, inode, src, n)
         /\ inode'[SourceFile(tree', inode', src', n)].data = before'[n]
         /\ n # e /\ Mirror(n) => Mirror(n)'
<1>1. /\ n \in ChosenIn(tree', inode', src')
      /\ SourceFile(tree', inode', src', n) = SourceFile(tree, inode, src, n)
      /\ inode'[SourceFile(tree', inode', src', n)].data = before'[n]
  BY DEF Writes, Kept
<1>2. ASSUME n # e, Mirror(n) PROVE Mirror(n)'
  <2>1. /\ TargetFile(tree', inode', src, n) = TargetFile(tree, inode, src, n)
        /\ inode'[TargetFile(tree, inode, src, n)].data = inode[TargetFile(tree, inode, src, n)].data
    BY <1>2 DEF Writes, Mirror
  <2> QED
    BY <1>2, <2>1 DEF Mirror
<1> QED
  BY <1>1, <1>2

\* The target is emptied or created.
LEMMA OpenWrites ==
  ASSUME TypeOK, rpc = "open", SepIn(tree, inode, src), OpenNew(NewPath(src, e)),
         CanWrite(NewPath(src, e)), dirs' = dirs
  PROVE  /\ Writes(dirs, tree, inode, tree', inode', src, e)
         /\ TargetFile(tree', inode', src, e) =
              IF Denotes(NewPath(src, e)) = 0 THEN Fresh ELSE Denotes(NewPath(src, e))
         /\ TargetFile(tree', inode', src, e) # 0
<1>0. TreeOK /\ IsTree(dirs, tree, inode) /\ src \in Dirs /\ e \in Names
  BY TreeOKIs DEF TypeOK, TypeOKReverse
<1> DEFINE new == NewPath(src, e)
           k == TargetFile(tree, inode, src, e)
<1>1. new \in Path /\ Denotes(new) = k /\ Walk(new) = Target(tree, inode, src, e)
  BY <1>0, NewPathType, DirBridge
<1>2. OpenNew(new) /\ CanWrite(new)
  OBVIOUS
<1> HIDE DEF new
<1>3. CASE k # 0
  <2> DEFINE r == [inode[k] EXCEPT !.data = <<>>]
  <2>1. Make(k, r) /\ tree' = tree
    BY <1>1, <1>2, <1>3 DEF OpenNew
  <2>2. k \in Inodes /\ inode[k] \in Inode
    BY <1>0, <1>1, <1>2, <1>3, WriteFinds DEF TreeOK
  <2>3. r.kind = inode[k].kind /\ r.link = inode[k].link /\ r.mode = inode[k].mode
    BY <2>2 DEF Inode
  <2> HIDE DEF r
  <2>4. Changed(inode, inode', k, r)
    BY <2>1, <2>2, <2>3 DEF Changed, Make
  <2>5. Writes(dirs, tree, inode, tree, inode', src, e) /\ TargetFile(tree, inode', src, e) = k
    BY <1>0, <2>3, <2>4, WriteChanges
  <2> QED
    BY <1>1, <1>3, <2>1, <2>5 DEF new
<1>4. CASE k = 0
  <2> DEFINE r == File(<<>>, RW)
             w == Target(tree, inode, src, e)
  <2>1. Create(w, r)
    BY <1>1, <1>2, <1>4 DEF OpenNew
  <2>2. r.kind = "file" /\ "w" \in r.mode
    BY DEF File, RW
  <2>3. w \in Path /\ NameAt(tree, w) = 0
    BY <1>0, <1>1, <1>2, <1>4, WriteFinds
  <2> HIDE DEF r
  <2>4. Created(tree, inode, tree', inode', w, Fresh, r) /\ Fresh \in Inodes
    <3> HIDE DEF w
    <3> QED
      BY <1>0, <2>1, <2>3, CreateIs
  <2>5. /\ Writes(dirs, tree, inode, tree', inode', src, e)
        /\ TargetFile(tree', inode', src, e) = Fresh
    BY <1>0, <1>4, <2>2, <2>4, WriteCreates
  <2> QED
    BY <1>1, <1>4, <2>4, <2>5 DEF new
<1> QED
  BY <1>3, <1>4

\* The source is opened, the target emptied or created.
LEMMA RunOpens ==
  ASSUME TypeOK, RunInv, R_Open
  PROVE  RunInv'
<1> DEFINE old == <<src, e>>
           new == NewPath(src, e)
<1>0. TreeOK /\ src \in Dirs /\ rpc = "open" /\ Running /\ e \in Names
  BY DEF TypeOK, TypeOKReverse, R_Open, Running, Going
<1>1. /\ OpenNew(new) /\ Opens(old, new, CanRead(old) /\ CanWrite(new))
      /\ UNCHANGED <<dirs, src, runs, before, fit, calm>>
  BY DEF R_Open, histories
<1>2. /\ Denotes(old) = SourceFile(tree, inode, src, e)
      /\ Denotes(new) = TargetFile(tree, inode, src, e)
  BY <1>0, DirBridge
<1>a. fit => calm /\ CanRead(old) /\ CanWrite(new)
  BY <1>0, FitOpens DEF RunInv, FitInv
<1>b. SepIn(tree, inode, src) /\ CanWrite(new) =>
        /\ Writes(dirs, tree, inode, tree', inode', src, e)
        /\ TargetFile(tree', inode', src, e) = (IF Denotes(new) = 0 THEN Fresh ELSE Denotes(new))
        /\ TargetFile(tree', inode', src, e) # 0
  BY <1>0, <1>1, OpenWrites
<1> HIDE DEF old, new
<1>3. /\ e' = e /\ returned' = returned
      /\ \/ /\ CanRead(old) /\ CanWrite(new) /\ rpc' = "copy" /\ stayed' = stayed
            /\ f' = Denotes(old) /\ g' = IF Denotes(new) = 0 THEN Fresh ELSE Denotes(new)
         \/ ~(CanRead(old) /\ CanWrite(new)) /\ rpc' = "crashed" /\ ~Running'
  BY <1>1 DEF Opens, Over, Running, Going
<1>4. CASE ~calm
  BY <1>1, <1>3, <1>4, <1>a DEF RunInv, CalmInv, NameInv, FitInv
<1>5. CASE calm /\ ~CanWrite(new)
  <2>1. tree' = tree /\ inode' = inode /\ rpc' = "crashed" /\ ~Running'
    BY <1>1, <1>3, <1>5 DEF OpenNew
  <2>2. ASSUME NEW n \in Names, Kept(n) PROVE Kept(n)'
    BY <1>1, <1>3, <2>1, <2>2 DEF Kept, Copied, Mirror
  <2>3. CalmInv'
    BY <1>1, <2>1, <2>2 DEF RunInv, CalmInv
  <2> QED
    BY <1>1, <1>5, <1>a, <2>1, <2>3 DEF RunInv, NameInv, FitInv
<1>6. CASE calm /\ CanWrite(new)
  <2>1. /\ Writes(dirs, tree, inode, tree', inode', src, e) /\ SepIn(tree', inode', src)
        /\ TargetFile(tree', inode', src, e) = (IF Denotes(new) = 0 THEN Fresh ELSE Denotes(new))
        /\ TargetFile(tree', inode', src, e) # 0
    BY <1>6, <1>b DEF RunInv, CalmInv, Writes
  <2>2. ASSUME NEW n \in Names, Kept(n) PROVE Kept(n)'
    <3>1. /\ n \in ChosenIn(tree', inode', src')
          /\ SourceFile(tree', inode', src', n) = SourceFile(tree, inode, src, n)
          /\ inode'[SourceFile(tree', inode', src', n)].data = before'[n]
          /\ n # e /\ Mirror(n) => Mirror(n)'
      BY <1>1, <2>1, <2>2, WritesKeep
    <3>2. Copied(n)' => Mirror(n)'
      BY <1>3, <2>2, <3>1 DEF Kept, Copied
    <3>3. Running' => n \in stayed'
      BY <1>0, <1>3, <2>2 DEF Kept
    <3>4. rpc' = "copy" => g' = TargetFile(tree', inode', src', e) /\ f' = SourceFile(tree, inode, src, e)
      BY <1>1, <1>2, <1>3, <2>1
    <3>5. /\ TargetFile(tree', inode', src', e) # SourceFile(tree', inode', src', n)
          /\ n # e => TargetFile(tree', inode', src', e) # TargetFile(tree', inode', src', n)
      <4>1. PICK c \in Names : c = e
        BY <1>0
      <4> QED
        BY <1>1, <2>1, <4>1 DEF SepIn
    <3>6. rpc' = "copy" => /\ g' # SourceFile(tree', inode', src', n)
                           /\ n = e' => /\ f' = SourceFile(tree', inode', src', n)
                                        /\ g' = TargetFile(tree', inode', src', n)
                           /\ n # e' => g' # TargetFile(tree', inode', src', n)
      BY <1>3, <3>1, <3>4, <3>5
    <3> QED
      BY <1>3, <3>1, <3>2, <3>3, <3>6 DEF Kept
  <2>3. CalmInv'
    BY <1>1, <2>1, <2>2 DEF RunInv, CalmInv
  <2>4. NameInv'
    BY <1>3 DEF NameInv
  <2>5. FitInv'
    BY <1>0, <1>1, <1>3, <1>a, <2>1 DEF RunInv, FitInv, Writes
  <2> QED
    BY <2>3, <2>4, <2>5 DEF RunInv
<1> QED
  BY <1>4, <1>5, <1>6

\* The target is written.
LEMMA RunCopies ==
  ASSUME TypeOK, RunInv, R_Copy
  PROVE  RunInv'
<1>0. /\ TreeOK /\ IsTree(dirs, tree, inode) /\ src \in Dirs /\ rpc = "copy" /\ Running
      /\ f \in Inodes /\ g \in Inodes /\ inode[g] \in Inode
  BY TreeOKIs DEF TypeOK, TypeOKReverse, R_Copy, Running, Going, TreeOK
<1> DEFINE r == [inode[g] EXCEPT !.data = Reverse(inode[f].data)]
<1>1. /\ Make(g, r) /\ rpc' = "readdir" /\ e' = NoName /\ tree' = tree /\ Running'
      /\ UNCHANGED <<dirs, src, returned, stayed, before, fit, calm>>
  BY DEF R_Copy, histories, Running, Going
<1>2. /\ r.kind = inode[g].kind /\ r.link = inode[g].link /\ r.mode = inode[g].mode
      /\ r.data = Reverse(inode[f].data)
  BY <1>0 DEF Inode
<1> HIDE DEF r
<1>3. Changed(inode, inode', g, r)
  BY <1>0, <1>1, <1>2 DEF Changed, Make
<1>4. /\ \A n \in Names : /\ SourceFile(tree, inode', src, n) = SourceFile(tree, inode, src, n)
                          /\ TargetFile(tree, inode', src, n) = TargetFile(tree, inode, src, n)
      /\ ChosenIn(tree, inode', src) = ChosenIn(tree, inode, src)
      /\ SepIn(tree, inode, src) => SepIn(tree, inode', src)
      /\ MayIn(dirs, tree, inode, src) => MayIn(dirs, tree, inode', src)
      /\ inode'[g] = r /\ \A x \in Inodes \ {g} : inode'[x] = inode[x]
  BY <1>0, <1>2, <1>3, DataChanges
<1>5. ASSUME NEW n \in Names, Kept(n) PROVE Kept(n)'
  <2>0. SourceFile(tree, inode, src, n) \in Inodes /\ TargetFile(tree, inode, src, n) \in Inodes \cup {0}
    BY <1>0, <1>5, ChosenFacts DEF Kept, ChosenIn
  <2>1. n \in ChosenIn(tree', inode', src') /\ SourceFile(tree', inode', src', n) = SourceFile(tree, inode, src, n)
    BY <1>1, <1>4, <1>5 DEF Kept
  <2>2. inode'[SourceFile(tree', inode', src', n)].data = before'[n]
    BY <1>0, <1>1, <1>4, <1>5, <2>0, <2>1 DEF Kept
  <2>3. ASSUME n \in returned PROVE Mirror(n)'
    <3>1. CASE n = e
      <4>1. /\ g = TargetFile(tree, inode, src, n) /\ f = SourceFile(tree, inode, src, n)
            /\ inode[f].data = before[n]
        BY <1>0, <1>5, <3>1 DEF Kept
      <4>2. TargetFile(tree', inode', src', n) = g /\ g # 0 /\ inode'[g].data = Reverse(before[n])
        BY <1>0, <1>1, <1>2, <1>4, <4>1
      <4> QED
        BY <1>1, <4>2 DEF Mirror
    <3>2. CASE n # e
      <4>1. Mirror(n) /\ g # TargetFile(tree, inode, src, n)
        BY <1>0, <1>5, <2>3, <3>2 DEF Kept, Copied
      <4>2. inode'[TargetFile(tree, inode, src, n)] = inode[TargetFile(tree, inode, src, n)]
        BY <1>4, <2>0, <4>1 DEF Mirror
      <4> QED
        BY <1>1, <1>4, <4>1, <4>2 DEF Mirror
    <3> QED
      BY <3>1, <3>2
  <2>4. Running' => n \in stayed'
    BY <1>0, <1>1, <1>5 DEF Kept
  <2>5. Copied(n)' => n \in returned
    BY <1>1 DEF Copied
  <2> QED
    BY <1>1, <2>1, <2>2, <2>3, <2>4, <2>5 DEF Kept
<1>6. CalmInv'
  BY <1>1, <1>4, <1>5 DEF RunInv, CalmInv
<1>7. NameInv' /\ FitInv'
  BY <1>0, <1>1, <1>4 DEF RunInv, NameInv, FitInv
<1> QED
  BY <1>6, <1>7 DEF RunInv

\* Where paths lead and what Calm says, in the state after a step.
BridgeOK == TreeOK => /\ \A p \in Path : Denotes(p) = FileAt(tree, inode, p)
                      /\ \A d \in Dirs : Calm(d) => SepIn(tree, inode, d)
LEMMA BridgeNow == BridgeOK
  BY Bridge, CalmSeparates DEF BridgeOK
LEMMA BridgeThen == BridgeOK'
  BY BridgeNow, PTL

\* A command of somebody else leaves what it does not touch.
LEMMA RunDisturbed ==
  ASSUME TypeOK, RunInv, Command, Disturbed, TreeOK', KindsKept, DataKept
  PROVE  RunInv'
<1>0. TreeOK /\ IsTree(dirs, tree, inode) /\ IsTree(dirs', tree', inode') /\ src \in Dirs
  BY TreeOKIs DEF TypeOK, TypeOKReverse, TreeOK, IsTree
<1>1. /\ UNCHANGED <<rpc, src, e, f, g>> /\ (Running' <=> Running)
      /\ returned' = {n \in returned : tree'[src][n] # 0}
      /\ stayed' = {n \in stayed : tree'[src][n] # 0}
      /\ before' = [n \in Names |->
           IF \A p \in {<<src, n>>, NewPath(src, n)} : Denotes(p)' = Denotes(p)
           THEN before[n] ELSE NotCopied]
      /\ fit' = FALSE /\ calm' = (calm /\ Calm(src)')
  BY DEF Command, Disturbed, Running, Going
<1>2. /\ \A p \in Path : Denotes(p) = FileAt(tree, inode, p) /\ Denotes(p)' = FileAt(tree', inode', p)
      /\ Calm(src)' => SepIn(tree', inode', src')
  BY <1>0, <1>1, BridgeNow, BridgeThen DEF BridgeOK
<1>3. ASSUME calm', NEW n \in Names, before'[n] # NotCopied PROVE Kept(n)'
  <2>1. /\ before'[n] = before[n]
        /\ SourceFile(tree', inode', src, n) = SourceFile(tree, inode, src, n)
        /\ TargetFile(tree', inode', src, n) = TargetFile(tree, inode, src, n)
    <3>1. <<src, n>> \in Path /\ NewPath(src, n) \in Path
      BY <1>0, NewPathType
    <3>2. before'[n] = before[n] /\ \A p \in {<<src, n>>, NewPath(src, n)} : Denotes(p)' = Denotes(p)
      BY <1>1, <1>3
    <3> QED
      BY <1>2, <3>1, <3>2 DEF SourceFile, TargetFile
  <2>2. Kept(n)
    BY <1>1, <1>3, <2>1 DEF RunInv, CalmInv
  <2> DEFINE s == SourceFile(tree, inode, src, n)
             k == TargetFile(tree, inode, src, n)
  <2>3. /\ s \in Inodes /\ inode[s].kind # "free"
        /\ k # 0 => k \in Inodes /\ inode[k].kind # "free"
    <3>1. <<src, n>> \in Path /\ NewPath(src, n) \in Path
      BY <1>0, NewPathType
    <3>2. s # 0
      BY <2>2 DEF Kept, ChosenIn
    <3> QED
      BY <1>0, <3>1, <3>2, WalkType DEF SourceFile, TargetFile
  <2>4. /\ inode'[s].kind = inode[s].kind /\ inode'[s].data = inode[s].data
        /\ k # 0 => inode'[k].data = inode[k].data
    BY <2>3 DEF KindsKept, DataKept
  <2>5. n \in ChosenIn(tree', inode', src')
    BY <1>1, <2>1, <2>2, <2>4 DEF Kept, ChosenIn
  <2>6. tree'[src][n] # 0
    BY <1>0, <1>1, <2>5, ChosenFacts DEF ChosenIn
  <2>7. Copied(n)' <=> Copied(n)
    BY <1>1, <2>6 DEF Copied
  <2>8. Mirror(n) => Mirror(n)'
    BY <1>1, <2>1, <2>4 DEF Mirror
  <2>9. Running' => n \in stayed'
    BY <1>1, <2>2, <2>6 DEF Kept
  <2> QED
    BY <1>1, <2>1, <2>2, <2>4, <2>5, <2>7, <2>8, <2>9 DEF Kept
<1>4. CalmInv'
  BY <1>1, <1>2, <1>3 DEF CalmInv
<1>5. NameInv' /\ FitInv'
  BY <1>1 DEF RunInv, NameInv, FitInv
<1> QED
  BY <1>4, <1>5 DEF RunInv

LEMMA RunElse ==
  ASSUME RunInv, UNCHANGED <<fs, local>>
  PROVE  RunInv'
<1>1. /\ dirs' = dirs /\ tree' = tree /\ inode' = inode
      /\ UNCHANGED <<rpc, src, e, f, g, returned, stayed, before, fit, calm>>
  BY DEF fs, local, histories
<1>2. Running' = Running
  BY <1>1 DEF Running, Going
<1>3. \A n : Kept(n)' = Kept(n)
  BY <1>1, <1>2 DEF Kept, Copied, Mirror
<1>4. CalmInv' /\ NameInv'
  BY <1>1, <1>3 DEF RunInv, CalmInv, NameInv
<1>5. FitInv'
  BY <1>1, <1>2 DEF RunInv, FitInv
<1> QED
  BY <1>4, <1>5 DEF RunInv

\* A step is one of the copying program, a command, or leaves the run alone.
LEMMA NextIs ==
  ASSUME TypeOK, [Next]_vars
  PROVE  \/ R_Mkdir \/ R_Readdir \/ R_End \/ R_Open \/ R_Hang \/ R_Copy \/ R_Kill
         \/ \E d \in Dirs : R_Start(d)
         \/ Command /\ Disturbed /\ TreeOK' /\ KindsKept /\ DataKept
         \/ UNCHANGED <<fs, local>>
<1>1. CASE Commands
  BY <1>1, Steps, PrintingIs
<1>2. CASE UNCHANGED vars
  BY <1>2 DEF vars
<1> QED
  BY <1>1, <1>2 DEF Next, Reversing, Reverser, Others

LEMMA RunInvStep ==
  ASSUME TypeOK, RunInv, [Next]_vars
  PROVE  RunInv'
  BY NextIs, RunStarts, RunMakes, RunReads, RunFinishes, RunStops, RunHangs, RunOpens,
     RunCopies, RunDisturbed, RunElse

LEMMA RunInvInit == Init => RunInv
  BY DEF Init, RInit, RunInv, CalmInv, NameInv, FitInv

LEMMA RunInvHolds == Spec => []RunInv
<1>1. TypeOK /\ RunInv /\ [Next]_vars => RunInv'
  BY RunInvStep
<1> QED
  BY <1>1, RunInvInit, TypeInvariance, PTL DEF Spec

LEMMA RunGoesWell == TypeOK /\ RunInv => CopiesWell
<1> SUFFICES ASSUME TypeOK, RunInv PROVE CopiesWell
  OBVIOUS
<1>1. RunsThrough
  BY DEF RunInv, FitInv, RunsThrough
<1>2. ASSUME calm, NEW n \in Names, before[n] # NotCopied
      PROVE  /\ Data(<<src, n>>) = before[n]
             /\ Copied(n) => Denotes(NewPath(src, n)) # 0
                             /\ Data(NewPath(src, n)) = Reverse(before[n])
             /\ rpc = "ended" => Copied(n)
  <2>0. TreeOK /\ src \in Dirs /\ Kept(n)
    BY <1>2 DEF TypeOK, TypeOKReverse, RunInv, CalmInv
  <2>1. /\ Denotes(<<src, n>>) = SourceFile(tree, inode, src, n)
        /\ Denotes(NewPath(src, n)) = TargetFile(tree, inode, src, n)
    BY <2>0, DirBridge
  <2> QED
    BY <2>0, <2>1 DEF Kept, Mirror, Data
<1> QED
  BY <1>1, <1>2 DEF CopiesWell, Mirrored

\* As long as no copy comes to lie in the place of a source or of another copy, the
\* copying program keeps the sources that are left alone, mirrors each it has
\* copied, and copies them all before it ends, whatever others do meanwhile and
\* wherever it is interrupted; a run that nothing stands in the way of and nobody
\* disturbs does not crash and waits for nobody (3.c:27-60): in a directory of any
\* size, with hard and symbolic links, after any other runs.
THEOREM CopiesWellHolds == Spec => []CopiesWell
  BY RunInvHolds, RunGoesWell, TypeInvariance, PTL

-----------------------------------------------------------------------------
(* What is lost in a directory that is its own reversal.                   *)

\* In a plain directory a name leads to its own file, and no other name does.
LEMMA PlainFacts ==
  ASSUME TreeOK, NEW d \in Dirs, PlainIn(tree, inode, d), RevDir[d] = d, NEW n \in Names
  PROVE  /\ RevName[n] \in Names /\ NewPath(d, n) = <<d, RevName[n]>>
         /\ Lookup(<<d, n>>) = tree[d][n] /\ Denotes(<<d, n>>) = tree[d][n]
         /\ Walk(NewPath(d, n)) = NewPath(d, n)
         /\ Denotes(NewPath(d, n)) = tree[d][RevName[n]]
         /\ n \in Chosen(d) <=> tree[d][n] # 0
         /\ tree[d][n] \in Inodes \cup {0}
         /\ tree[d][n] # 0 => d \in dirs
<1>1. /\ RevName[n] \in Names /\ NewPath(d, n) = <<d, RevName[n]>>
      /\ <<d, n>> \in Path /\ NewPath(d, n) \in Path
  BY NewPathType
<1>2. ASSUME NEW m \in Names
      PROVE  WalkIn(tree, inode, <<d, m>>) = <<d, m>> /\ FileAt(tree, inode, <<d, m>>) = tree[d][m]
  <2>1. NameAt(tree, <<d, m>>) = tree[d][m]
    BY DEF NameAt
  <2>2. ~IsA(tree, inode, <<d, m>>, "symlink")
    BY <2>1 DEF PlainIn, IsA
  <2>3. HopIn(tree, inode, <<d, m>>) = <<d, m>>
    BY <2>2 DEF HopIn
  <2> QED
    BY <2>1, <2>2, <2>3 DEF WalkIn, FileAt
<1>3. /\ Lookup(<<d, n>>) = tree[d][n] /\ Denotes(<<d, n>>) = tree[d][n]
      /\ Walk(NewPath(d, n)) = NewPath(d, n) /\ Denotes(NewPath(d, n)) = tree[d][RevName[n]]
  BY <1>1, <1>2, Bridge DEF NameAt
<1>4. n \in Chosen(d) <=> tree[d][n] # 0
  BY <1>3 DEF Chosen, PlainIn
<1>5. tree[d][n] \in Inodes \cup {0} /\ (tree[d][n] # 0 => d \in dirs)
  BY DEF TreeOK
<1> QED
  BY <1>1, <1>3, <1>4, <1>5

\* Names are kept and files stay files: a directory that is plain was plain.
LEMMA PlainBack ==
  ASSUME TreeOK, NEW d \in Dirs, KindsKept, PlainIn(tree', inode', d),
         \A n \in Names : tree[d][n] # 0 => tree'[d][n] = tree[d][n]
  PROVE  PlainIn(tree, inode, d)
<1> SUFFICES ASSUME NEW n \in Names, tree[d][n] # 0
             PROVE  /\ inode[tree[d][n]].kind = "file"
                    /\ \A m \in Names \ {n} : tree[d][m] # tree[d][n]
  BY DEF PlainIn
<1>1. tree[d][n] \in Inodes /\ inode[tree[d][n]].kind # "free"
  BY DEF TreeOK
<1>2. inode[tree[d][n]].kind = "file"
  BY <1>1 DEF KindsKept, PlainIn
<1>3. ASSUME NEW m \in Names \ {n} PROVE tree[d][m] # tree[d][n]
  BY DEF PlainIn
<1> QED
  BY <1>2, <1>3

\* PalInv after each action: the start of a run, the other directory, a name read,
\* the end, a FIFO.
LEMMA PalStarts ==
  ASSUME TypeOK, NEW d \in Dirs, R_Start(d)
  PROVE  PalInv'
<1>0. TreeOK
  BY DEF TypeOK
<1>1. /\ src' = d /\ rpc' \in {"mkdir", "nodir"} /\ returned' = {}
      /\ stayed' = {n \in Names : Lookup(<<d, n>>) # 0}
      /\ before' = [n \in Names |-> IF n \in Chosen(d) THEN inode[Denotes(<<d, n>>)].data ELSE NotCopied]
      /\ tree' = tree /\ inode' = inode
  BY DEF R_Start, fs
<1>2. ASSUME OwnReversal' PROVE PalRun'
  <2>1. RevDir[d] = d /\ PlainIn(tree, inode, d)
    BY <1>1, <1>2 DEF OwnReversal
  <2>2. ASSUME NEW n \in Names
        PROVE  /\ before'[n] = IF tree[d][n] # 0 THEN inode[tree[d][n]].data ELSE NotCopied
               /\ n \in stayed' <=> tree[d][n] # 0
    BY <1>0, <1>1, <2>1, PlainFacts
  <2>3. ASSUME NEW n \in Names
        PROVE  IF RevName[n] = n THEN Palindrome(n)' ELSE Pair(n, RevName[n])'
    <3>1. ~Copied(n)' /\ ~Busy(n)' /\ ~Copied(RevName[n])' /\ ~Busy(RevName[n])'
      BY <1>1 DEF Copied, Busy
    <3>2. before'[n] = IF tree'[src'][n] # 0 THEN DataOf(n)' ELSE NotCopied
      BY <1>1, <2>2 DEF DataOf
    <3> QED
      BY <3>1, <3>2 DEF Palindrome, Pair
  <2> QED
    BY <1>1, <2>2, <2>3 DEF PalRun
<1> QED
  BY <1>1, <1>2 DEF PalInv, PalRun, PalEnd

\* The steps that leave the files, and what has been copied, as they are.
LEMMA PalSame ==
  ASSUME PalInv, Running, rpc # "copy", rpc' \notin {"copy", "ended"},
         UNCHANGED <<tree, inode, src, before, alone>>,
         Running' => stayed' = stayed,
         OwnReversal => /\ \A n \in Names : Copied(n)' <=> Copied(n)
                        /\ rpc' = "open" => e' \in returned' /\ tree[src][e'] # 0
  PROVE  PalInv'
<1>1. ASSUME OwnReversal', Running' PROVE PalRun'
  <2>1. OwnReversal
    BY <1>1 DEF OwnReversal
  <2>2. \A n \in Names : (Copied(n)' <=> Copied(n)) /\ ~Busy(n) /\ ~Busy(n)' /\ DataOf(n)' = DataOf(n)
    BY <2>1 DEF Busy, DataOf
  <2>3. ASSUME NEW n \in Names
        PROVE  IF RevName[n] = n THEN Palindrome(n)' ELSE Pair(n, RevName[n])'
    <3>1. RevName[n] \in Names
      BY ReverseCopyAssumption
    <3>2. IF RevName[n] = n THEN Palindrome(n) ELSE Pair(n, RevName[n])
      BY <2>1 DEF PalInv, PalRun
    <3> QED
      BY <2>2, <3>1, <3>2 DEF Palindrome, Pair
  <2> QED
    BY <1>1, <2>1, <2>3 DEF PalInv, PalRun
<1> QED
  BY <1>1 DEF PalInv, PalRun, PalEnd

LEMMA PalMakes ==
  ASSUME TypeOK, PalInv, NameInv, R_Mkdir \/ R_Hang
  PROVE  PalInv'
<1>1. /\ Running /\ rpc # "copy" /\ rpc' \in {"readdir", "crashed", "hung"}
      /\ UNCHANGED <<tree, inode, src, e, returned, before, alone>>
      /\ Running' => stayed' = stayed
  BY DEF R_Mkdir, R_Hang, Over, Running, Going, fs, histories
<1>2. \A n \in Names : Copied(n)' <=> Copied(n)
  BY <1>1 DEF Copied
<1> QED
  BY <1>1, <1>2, PalSame

LEMMA PalReads ==
  ASSUME TypeOK, PalInv, NameInv, R_Readdir
  PROVE  PalInv'
<1>0. TreeOK /\ src \in Dirs /\ rpc = "readdir" /\ Running /\ e = NoName
  BY DEF TypeOK, TypeOKReverse, R_Readdir, Running, Going, NameInv
<1>1. UNCHANGED <<tree, inode, src, stayed, before, alone>>
  BY DEF R_Readdir, fs, histories
<1>2. PICK c \in Names \ returned :
        /\ Lookup(<<src, c>>) # 0 /\ returned' = returned \cup {c}
        /\ \/ c \in Chosen(src) /\ rpc' = "open" /\ e' = c
           \/ c \notin Chosen(src) /\ UNCHANGED <<rpc, e>>
  BY DEF R_Readdir
<1>3. rpc # "copy" /\ rpc' \notin {"copy", "ended"}
  BY <1>0, <1>2
<1>4. ASSUME OwnReversal
      PROVE  /\ \A n \in Names : Copied(n)' <=> Copied(n)
             /\ rpc' = "open" => e' \in returned' /\ tree[src][e'] # 0
  <2>1. c \in Chosen(src) /\ tree[src][c] # 0
    BY <1>0, <1>2, <1>4, PlainFacts DEF OwnReversal
  <2>2. rpc' = "open" /\ e' = c /\ c \in returned'
    BY <1>2, <2>1
  <2>3. ASSUME NEW n \in Names PROVE Copied(n)' <=> Copied(n)
    BY <1>0, <1>2, <2>2, ReverseCopyAssumption DEF Copied, NoName
  <2> QED
    BY <2>1, <2>2, <2>3
<1> QED
  BY <1>0, <1>1, <1>3, <1>4, PalSame

LEMMA PalFinishes ==
  ASSUME TypeOK, PalInv, NameInv, R_End
  PROVE  PalInv'
<1>0. TreeOK /\ src \in Dirs /\ rpc = "readdir" /\ Running /\ e = NoName
  BY DEF TypeOK, TypeOKReverse, R_End, Running, Going, NameInv
<1>1. /\ UNCHANGED <<tree, inode, src, before, alone>> /\ rpc' = "ended" /\ ~Running'
      /\ stayed \subseteq returned
  BY DEF R_End, Over, fs, histories, Running, Going
<1>2. ASSUME OwnReversal', NEW n \in Names, before[n] # NotCopied
      PROVE  IF RevName[n] = n THEN DataOf(n) = <<>>
             ELSE /\ tree[src][RevName[n]] # 0
                  /\ DataOf(RevName[n]) = Reverse(DataOf(n))
                  /\ DataOf(n) = before[n] \/ DataOf(RevName[n]) = before[RevName[n]]
  <2>1. OwnReversal
    BY <1>1, <1>2 DEF OwnReversal
  <2>2. n \in stayed
    BY <1>0, <1>2, <2>1 DEF PalInv, PalRun
  <2>3. Copied(n) /\ ~Busy(n) /\ ~Busy(RevName[n])
    BY <1>0, <1>1, <2>2, ReverseCopyAssumption DEF Copied, Busy, NoName
  <2>4. IF RevName[n] = n THEN Palindrome(n) ELSE Pair(n, RevName[n])
    BY <1>0, <2>1 DEF PalInv, PalRun
  <2> QED
    BY <2>3, <2>4 DEF Palindrome, Pair
<1>3. PalEnd'
  BY <1>1, <1>2 DEF PalEnd, DataOf
<1> QED
  BY <1>1, <1>3 DEF PalInv, PalRun

\* In the directory d the file k, with the name m, is written.
Puts(t, v, t2, v2, d, m, k) ==
  /\ t2[d][m] = k /\ k # 0
  /\ \A n \in Names \ {m} : /\ t2[d][n] = t[d][n]
                            /\ t[d][n] # 0 => v2[t[d][n]] = v[t[d][n]]

\* The image of an image is the name itself.
LEMMA RevIsInvolution ==
  ASSUME NEW n \in Names, NEW c \in Names
  PROVE  RevName[n] \in Names /\ RevName[RevName[n]] = n /\ (RevName[n] = RevName[c] => n = c)
  BY ReverseCopyAssumption

\* A pair of names, none of which is written or read.
LEMMA PairApart ==
  ASSUME NEW n \in Names, NEW m \in Names, NEW k, n # m, RevName[n] # m,
         Puts(tree, inode, tree', inode', src, m, k), UNCHANGED <<src, before>>,
         Copied(n)' <=> Copied(n), Copied(RevName[n])' <=> Copied(RevName[n]),
         ~Busy(n), ~Busy(n)', ~Busy(RevName[n]), ~Busy(RevName[n])',
         IF RevName[n] = n THEN Palindrome(n) ELSE Pair(n, RevName[n])
  PROVE  IF RevName[n] = n THEN Palindrome(n)' ELSE Pair(n, RevName[n])'
<1> DEFINE q == RevName[n]
<1>1. q \in Names
  BY RevIsInvolution
<1> HIDE DEF q
<1>2. /\ tree'[src'][n] = tree[src][n]
      /\ tree[src][n] # 0 => DataOf(n)' = DataOf(n)
  BY DEF Puts, DataOf
<1>3. tree'[src'][q] = tree[src][q] /\ (tree[src][q] # 0 => DataOf(q)' = DataOf(q))
  BY <1>1 DEF Puts, DataOf, q
<1>4. CASE q = n
  BY <1>2, <1>4 DEF Palindrome, q
<1>5. CASE q # n
  <2>1. Pair(n, q)
    BY <1>5 DEF q
  <2>2. Pair(n, q)'
    BY <1>2, <1>3, <2>1 DEF Pair, q
  <2> QED
    BY <1>5, <2>2 DEF q
<1> QED
  BY <1>4, <1>5

\* A file is opened: what e will be read from and where its copy goes.
LEMMA PairOpens ==
  ASSUME NEW c \in Names, c = e, NEW k, rpc = "open", rpc' = "copy",
         UNCHANGED <<src, e, returned, before>>, tree[src][c] # 0,
         Puts(tree, inode, tree', inode', src, RevName[c], k), inode'[k].data = <<>>,
         \A n \in Names : IF RevName[n] = n THEN Palindrome(n) ELSE Pair(n, RevName[n]),
         NEW n \in Names
  PROVE  IF RevName[n] = n THEN Palindrome(n)' ELSE Pair(n, RevName[n])'
<1> DEFINE m == RevName[c]
<1>0. m \in Names /\ RevName[m] = c /\ RevName[n] \in Names /\ RevName[RevName[n]] = n
  BY RevIsInvolution
<1>1. \A x \in Names : (Copied(x)' <=> Copied(x)) /\ ~Busy(x) /\ (Busy(x)' <=> x = c)
  BY DEF Copied, Busy
<1>2. tree'[src'][m] = k /\ k # 0 /\ DataOf(m)' = <<>>
  BY DEF Puts, DataOf
<1>c. IF RevName[c] = c THEN Palindrome(c) ELSE Pair(c, RevName[c])
  OBVIOUS
<1> HIDE DEF m
<1>3. CASE n = c /\ m = c
  BY <1>2, <1>3 DEF Palindrome, m
<1>4. CASE n = c /\ m # c
  <2>1. tree'[src'][c] = tree[src][c] /\ DataOf(c)' = DataOf(c)
    BY <1>4 DEF Puts, DataOf, m
  <2>2. ~Copied(c) /\ ~Busy(c) /\ ~Busy(m)
    BY <1>0, <1>1 DEF Copied
  <2>3. Pair(c, m)
    BY <1>c, <1>4 DEF m
  <2>4. DataOf(c) = before[c] \/ Reverse(DataOf(c)) = before[m]
    BY <2>2, <2>3 DEF Pair
  <2>5. Pair(c, m)'
    BY <1>0, <1>1, <1>2, <2>1, <2>4 DEF Pair
  <2> QED
    BY <1>4, <2>5 DEF m
<1>5. CASE n = m /\ m # c
  <2>1. ~Busy(m)' /\ Busy(c)'
    BY <1>0, <1>1, <1>5
  <2>2. Pair(m, c)'
    BY <2>1 DEF Pair
  <2> QED
    BY <1>0, <1>5, <2>2
<1>6. CASE n # m /\ n # c
  <2>1. RevName[n] # m /\ RevName[n] # c
    BY <1>0, <1>6, RevIsInvolution DEF m
  <2>2. /\ Copied(n)' <=> Copied(n)
        /\ Copied(RevName[n])' <=> Copied(RevName[n])
        /\ ~Busy(n) /\ ~Busy(n)' /\ ~Busy(RevName[n]) /\ ~Busy(RevName[n])'
    BY <1>0, <1>1, <1>6, <2>1
  <2>3. Puts(tree, inode, tree', inode', src, m, k) /\ n # m
    BY <1>6 DEF m
  <2> QED
    BY <1>0, <2>1, <2>2, <2>3, PairApart
<1> QED
  BY <1>3, <1>4, <1>5, <1>6

\* The copy is written.
LEMMA PairCopies ==
  ASSUME NEW c \in Names, c = e, NEW k, rpc = "copy", rpc' = "readdir", c \in returned,
         e' = NoName, UNCHANGED <<src, returned, before>>, tree[src][c] # 0, DataOf(c) \in Seq(0 .. 255),
         Puts(tree, inode, tree', inode', src, RevName[c], k), inode'[k].data = Reverse(DataOf(c)),
         \A n \in Names : IF RevName[n] = n THEN Palindrome(n) ELSE Pair(n, RevName[n]),
         NEW n \in Names
  PROVE  IF RevName[n] = n THEN Palindrome(n)' ELSE Pair(n, RevName[n])'
<1> DEFINE m == RevName[c]
<1>0. m \in Names /\ RevName[m] = c /\ RevName[n] \in Names /\ RevName[RevName[n]] = n
  BY RevIsInvolution
<1>1. /\ \A x \in Names : (Busy(x) <=> x = c) /\ ~Busy(x)' /\ (x # c => (Copied(x)' <=> Copied(x)))
      /\ Copied(c)'
  BY ReverseCopyAssumption DEF Copied, Busy, NoName
<1>2. tree'[src'][m] = k /\ k # 0 /\ DataOf(m)' = Reverse(DataOf(c))
  BY DEF Puts, DataOf
<1>c. IF RevName[c] = c THEN Palindrome(c) ELSE Pair(c, RevName[c])
  OBVIOUS
<1> HIDE DEF m
<1>3. CASE n = c /\ m = c
  <2>1. DataOf(c) = <<>>
    BY <1>1, <1>3, <1>c DEF Palindrome, m
  <2>2. Reverse(<<>>) = <<>>
    <3>1. <<>> \in Seq(0 .. 255)
      OBVIOUS
    <3>2. Reverse(<<>>) \in Seq(0 .. 255) /\ Len(Reverse(<<>>)) = Len(<<>>)
      BY <3>1, ReverseType
    <3> QED
      BY <3>2
  <2> QED
    BY <1>2, <1>3, <2>1, <2>2 DEF Palindrome, m
<1>4. CASE m # c
  <2>1. tree'[src'][c] = tree[src][c] /\ DataOf(c)' = DataOf(c)
    BY <1>4 DEF Puts, DataOf, m
  <2>2. DataOf(c) = before[c] \/ Reverse(DataOf(c)) = before[m]
    BY <1>1, <1>4, <1>c DEF Pair, m
  <2>3. Reverse(Reverse(DataOf(c))) = DataOf(c)
    BY ReverseType
  <2>4. Pair(c, m)' /\ Pair(m, c)'
    BY <1>0, <1>1, <1>2, <2>1, <2>2, <2>3 DEF Pair
  <2> QED
    <3>1. CASE n = c
      BY <1>4, <2>4, <3>1 DEF m
    <3>2. CASE n = m
      BY <1>0, <1>4, <2>4, <3>2
    <3>3. CASE n # m /\ n # c
      <4>1. RevName[n] # m /\ RevName[n] # c
        BY <1>0, <3>3, RevIsInvolution DEF m
      <4>2. /\ Copied(n)' <=> Copied(n)
            /\ Copied(RevName[n])' <=> Copied(RevName[n])
            /\ ~Busy(n) /\ ~Busy(n)' /\ ~Busy(RevName[n]) /\ ~Busy(RevName[n])'
        BY <1>0, <1>1, <3>3, <4>1
      <4>3. Puts(tree, inode, tree', inode', src, m, k) /\ n # m
        BY <3>3 DEF m
      <4> QED
        BY <1>0, <4>1, <4>2, <4>3, PairApart
    <3> QED
      BY <3>1, <3>2, <3>3
<1>5. CASE m = c /\ n # c
  <2>1. RevName[n] # m /\ RevName[n] # c /\ n # m
    BY <1>0, <1>5, RevIsInvolution DEF m
  <2>2. /\ Copied(n)' <=> Copied(n)
        /\ Copied(RevName[n])' <=> Copied(RevName[n])
        /\ ~Busy(n) /\ ~Busy(n)' /\ ~Busy(RevName[n]) /\ ~Busy(RevName[n])'
    BY <1>0, <1>1, <1>5, <2>1
  <2>3. Puts(tree, inode, tree', inode', src, m, k)
    BY DEF m
  <2> QED
    BY <1>0, <2>1, <2>2, <2>3, PairApart
<1> QED
  BY <1>3, <1>4, <1>5

\* PalInv after the two fopen().
LEMMA PalOpens ==
  ASSUME TypeOK, PalInv, R_Open, OwnReversal', Running'
  PROVE  PalRun'
<1>0. TreeOK /\ src \in Dirs /\ rpc = "open" /\ e \in Names /\ Running
  BY DEF TypeOK, TypeOKReverse, R_Open, Running, Going
<1> DEFINE new == NewPath(src, e)
           m == RevName[e]
<1>1. /\ OpenNew(new)
      /\ Opens(<<src, e>>, new, CanRead(<<src, e>>) /\ CanWrite(new))
      /\ UNCHANGED <<dirs, src, runs, before, alone>>
  BY DEF R_Open, histories
<1>2. /\ CanRead(<<src, e>>) /\ CanWrite(new)
      /\ rpc' = "copy" /\ f' = Denotes(<<src, e>>)
      /\ g' = IF Denotes(new) = 0 THEN Fresh ELSE Denotes(new)
      /\ UNCHANGED <<e, returned, stayed>>
  BY <1>1 DEF Opens, Over, Running, Going
<1>3. new \in Path /\ m \in Names
  BY <1>0, NewPathType
<1>4. TreeOK' /\ KindsKept
  BY <1>0, <1>1, <1>3, OpenNewKeeps
<1>5. /\ Walk(new) \in Path
      /\ Denotes(new) # 0 => Denotes(new) \in Inodes /\ inode[Denotes(new)].kind = "file"
      /\ Denotes(new) = 0 => NameAt(tree, Walk(new)) = 0
  BY <1>0, <1>2, <1>3, WriteFinds
\* What changes: the file that new leads to, or a name that was not there.
<1>6. CASE Denotes(new) # 0
  <2> DEFINE k == Denotes(new)
             r == [inode[k] EXCEPT !.data = <<>>]
  <2>1. Make(k, r) /\ tree' = tree /\ g' = k
    BY <1>1, <1>2, <1>6 DEF OpenNew
  <2>2. inode[k] \in Inode
    BY <1>0, <1>5, <1>6 DEF TreeOK
  <2>3. r.data = <<>>
    BY <2>2 DEF Inode
  <2> HIDE DEF r
  <2>4. inode'[k] = r /\ \A x \in Inodes \ {k} : inode'[x] = inode[x]
    BY <1>0, <1>5, <1>6, <2>1 DEF Make, TreeOK
  <2>5. OwnReversal /\ PlainIn(tree, inode, src) /\ RevDir[src] = src
    <3>1. PlainIn(tree', inode', src)
      BY <1>1 DEF OwnReversal
    <3>2. PlainIn(tree, inode, src)
      BY <1>0, <1>4, <2>1, <3>1, PlainBack
    <3> QED
      BY <1>1, <3>2 DEF OwnReversal
  <2>6. k = tree[src][m] /\ f' = tree[src][e]
    BY <1>0, <1>2, <2>5, PlainFacts
  <2>7. Puts(tree, inode, tree', inode', src, m, k)
    <3>1. ASSUME NEW n \in Names \ {m}, tree[src][n] # 0
          PROVE  inode'[tree[src][n]] = inode[tree[src][n]]
      <4>1. tree[src][n] \in Inodes
        BY <1>0, <3>1 DEF TreeOK
      <4>2. tree[src][n] # k
        BY <1>3, <2>5, <2>6, <3>1 DEF PlainIn
      <4> QED
        BY <2>4, <4>1, <4>2
    <3> QED
      BY <1>6, <2>1, <2>6, <3>1 DEF Puts
  <2> HIDE DEF k
  <2> QED
    <3>1. \A n \in Names : tree'[src'][n] = tree[src][n]
      BY <1>1, <2>1
    <3>2. /\ \A n \in Names : IF RevName[n] = n THEN Palindrome(n) ELSE Pair(n, RevName[n])
          /\ e \in returned /\ tree[src][e] # 0
          /\ \A n \in Names : /\ n \in stayed => tree[src][n] # 0
                              /\ before[n] # NotCopied => n \in stayed
      BY <1>0, <2>5 DEF PalInv, PalRun
    <3>3. \A n \in Names : IF RevName[n] = n THEN Palindrome(n)' ELSE Pair(n, RevName[n])'
      BY <1>0, <1>1, <1>2, <2>3, <2>4, <2>7, <3>2, PairOpens
    <3> QED
      BY <1>0, <1>1, <1>2, <2>1, <2>6, <3>1, <3>2, <3>3 DEF PalRun
<1>7. CASE Denotes(new) = 0
  <2> DEFINE k == Fresh
             w == Walk(new)
             r == File(<<>>, RW)
  <2>1. Create(w, r) /\ g' = k
    BY <1>1, <1>2, <1>7 DEF OpenNew
  <2>2. r.data = <<>>
    BY DEF File
  <2> HIDE DEF r
  <2>3. k \in Inodes /\ Created(tree, inode, tree', inode', w, k, r)
    BY <1>0, <1>5, <1>7, <2>1, CreateIs
  <2> HIDE DEF w, k
  <2>4. \A d \in Dirs, n \in Names : tree'[d][n] = IF <<d, n>> = w THEN k ELSE tree[d][n]
    <3>1. /\ tree \in [Dirs -> [Names -> Inodes \cup {0}]] /\ w \in Path /\ k \in Inodes \cup {0}
          /\ Bound(tree, tree', w, k)
      BY <1>0, <2>3 DEF Created, TreeOK
    <3> QED
      BY <3>1, BindFacts
  <2>5. inode'[k] = r /\ inode[k] = Free /\ \A x \in Inodes \ {k} : inode'[x] = inode[x]
    BY <1>0, <2>3 DEF Created, TreeOK
  <2>6. \A n \in Names : tree[src][n] # 0 => tree'[src][n] = tree[src][n]
    <3>1. ASSUME NEW n \in Names, <<src, n>> = w PROVE tree[src][n] = 0
      BY <2>3, <3>1 DEF Created, NameAt
    <3> QED
      BY <1>0, <2>4, <3>1
  <2>7. OwnReversal /\ PlainIn(tree, inode, src) /\ RevDir[src] = src
    <3>1. PlainIn(tree', inode', src)
      BY <1>1 DEF OwnReversal
    <3>2. PlainIn(tree, inode, src)
      BY <1>0, <1>4, <2>6, <3>1, PlainBack
    <3> QED
      BY <1>1, <3>2 DEF OwnReversal
  <2>8. w = <<src, m>> /\ f' = tree[src][e]
    BY <1>0, <1>2, <2>7, PlainFacts DEF w
  <2>9. Puts(tree, inode, tree', inode', src, m, k)
    <3>1. ASSUME NEW n \in Names \ {m}
          PROVE  /\ tree'[src][n] = tree[src][n]
                 /\ tree[src][n] # 0 => inode'[tree[src][n]] = inode[tree[src][n]]
      <4>1. tree'[src][n] = tree[src][n]
        BY <1>0, <2>4, <2>8
      <4>2. tree[src][n] # 0 => tree[src][n] \in Inodes /\ inode[tree[src][n]].kind # "free"
        BY <1>0 DEF TreeOK
      <4> QED
        BY <2>5, <4>1, <4>2, FreeKind
    <3>2. tree'[src][m] = k /\ k # 0
      BY <1>0, <1>3, <2>3, <2>4, <2>8
    <3> QED
      BY <3>1, <3>2 DEF Puts
  <2> QED
    <3>1. tree'[src'][m] = k /\ src' = src
      BY <1>1, <2>9 DEF Puts
    <3>2. /\ \A n \in Names : IF RevName[n] = n THEN Palindrome(n) ELSE Pair(n, RevName[n])
          /\ e \in returned /\ tree[src][e] # 0
          /\ \A n \in Names : /\ n \in stayed => tree[src][n] # 0
                              /\ before[n] # NotCopied => n \in stayed
      BY <1>0, <2>7 DEF PalInv, PalRun
    <3>3. \A n \in Names : IF RevName[n] = n THEN Palindrome(n)' ELSE Pair(n, RevName[n])'
      BY <1>0, <1>1, <1>2, <2>2, <2>5, <2>9, <3>2, PairOpens
    <3>4. tree'[src'][e] = tree[src][e]
      BY <1>0, <1>1, <2>6, <3>2
    <3>5. \A n \in Names : n \in stayed' => tree'[src'][n] # 0
      BY <1>1, <1>2, <2>6, <3>2
    <3> QED
      BY <1>0, <1>1, <1>2, <2>1, <2>8, <3>1, <3>2, <3>3, <3>4, <3>5 DEF PalRun, k
<1> QED
  BY <1>6, <1>7

\* PalInv after the loop.
LEMMA PalCopies ==
  ASSUME TypeOK, PalInv, R_Copy, OwnReversal', Running'
  PROVE  PalRun'
<1>0. /\ TreeOK /\ src \in Dirs /\ rpc = "copy" /\ Running
      /\ f \in Inodes /\ g \in Inodes /\ inode[g] \in Inode /\ inode[f] \in Inode
      /\ inode[g].kind = "file"
  BY DEF TypeOK, TypeOKReverse, R_Copy, Running, Going, TreeOK
<1> DEFINE r == [inode[g] EXCEPT !.data = Reverse(inode[f].data)]
<1>1. /\ Make(g, r) /\ rpc' = "readdir" /\ tree' = tree
      /\ e' = NoName /\ UNCHANGED <<dirs, src, returned, stayed, before, alone>>
  BY DEF R_Copy, histories
<1>2. r.data = Reverse(inode[f].data) /\ r.kind = "file" /\ inode[f].data \in Seq(0 .. 255)
  BY <1>0 DEF Inode
<1> HIDE DEF r
<1>3. inode'[g] = r /\ \A x \in Inodes \ {g} : inode'[x] = inode[x]
  BY <1>0, <1>1 DEF Make, TreeOK
<1>4. KindsKept
  BY <1>0, <1>2, <1>3 DEF KindsKept
<1>5. OwnReversal /\ PlainIn(tree, inode, src)
  <2>1. PlainIn(tree', inode', src)
    BY <1>1 DEF OwnReversal
  <2>2. PlainIn(tree, inode, src)
    BY <1>0, <1>1, <1>4, <2>1, PlainBack
  <2> QED
    BY <1>1, <2>2 DEF OwnReversal
<1>6. /\ e \in returned /\ tree[src][e] # 0
      /\ f = tree[src][e] /\ g = tree[src][RevName[e]]
      /\ \A n \in Names : IF RevName[n] = n THEN Palindrome(n) ELSE Pair(n, RevName[n])
      /\ \A n \in Names : /\ n \in stayed => tree[src][n] # 0
                          /\ before[n] # NotCopied => n \in stayed
  BY <1>0, <1>5 DEF PalInv, PalRun
<1>c. PICK c \in Names : c = e
  BY <1>6 DEF TypeOK, TypeOKReverse
<1>7. Puts(tree, inode, tree', inode', src, RevName[c], g)
  <2>1. ASSUME NEW n \in Names \ {RevName[c]}, tree[src][n] # 0
        PROVE  inode'[tree[src][n]] = inode[tree[src][n]]
    <3>1. tree[src][n] \in Inodes
      BY <1>0, <2>1 DEF TreeOK
    <3>2. RevName[c] \in Names
      BY RevIsInvolution
    <3>3. tree[src][n] # g
      BY <1>5, <1>6, <1>c, <2>1, <3>2 DEF PlainIn
    <3> QED
      BY <1>3, <3>1, <3>3
  <2> QED
    BY <1>0, <1>1, <1>6, <1>c, <2>1 DEF Puts
<1>8. DataOf(c) \in Seq(0 .. 255) /\ inode'[g].data = Reverse(DataOf(c))
  BY <1>2, <1>3, <1>6, <1>c DEF DataOf
<1>9. \A n \in Names : IF RevName[n] = n THEN Palindrome(n)' ELSE Pair(n, RevName[n])'
  BY <1>0, <1>1, <1>6, <1>7, <1>8, <1>c, PairCopies
<1> QED
  BY <1>1, <1>6, <1>9 DEF PalRun

\* PalInv after any other step.
LEMMA PalElse ==
  ASSUME PalInv, (Command /\ Disturbed) \/ UNCHANGED <<fs, local>>
  PROVE  PalInv'
<1>1. CASE Command /\ Disturbed
  BY <1>1 DEF Disturbed, OwnReversal, PalInv, PalRun, PalEnd
<1>2. CASE UNCHANGED <<fs, local>>
  <2>1. /\ tree' = tree /\ inode' = inode
        /\ UNCHANGED <<rpc, src, e, f, g, returned, stayed, before, alone>>
    BY <1>2 DEF fs, local, histories
  <2>2. Running' = Running /\ OwnReversal' = OwnReversal
    BY <2>1 DEF Running, Going, OwnReversal
  <2>3. \A n : Copied(n)' = Copied(n) /\ Busy(n)' = Busy(n) /\ DataOf(n)' = DataOf(n)
    BY <2>1 DEF Copied, Busy, DataOf
  <2>4. \A n, m : Pair(n, m)' = Pair(n, m) /\ Palindrome(n)' = Palindrome(n)
    BY <2>1, <2>3 DEF Pair, Palindrome
  <2>5. PalRun'
    BY <2>1, <2>2, <2>4 DEF PalInv, PalRun
  <2>6. PalEnd'
    BY <2>1, <2>2, <2>3 DEF PalInv, PalEnd
  <2> QED
    BY <2>5, <2>6 DEF PalInv
<1> QED
  BY <1>1, <1>2

LEMMA PalInvStep ==
  ASSUME TypeOK, NameInv, PalInv, [Next]_vars
  PROVE  PalInv'
<1>1. CASE R_Open \/ R_Copy
  <2>1. rpc' # "ended"
    BY <1>1 DEF R_Open, Opens, Over, R_Copy
  <2>2. PalRun'
    BY <1>1, PalOpens, PalCopies DEF PalRun
  <2> QED
    BY <2>1, <2>2 DEF PalInv, PalEnd
<1>2. CASE R_Kill
  <2>1. rpc' = "killed"
    BY <1>2 DEF R_Kill, Over
  <2> QED
    BY <2>1 DEF PalInv, PalRun, PalEnd, Running, Going
<1> QED
  BY <1>1, <1>2, NextIs, PalStarts, PalMakes, PalReads, PalFinishes, PalElse

LEMMA PalInvInit == Init => PalInv
<1> SUFFICES ASSUME Init PROVE PalInv
  OBVIOUS
<1>1. ~Running /\ rpc # "ended"
  BY DEF Init, RInit, Running, Going
<1> QED
  BY <1>1 DEF PalInv, PalRun, PalEnd

LEMMA PalShows == TypeOK /\ PalInv => PalindromeLoses
<1> SUFFICES ASSUME TypeOK, PalInv, rpc = "ended", alone, RevDir[src] = src, Plain(src),
                    NEW n \in Names, before[n] # NotCopied
             PROVE  LET m == RevName[n]
                    IN IF m = n THEN Data(<<src, n>>) = <<>>
                       ELSE /\ Lookup(<<src, m>>) # 0
                            /\ Data(<<src, m>>) = Reverse(Data(<<src, n>>))
                            /\ Data(<<src, n>>) = before[n] \/ Data(<<src, m>>) = before[m]
  BY DEF PalindromeLoses
<1>0. TreeOK /\ src \in Dirs /\ RevName[n] \in Names
  BY RevIsInvolution DEF TypeOK, TypeOKReverse
<1>1. PlainIn(tree, inode, src)
  <2>1. ASSUME NEW x \in Names
        PROVE  /\ Lookup(<<src, x>>) = tree[src][x]
               /\ Is(<<src, x>>, "file") => inode[tree[src][x]].kind = "file"
    BY <1>0, DirBridge DEF Is
  <2> QED
    BY <2>1 DEF Plain, PlainIn
<1>2. OwnReversal
  BY <1>1 DEF OwnReversal
<1>3. \A x \in Names : Data(<<src, x>>) = DataOf(x) /\ Lookup(<<src, x>>) = tree[src][x]
  BY <1>0, <1>1, PlainFacts DEF Data, DataOf
<1> QED
  BY <1>0, <1>2, <1>3 DEF PalInv, PalEnd

\* What the copying program destroys in a directory whose name is a palindrome, of
\* any size and for any names: the data of every file whose name is one; of two
\* files with each other's names those of one, which then holds the image of the other
\* (3.c:24, 44-60).
THEOREM PalindromeLosesHolds == Spec => []PalindromeLoses
<1>1. TypeOK /\ NameInv /\ PalInv /\ [Next]_vars => PalInv'
  BY PalInvStep
<1>2. RunInv => NameInv
  BY DEF RunInv
<1> QED
  BY <1>1, <1>2, PalInvInit, PalShows, RunInvHolds, TypeInvariance, PTL DEF Spec

-----------------------------------------------------------------------------
(* Sort: the searches and the exchanges.                                   *)

USE SortAssumption

LEMMA SortInitially == SortInit => SortInv
<1> SUFFICES ASSUME SortInit PROVE SortInv
  OBVIOUS
<1> USE DEF SortInit, Index
<1>1. SortTypeOK
  BY DEF SortTypeOK
<1>2. Searching /\ Sorting /\ Permuted /\ Sorted
  BY DEF Searching, Sorting, Permuted, Sorted
<1> QED
  BY <1>1, <1>2 DEF SortInv

\* A search sees one number more, and ends when it has seen them all.
LEMMA FindMaxStep == ASSUME SortInv, findMax PROVE SortInv'
<1> USE DEF SortInv, findMax, SortTypeOK
<1>0. N' = N /\ input' = input /\ numbers' = numbers /\ Index' = Index /\ from' = from
  BY DEF Index
<1>n. \A l \in Index : input[l] \in Int
  OBVIOUS
<1>1. SortTypeOK'
  BY <1>0 DEF Index
<1>2. Searching'
  <2>1. CASE i < N /\ i' = i + 1 /\ pc' = pc
    <3>0. i \in Index /\ numbers = input /\ max \in Int /\ (i > 0 => IsMax(max, i))
      BY <2>1 DEF Searching, Index
    <3>s. \A l \in Index : l \in Int /\ (l < i + 1 => l = i \/ l < i)
      BY DEF Index
    <3>f. ASSUME i = 0 PROVE \A l \in Index : ~(l < i)
      BY <3>f DEF Index
    <3>1. IsMax(max', i + 1)
      <4>1. CASE i = 0 \/ input[i] > max
        <5>1. max' = input[i] /\ i < i + 1
          BY <2>1, <3>0, <4>1
        <5>2. ASSUME NEW l \in Index, l < i + 1 PROVE input[l] <= input[i]
          BY <1>n, <3>0, <3>s, <3>f, <4>1, <5>2 DEF IsMax
        <5> QED
          BY <3>0, <5>1, <5>2 DEF IsMax
      <4>2. CASE i # 0 /\ ~(input[i] > max)
        <5>1. max' = max /\ i > 0
          BY <2>1, <3>0, <4>2
        <5>2. ASSUME NEW l \in Index, l < i + 1 PROVE input[l] <= max
          BY <1>n, <3>0, <3>s, <4>2, <5>1, <5>2 DEF IsMax
        <5>3. PICK l \in Index : l < i /\ max = input[l]
          BY <3>0, <5>1 DEF IsMax
        <5>4. l < i + 1
          BY <3>0, <3>s, <5>3
        <5> QED
          BY <5>1, <5>2, <5>3, <5>4 DEF IsMax
      <4> QED
        BY <4>1, <4>2
    <3>2. IsMax(max, i)'
      BY <1>0, <2>1, <3>1 DEF IsMax
    <3> QED
      BY <1>0, <2>1, <3>0, <3>2 DEF Searching
  <2>2. CASE ~(i < N /\ i' = i + 1 /\ pc' = pc)
    BY <1>0, <2>2 DEF Searching, IsMax, IsMin, Index
  <2> QED
    BY <2>1, <2>2
<1>3. Sorting' /\ Permuted' /\ Sorted'
  BY <1>0 DEF Sorting, Permuted, Sorted, Index
<1> QED
  BY <1>1, <1>2, <1>3

LEMMA FindMinStep == ASSUME SortInv, findMin PROVE SortInv'
<1> USE DEF SortInv, findMin, SortTypeOK
<1>0. N' = N /\ input' = input /\ numbers' = numbers /\ Index' = Index /\ from' = from
  BY DEF Index
<1>n. \A l \in Index : input[l] \in Int
  OBVIOUS
<1>1. SortTypeOK'
  BY <1>0 DEF Index
<1>2. Searching'
  <2>1. CASE i < N /\ i' = i + 1 /\ pc' = pc
    <3>0. i \in Index /\ numbers = input /\ min \in Int /\ (i > 0 => IsMin(min, i))
      BY <2>1 DEF Searching, Index
    <3>s. \A l \in Index : l \in Int /\ (l < i + 1 => l = i \/ l < i)
      BY DEF Index
    <3>f. ASSUME i = 0 PROVE \A l \in Index : ~(l < i)
      BY <3>f DEF Index
    <3>1. IsMin(min', i + 1)
      <4>1. CASE i = 0 \/ input[i] < min
        <5>1. min' = input[i] /\ i < i + 1
          BY <2>1, <3>0, <4>1
        <5>2. ASSUME NEW l \in Index, l < i + 1 PROVE input[i] <= input[l]
          BY <1>n, <3>0, <3>s, <3>f, <4>1, <5>2 DEF IsMin
        <5> QED
          BY <3>0, <5>1, <5>2 DEF IsMin
      <4>2. CASE i # 0 /\ ~(input[i] < min)
        <5>1. min' = min /\ i > 0
          BY <2>1, <3>0, <4>2
        <5>2. ASSUME NEW l \in Index, l < i + 1 PROVE min <= input[l]
          BY <1>n, <3>0, <3>s, <4>2, <5>1, <5>2 DEF IsMin
        <5>3. PICK l \in Index : l < i /\ min = input[l]
          BY <3>0, <5>1 DEF IsMin
        <5>4. l < i + 1
          BY <3>0, <3>s, <5>3
        <5> QED
          BY <5>1, <5>2, <5>3, <5>4 DEF IsMin
      <4> QED
        BY <4>1, <4>2
    <3>2. IsMin(min, i)'
      BY <1>0, <2>1, <3>1 DEF IsMin
    <3> QED
      BY <1>0, <2>1, <3>0, <3>2 DEF Searching, IsMax, Index
  <2>2. CASE ~(i < N /\ i' = i + 1 /\ pc' = pc)
    BY <1>0, <2>2 DEF Searching, IsMax, IsMin, Index
  <2> QED
    BY <2>1, <2>2
<1>3. Sorting' /\ Permuted' /\ Sorted'
  BY <1>0 DEF Sorting, Permuted, Sorted, Index
<1> QED
  BY <1>1, <1>2, <1>3

\* Two numbers change places or not.  Number i becomes the smaller of the two;
\* those before it are not larger than either.
LEMMA CompareStep == ASSUME SortInv, Compare PROVE SortInv'
<1> USE DEF SortInv, Compare, SortTypeOK
<1>0. /\ i \in Index /\ j \in Index /\ i < j /\ pc = "bubbleSort" /\ pc' = pc
      /\ Index' = Index /\ N' = N /\ i' = i /\ j' = j + 1 /\ input' = input
  BY DEF Sorting, Index
<1>n. \A l \in Index : numbers[l] \in Int
  OBVIOUS
<1>s. Searching'
  BY <1>0 DEF Searching, IsMax, IsMin
<1>1. CASE numbers[i] > numbers[j]
  <2> numbers' = Exchange(numbers, i, j) /\ from' = [from EXCEPT ![i] = from[j], ![j] = from[i]]
    BY <1>1
  <2>1. /\ numbers' \in [Index -> Values] /\ from' \in [Index -> Index]
        /\ numbers'[i] = numbers[j] /\ numbers'[j] = numbers[i]
        /\ \A k \in Index \ {i, j} : numbers'[k] = numbers[k]
        /\ from'[i] = from[j] /\ from'[j] = from[i]
        /\ \A k \in Index \ {i, j} : from'[k] = from[k]
    BY <1>0, <1>1 DEF Exchange
  <2>2. SortTypeOK'
    <3>1. numbers' \in [Index' -> Values] /\ from' \in [Index' -> Index']
      BY <1>0, <2>1
    <3>2. N' \in Nat /\ i' \in Nat /\ j' \in Nat /\ i' <= N' /\ max' \in Values /\ min' \in Values
      BY <1>0
    <3> QED
      BY <1>0, <3>1, <3>2
  <2>4. Permuted'
    <3>1. \A k \in Index : from'[k] \in Index /\ numbers'[k] = input[from'[k]]
      BY <1>0, <2>1 DEF Permuted
    <3>2. ASSUME NEW k \in Index, NEW l \in Index, from'[k] = from'[l]
          PROVE  k = l
      BY <1>0, <2>1, <3>2 DEF Permuted
    <3> QED
      BY <1>0, <3>1, <3>2 DEF Permuted
  <2>5. Sorting'
    <3>1. ASSUME NEW k \in Index, NEW l \in Index, k < i, k < l
          PROVE  numbers'[k] <= numbers'[l]
      <4>1. numbers'[k] = numbers[k] /\ k # i /\ k # j
        BY <1>0, <2>1, <3>1
      <4>2. numbers[k] <= numbers[l] /\ numbers[k] <= numbers[i] /\ numbers[k] <= numbers[j]
        BY <1>0, <3>1 DEF Sorting
      <4> QED
        BY <2>1, <4>1, <4>2
    <3>2. ASSUME NEW l \in Index, i < l, l < j + 1
          PROVE  numbers'[i] <= numbers'[l]
      <4>1. CASE l = j
        BY <1>0, <1>n, <1>1, <2>1, <4>1
      <4>2. CASE l < j
        <5>1. numbers'[i] = numbers[j] /\ numbers'[l] = numbers[l] /\ numbers[i] <= numbers[l]
          BY <1>0, <2>1, <3>2, <4>2 DEF Sorting
        <5> QED
          BY <1>0, <1>n, <1>1, <5>1
      <4> QED
        BY <1>0, <3>2, <4>1, <4>2 DEF Index
    <3>3. i < j + 1 /\ j + 1 <= N
      BY <1>0 DEF Index
    <3> QED
      BY <1>0, <3>1, <3>2, <3>3 DEF Sorting
  <2> QED
    BY <1>0, <1>s, <2>2, <2>4, <2>5 DEF Sorted
<1>2. CASE ~(numbers[i] > numbers[j])
  <2> UNCHANGED <<numbers, from>>
    BY <1>2
  <2>1. Permuted'
    BY <1>0 DEF Permuted
  <2>2. Sorting'
    <3>1. \A k, l \in Index : k < i /\ k < l => numbers[k] <= numbers[l]
      BY <1>0 DEF Sorting
    <3>2. ASSUME NEW l \in Index, i < l, l < j + 1
          PROVE  numbers[i] <= numbers[l]
      <4>1. CASE l = j
        BY <1>0, <1>n, <1>2, <4>1
      <4>2. CASE l < j
        BY <1>0, <3>2, <4>2 DEF Sorting, Index
      <4> QED
        BY <1>0, <3>2, <4>1, <4>2 DEF Index
    <3>3. i < j + 1 /\ j + 1 <= N
      BY <1>0 DEF Index
    <3> QED
      BY <1>0, <3>1, <3>2, <3>3 DEF Sorting
  <2>3. SortTypeOK'
    BY <1>0 DEF Index
  <2> QED
    BY <1>0, <1>s, <2>1, <2>2, <2>3 DEF Sorted
<1> QED
  BY <1>1, <1>2

\* When the inner loop ends number i is not larger than any after it.
LEMMA NextPassStep == ASSUME SortInv, NextPass PROVE SortInv'
<1> USE DEF SortInv, NextPass, SortTypeOK, Index
<1>1. Searching' /\ Permuted' /\ Sorted'
  BY DEF Searching, IsMax, IsMin, Permuted, Sorted
<1>2. Sorting'
  <2>1. ASSUME NEW k \in Index, NEW l \in Index, k < i + 1, k < l
        PROVE  numbers[k] <= numbers[l]
    <3>1. CASE k < i
      BY <2>1, <3>1 DEF Sorting
    <3>2. CASE k = i
      BY <2>1, <3>2 DEF Sorting
    <3> QED
      BY <2>1, <3>1, <3>2
  <2> QED
    BY <2>1 DEF Sorting
<1> QED
  BY <1>1, <1>2

LEMMA FinishStep == ASSUME SortInv, Finish PROVE SortInv'
<1> USE DEF SortInv, Finish, SortTypeOK, Index
<1>1. Searching' /\ Permuted' /\ Sorting'
  BY DEF Searching, IsMax, IsMin, Permuted, Sorting
<1>2. Sorted'
  BY DEF Sorting, Sorted
<1> QED
  BY <1>1, <1>2

\* The invariant: what the searches have seen and how far the sort has come.
THEOREM SortInvariance == SortSpec => []SortInv
<1>1. SortInv /\ UNCHANGED sortVars => SortInv'
  BY DEF sortVars, SortInv, SortTypeOK, Searching, IsMax, IsMin, Sorting, Permuted, Sorted, Index
<1>2. SortInv /\ [SortNext]_sortVars => SortInv'
  BY <1>1, FindMaxStep, FindMinStep, CompareStep, NextPassStep, FinishStep DEF SortNext
<1> QED
  BY SortInitially, <1>2, PTL DEF SortSpec

\* However many numbers there are, they are printed in order, and no exchange
\* loses or repeats one (test2.c:25-35).
THEOREM SortedPermutationHolds == SortSpec => []SortedPermutation
<1>1. SortInv => SortedPermutation
  BY DEF SortInv, SortedPermutation
<1> QED
  BY <1>1, SortInvariance, PTL

\* Every number entered is somewhere in the array: a map of the indices to
\* themselves that is injective is surjective.
LEMMA NoneLost ==
  ASSUME SortTypeOK, Permuted, NEW l \in Index
  PROVE  \E k \in Index : numbers[k] = input[l]
<1>1. IsFiniteSet(Index)
  BY FS_Interval DEF SortTypeOK, Index
<1>2. from \in Injection(Index, Index)
  BY DEF SortTypeOK, Permuted, Injection, IsInjective
<1>3. from \in Surjection(Index, Index)
  BY <1>1, <1>2, FS_Injection
<1>4. PICK k \in Index : from[k] = l
  BY <1>3 DEF Surjection
<1> QED
  BY <1>4 DEF Permuted

\* The largest number found before the sort is the last one after it, and the
\* smallest the first (test2.c:48-54).
THEOREM EndsAgreeHolds == SortSpec => []EndsAgree
<1>1. SortInv => EndsAgree
  <2> SUFFICES ASSUME SortInv, pc = "printed", N > 0
               PROVE  numbers[N - 1] = max /\ numbers[0] = min
    BY DEF EndsAgree
  <2> USE DEF SortInv
  <2>0. \A k \in Index : numbers[k] \in Int /\ input[k] \in Int
    BY DEF SortTypeOK
  <2>1. /\ N - 1 \in Index /\ 0 \in Index
        /\ \A k \in Index : k \in Int /\ 0 <= k /\ k <= N - 1
    BY DEF SortTypeOK, Index
  <2>2. IsMax(max, N) /\ IsMin(min, N) /\ max \in Int /\ min \in Int
    BY DEF SortTypeOK, Searching
  <2>3. \A k \in Index : min <= numbers[k] /\ numbers[k] <= max
    <3> SUFFICES ASSUME NEW k \in Index PROVE min <= numbers[k] /\ numbers[k] <= max
      OBVIOUS
    <3>1. from[k] \in Index /\ numbers[k] = input[from[k]] /\ from[k] < N
      BY <2>1 DEF Permuted, Index, SortTypeOK
    <3> QED
      BY <2>2, <3>1 DEF IsMax, IsMin
  <2>4. PICK k \in Index : numbers[k] = max
    BY <2>2, NoneLost DEF IsMax
  <2>5. PICK l \in Index : numbers[l] = min
    BY <2>2, NoneLost DEF IsMin
  <2>6. \A m \in Index : numbers[m] <= numbers[N - 1] /\ numbers[0] <= numbers[m]
    BY <2>0, <2>1 DEF Sorted
  <2> QED
    BY <2>0, <2>1, <2>2, <2>3, <2>4, <2>5, <2>6
<1> QED
  BY <1>1, SortInvariance, PTL
=============================================================================
