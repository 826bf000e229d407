------------------------------ MODULE FileTree ------------------------------
(***************************************************************************)
(* Files as the programs of 3_part see them: directories, the names in     *)
(* them, and what the names denote.  The system calls are the kernel's;    *)
(* they are modelled as far as ReverseCopy and FileCommands use them.      *)
(***************************************************************************)
EXTENDS Integers, Sequences, SequencesExt, FiniteSets

CONSTANTS
  Dirs,    \* directories that may exist
  Cwd,     \* the one the programs run in; a relative path starts there
  Names,   \* names of files
  Inodes   \* bound on the number of files

ASSUME FileTreeAssumption ==
  /\ Cwd \in Dirs /\ IsFiniteSet(Names)
  /\ Inodes \subseteq Nat /\ 0 \notin Inodes

VARIABLES
  dirs,    \* the directories that exist
  tree,    \* tree[d][n]: the file that has the name n in d, or 0
  inode    \* what each file is

fs == <<dirs, tree, inode>>

\* kind is "file", "symlink", "socket" or "fifo"; mode the permissions of the user.
File(data, mode) == [kind |-> "file", mode |-> mode, data |-> data, link |-> <<>>]
RW == {"r", "w"}
Free == [kind |-> "free", mode |-> {}, data |-> <<>>, link |-> <<>>]

Path == Dirs \X Names
Lookup(p) == IF p[1] \in dirs THEN tree[p[1]][p[2]] ELSE 0
Is(p, kind) == Lookup(p) # 0 /\ inode[Lookup(p)].kind = kind

\* The text of a symbolic link is a path from the root, or "." and the name of
\* a file beside the link.
From(d, text) == IF text[1] = "." THEN <<d, text[2]>> ELSE text

\* Where p leads to, three links followed, which is more than there are in the
\* runs (the kernel follows 40); a link there means a chain that is too long.
Hop[p \in Path] == IF Is(p, "symlink") THEN From(p[1], inode[Lookup(p)].link) ELSE p
Walk(p) == Hop[Hop[Hop[p]]]

\* The file that p leads to, or 0.
Denotes(p) == IF Is(Walk(p), "symlink") THEN 0 ELSE Lookup(Walk(p))

\* open() for reading and for writing succeeds; the second may create a file.
CanRead(p) == Is(Walk(p), "file") /\ "r" \in inode[Denotes(p)].mode
CanWrite(p) ==
  \/ Is(Walk(p), "file") /\ "w" \in inode[Denotes(p)].mode
  \/ Walk(p)[1] \in dirs /\ Lookup(Walk(p)) = 0

\* open() of a FIFO waits for somebody who opens the other end; nobody does.
Blocks(p, m) == Is(Walk(p), "fifo") /\ m \in inode[Denotes(p)].mode

Bind(p, k) == tree' = [tree EXCEPT ![p[1]][p[2]] = k]

\* The file k becomes r; a file that is created takes one that is free.  That
\* there is one is a bound of the model.
Make(k, r) == inode' = [inode EXCEPT ![k] = r]
Room == \E k \in Inodes : inode[k] = Free
Fresh == CHOOSE k \in Inodes : inode[k] = Free
Create(p, r) == Room /\ Make(Fresh, r) /\ Bind(p, Fresh)

\* Any tree: data are bytes, names lead to files, a missing directory has none.
Link == (Dirs \cup {"."}) \X Names
Inode == [kind : {"file", "symlink", "socket", "fifo", "free"}, mode : SUBSET RW,
          data : Seq(0 .. 255), link : Link \cup {<<>>}]

TreeOK ==
  /\ Cwd \in dirs /\ dirs \subseteq Dirs
  /\ tree \in [Dirs -> [Names -> Inodes \cup {0}]] /\ inode \in [Inodes -> Inode]
  /\ \A d \in Dirs, n \in Names :
       tree[d][n] # 0 => d \in dirs /\ inode[tree[d][n]].kind # "free"
  /\ \A k \in Inodes : inode[k].kind = "symlink" => inode[k].link \in Link
=============================================================================
