---------------------------- MODULE ReverseCopy ----------------------------
(***************************************************************************)
(* 3_part/3.1/3.c: copies the regular files of a directory into the        *)
(* directory with the reversed name, each under its reversed name and with *)
(* its bytes in reverse order.  No call is tested.                         *)
(*                                                                         *)
(* rev() is an involution on names, RevDir and RevName say which; a name   *)
(* that is its own image is a palindrome (before its extension).  A run    *)
(* opens the directory and makes the other; a file is copied in three      *)
(* steps: readdir() and stat(), the two calls of fopen(), and the loop     *)
(* over its bytes with the two calls of fclose().                          *)
(***************************************************************************)
EXTENDS FileTree

CONSTANTS
  RevDir,   \* the directory that rev() names, for each one it may be called with
  RevName,  \* the name a file gets
  MAXRUNS   \* times the program is run

ASSUME ReverseCopyAssumption ==
  /\ RevDir \in [Dirs -> Dirs] /\ RevName \in [Names -> Names] /\ MAXRUNS \in Nat
  /\ \A n \in Names : RevName[RevName[n]] = n /\ n # ""

VARIABLES
  rpc,      \* where the program is
  src,      \* v[1]
  e,        \* the name that is being copied
  f, g,     \* the two files that are open
  returned, \* names readdir() has returned, as long as they are not removed
  stayed,   \* names that have been in the directory since it was opened
  runs,     \* runs so far
  before,   \* history: what a file held when the run began, until it, or what its
            \* copy goes to, is another file
  fit,      \* history: nothing stands in the way of this run
  alone,    \* history: nobody else has changed a file since it began
  calm      \* history: its copies have never had a source or each other in their place

histories == <<before, fit, alone, calm>>
local == <<rpc, src, e, f, g, returned, stayed, runs, histories>>

Going == rpc \in {"mkdir", "nodir", "readdir", "open", "copy"}
Running == Going \/ rpc = "hung"

\* The names of d that are copied: regular files, and sockets, whose type has
\* the bit of S_IFREG.
Chosen(d) == {n \in Names : Denotes(<<d, n>>) # 0
                            /\ inode[Denotes(<<d, n>>)].kind \in {"file", "socket"}}
NotCopied == <<-1>>
NoName == ""
NewPath(d, n) == <<RevDir[d], RevName[n]>>

\* No link leads nowhere; copies go to different places, none of which is a source.
Calm(d) ==
  /\ RevDir[d] # d
  /\ \A n \in Names : Lookup(<<d, n>>) # 0 => Denotes(<<d, n>>) # 0
  /\ \A m \in Names :
       /\ Walk(NewPath(d, m))[1] # d
       /\ \A n \in Names \ {m} : Walk(NewPath(d, m)) # Walk(NewPath(d, n))
       /\ Denotes(NewPath(d, m)) # 0 =>
            \A n \in Names : /\ Denotes(NewPath(d, m)) # Denotes(<<d, n>>)
                             /\ m # n => Denotes(NewPath(d, m)) # Denotes(NewPath(d, n))

\* Nothing stands in the way: all can be opened, too.
Fit(d) ==
  /\ d \in dirs /\ Calm(d)
  /\ \A n \in Chosen(d) :
       CanRead(<<d, n>>) /\ (RevDir[d] \in dirs => CanWrite(NewPath(d, n)))

RInit ==
  /\ rpc = "idle" /\ src = Cwd /\ e = NoName /\ f = 0 /\ g = 0
  /\ returned = {} /\ stayed = {} /\ runs = 0 /\ before = [n \in Names |-> NotCopied]
  /\ fit = FALSE /\ alone = FALSE /\ calm = FALSE

\* The process ends, for the reason how.
Over(how) == rpc' = how /\ f' = 0 /\ g' = 0 /\ stayed' = {} /\ UNCHANGED <<e, returned>>

\* opendir(), which returns NULL when there is no directory.
R_Start(d) ==
  /\ ~Running /\ runs < MAXRUNS
  /\ src' = d /\ runs' = runs + 1
  /\ rpc' = IF d \in dirs THEN "mkdir" ELSE "nodir"
  /\ e' = NoName /\ f' = 0 /\ g' = 0 /\ returned' = {}
  /\ stayed' = {n \in Names : Lookup(<<d, n>>) # 0}
  /\ before' = [n \in Names |-> IF n \in Chosen(d) THEN inode[Denotes(<<d, n>>)].data ELSE NotCopied]
  /\ fit' = Fit(d) /\ alone' = TRUE /\ calm' = Calm(d)
  /\ UNCHANGED fs

\* mkdir() of the reversed name fails if that exists, or for another reason;
\* readdir(NULL) is a crash.
R_Mkdir ==
  /\ rpc \in {"mkdir", "nodir"}
  /\ dirs' \in {dirs, dirs \cup {RevDir[src]}}
  /\ fit' = (fit /\ RevDir[src] \in dirs')
  /\ \/ rpc = "mkdir" /\ rpc' = "readdir" /\ UNCHANGED <<e, f, g, returned, stayed>>
     \/ rpc = "nodir" /\ Over("crashed")
  /\ UNCHANGED <<tree, inode, src, runs, before, alone, calm>>

\* readdir() returns any name it has not returned yet, one that has come, or come
\* back, since or not; stat() says what it is.
R_Readdir ==
  /\ rpc = "readdir"
  /\ \E n \in Names \ returned :
       /\ Lookup(<<src, n>>) # 0
       /\ returned' = returned \cup {n}
       /\ \/ n \in Chosen(src) /\ rpc' = "open" /\ e' = n
          \/ n \notin Chosen(src) /\ UNCHANGED <<rpc, e>>
  /\ UNCHANGED <<fs, src, f, g, stayed, runs, histories>>

\* readdir() returns NULL, not before every name that was there all the time.
R_End ==
  /\ rpc = "readdir" /\ stayed \subseteq returned
  /\ Over("ended")
  /\ UNCHANGED <<fs, src, runs, histories>>

\* If fopen(p, "wb") succeeds, the data that p leads to are gone.
OpenNew(p) ==
  \/ /\ CanWrite(p) /\ Denotes(p) # 0
     /\ Make(Denotes(p), [inode[Denotes(p)] EXCEPT !.data = <<>>]) /\ UNCHANGED tree
  \/ CanWrite(p) /\ Denotes(p) = 0 /\ Create(Walk(p), File(<<>>, RW))
  \/ ~CanWrite(p) /\ UNCHANGED <<tree, inode>>

Opens(old, new, ok) ==
  \/ /\ ok
     /\ rpc' = "copy" /\ f' = Denotes(old)
     /\ g' = IF Denotes(new) = 0 THEN Fresh ELSE Denotes(new)
     /\ UNCHANGED <<e, returned, stayed>>
  \/ ~ok /\ Over("crashed")

Waits(old, new) == Blocks(old, "r") \/ Blocks(new, "w")

\* Faulty: the copy keeps the name of the source.
R_Open_SameName ==
  LET old == <<src, e>>
      new == <<RevDir[src], e>>
  IN /\ rpc = "open" /\ ~Waits(old, new) /\ OpenNew(new)
     /\ Opens(old, new, CanRead(old) /\ CanWrite(new))
     /\ UNCHANGED <<dirs, src, runs, histories>>

\* Faulty: what has the name of the copy is removed first, and readdir() may
\* return the new file.
R_Open_Anew ==
  LET old == <<src, e>>
      new == NewPath(src, e)
  IN /\ rpc = "open" /\ CanRead(old) /\ CanWrite(new) /\ OpenNew(new)
     /\ rpc' = "copy" /\ f' = Denotes(old)
     /\ g' = IF Denotes(new) = 0 THEN Fresh ELSE Denotes(new)
     /\ returned' = IF new[1] = src THEN returned \ {new[2]} ELSE returned
     /\ UNCHANGED <<e, stayed, dirs, src, runs, histories>>

\* The two fopen() calls: the second empties what is there, even the source
\* itself; then a pointer that is NULL is a crash.
R_Open ==
  LET old == <<src, e>>
      new == NewPath(src, e)
  IN /\ rpc = "open" /\ ~Waits(old, new) /\ OpenNew(new)
     /\ Opens(old, new, CanRead(old) /\ CanWrite(new))
     /\ UNCHANGED <<dirs, src, runs, histories>>

\* One of them waits, for ever.
R_Hang ==
  /\ rpc = "open" /\ Waits(<<src, e>>, NewPath(src, e))
  /\ rpc' = "hung"
  /\ UNCHANGED <<fs, src, e, f, g, returned, stayed, runs, histories>>

\* Faulty: the byte at 0 is left out, as by while (--i).
R_Copy_ShortByOne ==
  /\ rpc = "copy"
  /\ Make(g, [inode[g] EXCEPT !.data = Reverse(SubSeq(inode[f].data, 2, Len(inode[f].data)))])
  /\ rpc' = "readdir" /\ e' = NoName /\ f' = 0 /\ g' = 0
  /\ UNCHANGED <<dirs, tree, src, returned, stayed, runs, histories>>

\* The loop and the two fclose().
R_Copy ==
  /\ rpc = "copy"
  /\ Make(g, [inode[g] EXCEPT !.data = Reverse(inode[f].data)])
  /\ rpc' = "readdir" /\ e' = NoName /\ f' = 0 /\ g' = 0
  /\ UNCHANGED <<dirs, tree, src, returned, stayed, runs, histories>>

\* The user interrupts the program.
R_Kill ==
  /\ Running /\ Over("killed")
  /\ UNCHANGED <<fs, src, runs, histories>>

Reverser == R_Mkdir \/ R_Readdir \/ R_End \/ R_Open \/ R_Hang \/ R_Copy

\* What somebody else's change of files means for the run: a name that is removed
\* may be returned again, once it is back.
Disturbed ==
  /\ returned' = {n \in returned : tree'[src][n] # 0}
  /\ stayed' = {n \in stayed : tree'[src][n] # 0}
  /\ before' = [n \in Names |->
       IF \A p \in {<<src, n>>, NewPath(src, n)} : Denotes(p)' = Denotes(p)
       THEN before[n] ELSE NotCopied]
  /\ fit' = FALSE /\ alone' = FALSE /\ calm' = (calm /\ Calm(src)')

-----------------------------------------------------------------------------
(* Properties *)

TypeOKReverse ==
  /\ rpc \in {"idle", "mkdir", "nodir", "readdir", "open", "copy", "hung",
             "ended", "crashed", "killed"}
  /\ src \in Dirs /\ e \in Names \cup {NoName} /\ {f, g} \subseteq Inodes \cup {0}
  /\ returned \subseteq Names /\ stayed \subseteq Names /\ runs \in 0 .. MAXRUNS
  /\ fit \in BOOLEAN /\ alone \in BOOLEAN /\ calm \in BOOLEAN
  /\ rpc = "open" => e \in Names
  /\ rpc = "copy" => \A k \in {f, g} : k # 0 /\ inode[k].kind = "file"

Data(p) == inode[Denotes(p)].data
Copied(n) == n \in returned /\ n # e

\* The program does not check anything, and need not when every source can be
\* read, every target can be written and is no source, and nobody interferes:
\* then it neither crashes nor waits for ever (3.c:46-55).
RunsThrough == fit => rpc \notin {"crashed", "hung"}

\* Others may add, remove, link and lock files while the program runs, and it may
\* crash, hang or be killed at any moment: as long as no copy has come to lie in
\* the place of a source or of another copy, a source they leave alone is as it
\* was, each that has been copied has its mirror image, and when the program
\* ends all have been (3.c:27-60).
Mirrored ==
  calm => \A n \in Names : before[n] # NotCopied =>
    /\ Data(<<src, n>>) = before[n]
    /\ Copied(n) => Denotes(NewPath(src, n)) # 0 /\ Data(NewPath(src, n)) = Reverse(before[n])
    /\ rpc = "ended" => Copied(n)

\* In a directory whose name is a palindrome (the working directory, given as
\* ".", is one) the copies are made among the sources (3.c:24, 44-47).  What
\* is left then, without links and when nobody interferes: of a file whose name is a palindrome, nothing;
\* of two files with each other's names, one and its mirror image.
Plain(d) == \A n \in Names : Lookup(<<d, n>>) = 0 \/
              /\ Is(<<d, n>>, "file")
              /\ \A m \in Names \ {n} : Lookup(<<d, m>>) # Lookup(<<d, n>>)
PalindromeLoses ==
  rpc = "ended" /\ alone /\ RevDir[src] = src /\ Plain(src) =>
    \A n \in Names : before[n] # NotCopied =>
      LET m == RevName[n]
      IN IF m = n THEN Data(<<src, n>>) = <<>>
         ELSE /\ Lookup(<<src, m>>) # 0
              /\ Data(<<src, m>>) = Reverse(Data(<<src, n>>))
              /\ Data(<<src, n>>) = before[n] \/ Data(<<src, m>>) = before[m]

\* The program ends, or waits for a FIFO: it does not copy its own copies for ever
\* (3.c:27), in a directory that fills up while it is read, and when others add
\* and remove files too, as long as they stop.
RunEnds == Going ~> ~Going
=============================================================================
