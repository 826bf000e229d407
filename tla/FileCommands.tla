---------------------------- MODULE FileCommands ----------------------------
(***************************************************************************)
(* 3_part/3.2/main.c: one system call, or a reading of a file, for each    *)
(* name the program is called by.  The names rm_cmd, rmlink_cmd and        *)
(* rmhard_cmd are the same command.  ls_cmd, readlink_cmd and stat_cmd     *)
(* print and change nothing; they are left out.  The commands run here     *)
(* while ReverseCopy does, on the same files.                              *)
(***************************************************************************)
EXTENDS ReverseCopy

CONSTANTS
  Args,     \* the paths that are given to commands
  Texts,    \* the texts of symbolic links
  Modes,    \* the permissions that are given to chmod_cmd
  MAXCMDS   \* commands that are run

ASSUME FileCommandsAssumption ==
  /\ Args \subseteq Path /\ Texts \subseteq Link
  /\ Modes \subseteq SUBSET RW /\ MAXCMDS \in Nat

VARIABLES
  said,     \* what the last command has printed: a name, a path, data
  cmds      \* commands so far

vars == <<fs, local, said, cmds>>

Nothing == [cmd |-> "", path |-> <<>>, data |-> <<>>]

\* The programs find any tree.
Init == TreeOK /\ RInit /\ said = Nothing /\ cmds = 0

\* A command that changes files.
Command ==
  /\ cmds < MAXCMDS /\ cmds' = cmds + 1 /\ said' = Nothing
  /\ UNCHANGED <<rpc, src, e, f, g, runs>>

create_dir(d) ==
  /\ Command /\ d # Cwd
  /\ dirs' = dirs \cup {d}
  /\ UNCHANGED <<tree, inode>>

\* rmdir() fails unless the directory is empty.
remove_dir(d) ==
  /\ Command /\ d \in dirs \ {Cwd} /\ \A n \in Names : tree[d][n] = 0
  /\ dirs' = dirs \ {d}
  /\ UNCHANGED <<tree, inode>>

\* open() with O_CREAT and without a mode: that argument is whatever lies in
\* its place.  Nothing happens to a file that is there.
create_file(p) ==
  /\ Command /\ CanWrite(p)
  /\ \/ Denotes(p) # 0 /\ UNCHANGED <<tree, inode>>
     \/ Denotes(p) = 0 /\ \E m \in SUBSET RW : Create(Walk(p), File(<<>>, m))
  /\ UNCHANGED dirs

remove_file(p) ==
  /\ Command /\ Lookup(p) # 0
  /\ Bind(p, 0)
  /\ UNCHANGED <<dirs, inode>>

create_symlink(text, p) ==
  /\ Command /\ p[1] \in dirs /\ Lookup(p) = 0
  /\ Create(p, [kind |-> "symlink", mode |-> RW, data |-> <<>>, link |-> text])
  /\ UNCHANGED dirs

\* link() gives the file another name; of a symbolic link, the link itself.
create_hardlink(p, q) ==
  /\ Command /\ Lookup(p) # 0 /\ q[1] \in dirs /\ Lookup(q) = 0
  /\ Bind(q, Lookup(p))
  /\ UNCHANGED <<dirs, inode>>

change_perm(p, m) ==
  /\ Command /\ Denotes(p) # 0
  /\ Make(Denotes(p), [inode[Denotes(p)] EXCEPT !.mode = m])
  /\ UNCHANGED <<dirs, tree>>

\* A command that prints, in the model before a run of the copying program or
\* after one that ended; one that waits for a FIFO prints nothing.
Contents(p) == IF CanRead(p) THEN Data(p) ELSE <<>>
Say(cmd, p, data) ==
  /\ said = Nothing /\ rpc \in {"idle", "ended"}
  /\ said' = [cmd |-> cmd, path |-> p, data |-> data]
  /\ UNCHANGED <<fs, local, cmds>>

print_file(p) == ~Blocks(p, "r") /\ Say("cat", p, Contents(p))

\* readlink() of a path that is no link returns -1: buf[-1] is written, which lies
\* outside the buffer, and buf is not set.  Any file is printed, or nothing.
NoLink(p) ==
  /\ ~Is(p, "symlink")
  /\ \E data \in {Contents(q) : q \in Args} \cup {<<>>} : Say("catlink", p, data)

\* Faulty: a name in the text is taken from the directory of the link.
print_symlink_file_Beside(p) ==
  \/ Is(p, "symlink") /\ Say("catlink", p, Contents(From(p[1], inode[Lookup(p)].link)))
  \/ NoLink(p)

\* The text of the link is opened as a path of the program's own.
print_symlink_file(p) ==
  \/ /\ Is(p, "symlink")
     /\ LET q == From(Cwd, inode[Lookup(p)].link)
        IN ~Blocks(q, "r") /\ Say("catlink", p, Contents(q))
  \/ NoLink(p)

Changing ==
  \/ \E d \in Dirs : create_dir(d) \/ remove_dir(d)
  \/ \E p \in Args : \/ create_file(p) \/ remove_file(p)
                     \/ \E text \in Texts : create_symlink(text, p)
                     \/ \E q \in Args : create_hardlink(p, q)
                     \/ \E m \in Modes : change_perm(p, m)
Printing == \E p \in Args : print_file(p) \/ print_symlink_file(p)
Commands == (Changing /\ Disturbed) \/ Printing

Reversing == Reverser /\ said' = Nothing /\ UNCHANGED cmds
Others == (R_Kill \/ \E d \in Dirs : R_Start(d)) /\ said' = Nothing /\ UNCHANGED cmds

Next == Commands \/ Reversing \/ Others

\* The copying program is scheduled.
Spec == Init /\ [][Next]_vars /\ WF_vars(Reversing)

-----------------------------------------------------------------------------
(* Properties *)

\* The types, and that the commands and the copying keep the tree one.
TypeOK == TypeOKReverse /\ TreeOK /\ cmds \in 0 .. MAXCMDS

\* A run of the copying program that nobody disturbs goes well, and one that is
\* disturbed, crashes, hangs or is killed leaves the sources and whole copies.
CopiesWell == TypeOK /\ RunsThrough /\ Mirrored

\* catlink_cmd (main.c:44-49) shows what cat_cmd shows of the link, but only of
\* a link in the working directory or one whose text is a path from the root;
\* of others it shows the file of that name in the working directory.  Not of a
\* chain of links that is too long: cat_cmd has one link more to follow.
CatlinkIsCat ==
  said.cmd = "catlink" /\ Is(said.path, "symlink") /\ ~Is(Walk(said.path), "symlink") =>
    LET text == inode[Lookup(said.path)].link
    IN said.data = Contents(IF text[1] = "." THEN <<Cwd, text[2]>> ELSE said.path)
=============================================================================
