------------------------------ MODULE FilesMC ------------------------------
(***************************************************************************)
(* A small tree for ReverseCopy and FileCommands: two directories whose    *)
(* names are each other's reversal, the working directory (which "." makes *)
(* its own reversal); two names likewise and a palindrome.                 *)
(***************************************************************************)
EXTENDS FileCommands

AllDirs == {"ab", "ba", "."}
RevDirs == [d \in AllDirs |-> CASE d = "ab" -> "ba" [] d = "ba" -> "ab" [] d = "." -> "."]
RevNames == [n \in Names |-> CASE n = "xy" -> "yx" [] n = "yx" -> "xy" [] n = "zz" -> "zz"]
SomeArgs == {<<"ab", "xy">>, <<"ba", "yx">>, <<".", "xy">>}
SomeTexts == {<<"ab", "xy">>, <<".", "yx">>}
SomeModes == {{}, {"r"}}

\* Files 1 and 2 are in ab or in the working directory, or file 2 is not a file.
SomeTree ==
  /\ \E d \in {"ab", "."}, n \in {"yx", "zz"}, kind \in {"file", "socket", "fifo"} :
       /\ n = "yx" => kind # "socket"
       /\ tree = [c \in Dirs |-> [m \in Names |->
                    IF c = d /\ m = "xy" THEN 1 ELSE IF c = d /\ m = n THEN 2 ELSE 0]]
       /\ inode = [k \in Inodes |-> CASE k = 1 -> File(<<1, 2>>, RW)
                                      [] k = 2 -> [File(<<1, 3, 3>>, RW) EXCEPT !.kind = kind]
                                      [] OTHER -> Free]
  /\ dirs = {"ab", "."}

MCInit == SomeTree /\ Init
MCSpec == MCInit /\ [][Next]_vars /\ WF_vars(Reversing)
=============================================================================
