------------------------------ MODULE Handoff ------------------------------
(***************************************************************************)
(* What the signal-synchronised shared page promises, without signals or   *)
(* processes: two parties take turns on a page of slots.  During its turn  *)
(* the writer fills slots; the reader copies slots during its own, and     *)
(* gives the page back only when it has seen all of it.                    *)
(***************************************************************************)
CONSTANTS Slots, Values

VARIABLES page,    \* the shared slots
          turn,    \* who may touch them
          taken    \* what the reader has copied out, slot by slot

hvars == <<page, turn, taken>>

Init == /\ page \in [Slots -> Values]
        /\ taken \in [Slots -> Values]
        /\ turn = "writer"

Write(i, v) == /\ turn = "writer"
               /\ page' = [page EXCEPT ![i] = v]
               /\ UNCHANGED <<turn, taken>>

Publish == /\ turn = "writer"
           /\ turn' = "reader"
           /\ UNCHANGED <<page, taken>>

Read(i) == /\ turn = "reader"
           /\ taken' = [taken EXCEPT ![i] = page[i]]
           /\ UNCHANGED <<page, turn>>

Release == /\ turn = "reader"
           /\ taken = page
           /\ turn' = "writer"
           /\ UNCHANGED <<page, taken>>

Next == \/ \E i \in Slots, v \in Values : Write(i, v)
        \/ \E i \in Slots : Read(i)
        \/ Publish
        \/ Release

Spec == Init /\ [][Next]_hvars
=============================================================================
