-------------------------------- MODULE Sort --------------------------------
(***************************************************************************)
(* postgress/test2.c: reads N numbers, looks for the largest and the       *)
(* smallest, sorts the numbers by exchanges and prints it all.  One pass   *)
(* of a loop is one step; a call is its loop.                              *)
(***************************************************************************)
EXTENDS Integers

CONSTANTS
  Values,  \* the numbers that may be entered, or be in memory that never was set
  MAXN     \* the largest N entered

ASSUME SortAssumption == Values \subseteq Int /\ MAXN \in Nat

VARIABLES
  pc,       \* the loop that runs
  N,        \* how many numbers
  numbers,  \* the array
  i, j,     \* loop indices
  max, min, \* the results of findMax and findMin
  input,    \* history: the numbers as entered
  from      \* history: where in the input each number was

sortVars == <<pc, N, numbers, i, j, max, min, input, from>>

Index == 0 .. N - 1

\* After main() has read its input (:36-46).  A number that scanf() cannot read
\* stays as malloc() left it, which is any value as well.
SortInit ==
  /\ pc = "findMax"
  /\ N \in 0 .. MAXN
  /\ numbers \in [Index -> Values] /\ input = numbers /\ from = [k \in Index |-> k]
  /\ i = 0 /\ j = 0
  /\ max \in Values /\ min \in Values

\* max = numbers[0], then one pass per number.  Of an array of no numbers the
\* first is whatever lies in memory (max keeps the value it has), or a crash.
findMax ==
  /\ pc = "findMax"
  /\ \/ /\ i < N
        /\ max' = IF i = 0 \/ numbers[i] > max THEN numbers[i] ELSE max
        /\ i' = i + 1
        /\ UNCHANGED pc
     \/ /\ i >= N
        /\ pc' = "findMin" /\ i' = 0
        /\ UNCHANGED max
     \/ /\ N = 0
        /\ pc' = "crashed"
        /\ UNCHANGED <<max, i>>
  /\ UNCHANGED <<N, numbers, j, min, input, from>>

\* Faulty: the comparison of findMax.
findMin_Greater ==
  /\ pc = "findMin"
  /\ \/ /\ i < N
        /\ min' = IF i = 0 \/ numbers[i] > min THEN numbers[i] ELSE min
        /\ i' = i + 1
        /\ UNCHANGED <<pc, j>>
     \/ /\ i >= N
        /\ pc' = "bubbleSort" /\ i' = 0 /\ j' = 1
        /\ UNCHANGED min
  /\ UNCHANGED <<N, numbers, max, input, from>>

findMin ==
  /\ pc = "findMin"
  /\ \/ /\ i < N
        /\ min' = IF i = 0 \/ numbers[i] < min THEN numbers[i] ELSE min
        /\ i' = i + 1
        /\ UNCHANGED <<pc, j>>
     \/ /\ i >= N
        /\ pc' = "bubbleSort" /\ i' = 0 /\ j' = 1
        /\ UNCHANGED min
  /\ UNCHANGED <<N, numbers, max, input, from>>

Exchange(f, a, b) == [f EXCEPT ![a] = f[b], ![b] = f[a]]

\* The inner loop: numbers[i] against each number after it.
Compare ==
  /\ pc = "bubbleSort" /\ i < N /\ j < N
  /\ IF numbers[i] > numbers[j]
     THEN numbers' = Exchange(numbers, i, j) /\ from' = [from EXCEPT ![i] = from[j], ![j] = from[i]]
     ELSE UNCHANGED <<numbers, from>>
  /\ j' = j + 1
  /\ UNCHANGED <<pc, N, i, max, min, input>>

\* Faulty: for (int j = 1; ...), without starting after i.
NextPass_FromOne ==
  /\ pc = "bubbleSort" /\ i < N /\ j >= N
  /\ i' = i + 1 /\ j' = 1
  /\ UNCHANGED <<pc, N, numbers, max, min, input, from>>

\* The outer loop.
NextPass ==
  /\ pc = "bubbleSort" /\ i < N /\ j >= N
  /\ i' = i + 1 /\ j' = i + 2
  /\ UNCHANGED <<pc, N, numbers, max, min, input, from>>

\* The results are printed; the program ends.
Finish ==
  /\ pc = "bubbleSort" /\ i >= N
  /\ pc' = "printed"
  /\ UNCHANGED <<N, numbers, i, j, max, min, input, from>>

SortNext == findMax \/ findMin \/ Compare \/ NextPass \/ Finish

SortSpec == SortInit /\ [][SortNext]_sortVars

-----------------------------------------------------------------------------
(* Properties *)

\* What is printed is in order (:25-35, :56-58).
Sorted ==
  pc = "printed" => \A k, l \in Index : k < l => numbers[k] <= numbers[l]

\* At every moment the array holds the numbers entered, each as often.
Permuted ==
  /\ \A k \in Index : from[k] \in Index /\ numbers[k] = input[from[k]]
  /\ \A k, l \in Index : from[k] = from[l] => k = l

\* The sort is a sort, at every moment and at its end.
SortedPermutation == Sorted /\ Permuted

\* The three functions agree: the largest number found before the sort ends up
\* last and the smallest first (:48-54).
EndsAgree ==
  pc = "printed" /\ N > 0 => numbers[N - 1] = max /\ numbers[0] = min

-----------------------------------------------------------------------------
(* Why: the invariant.                                                     *)

\* The largest and the smallest of the first k numbers entered.
IsMax(m, k) == /\ \A l \in Index : l < k => input[l] <= m
               /\ \E l \in Index : l < k /\ m = input[l]
IsMin(m, k) == /\ \A l \in Index : l < k => m <= input[l]
               /\ \E l \in Index : l < k /\ m = input[l]

SortTypeOK ==
  /\ pc \in {"findMax", "findMin", "bubbleSort", "printed", "crashed"}
  /\ N \in Nat /\ i \in Nat /\ j \in Nat /\ i <= N
  /\ numbers \in [Index -> Values] /\ input \in [Index -> Values]
  /\ from \in [Index -> Index]
  /\ max \in Values /\ min \in Values

\* Until the sort begins the array is as entered, and the searches have seen i
\* numbers of it.
Searching ==
  /\ pc \in {"findMax", "findMin"} => numbers = input
  /\ pc = "findMax" /\ i > 0 => IsMax(max, i)
  /\ pc \in {"findMin", "bubbleSort", "printed"} /\ N > 0 => IsMax(max, N)
  /\ pc = "findMin" /\ i > 0 => IsMin(min, i)
  /\ pc \in {"bubbleSort", "printed"} /\ N > 0 => IsMin(min, N)

\* The numbers before i are in order and not larger than any after them; number
\* i is not larger than those it has been compared with.
Sorting ==
  /\ pc = "bubbleSort" /\ i < N => i < j /\ j <= N
  /\ pc = "bubbleSort" => \A k, l \in Index : k < i /\ k < l => numbers[k] <= numbers[l]
  /\ pc = "bubbleSort" /\ i < N => \A l \in Index : i < l /\ l < j => numbers[i] <= numbers[l]

SortInv == SortTypeOK /\ Searching /\ Sorting /\ Permuted /\ Sorted
=============================================================================
