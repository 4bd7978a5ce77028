------------------------------ MODULE HeapQueue ------------------------------
(***************************************************************************)
(* std::priority_queue as navigation.hpp uses it: a binary heap of places  *)
(* whose keys, a function of the caller, may have changed since they were  *)
(* pushed; the sifts compare the keys they find and the vector need not be *)
(* a heap any more.                                                        *)
(***************************************************************************)
EXTENDS Integers, Sequences

\* The entry at i rises while its parent's key is larger: it ends where top
\* says and the entries above it on the way move down by one.
SiftUp(heap, i, key) ==
    LET stays(j) == j = 1 \/ key[heap[j \div 2]] <= key[heap[i]]
        top[j \in 1..i] == IF stays(j) THEN j ELSE top[j \div 2]
        way[j \in 1..i] == IF stays(j) THEN {j} ELSE {j} \cup way[j \div 2]
    IN  [j \in DOMAIN heap |->
            IF j = top[i] THEN heap[i] ELSE IF j \in way[i] THEN heap[j \div 2] ELSE heap[j]]

Push(heap, p, key) == SiftUp(Append(heap, p), Len(heap) + 1, key)

\* Smaller children move up into the hole at the top and those it leaves, down
\* to a leaf; the last entry of the vector goes there and rises.
Pop(heap, key) ==
    LET n == Len(heap) - 1
        child(j) == IF 2 * j = n \/ key[heap[2 * j + 1]] > key[heap[2 * j]] THEN 2 * j ELSE 2 * j + 1
        leaf[j \in 1..n] == IF 2 * j > n THEN j ELSE leaf[child(j)]
        way[j \in 1..n] == IF 2 * j > n THEN {j} ELSE {j} \cup way[child(j)]
        moved == [j \in 1..n |->
                     IF j = leaf[1] THEN heap[n + 1] ELSE IF j \in way[1] THEN heap[child(j)] ELSE heap[j]]
    IN  IF n = 0 THEN <<>> ELSE SiftUp(moved, leaf[1], key)
=============================================================================
