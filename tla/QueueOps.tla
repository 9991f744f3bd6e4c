------------------------------ MODULE QueueOps ------------------------------
(***************************************************************************)
(* The three things chloros.cpp does to its std::vector of threads: insert *)
(* at the front, push at the back, and rebuild it from the elements at     *)
(* some of its positions (vector::erase keeps every position but one,      *)
(* GarbageCollect keeps the positions that hold no zombie).  The lists of  *)
(* pipes that nanomsg's sockets keep lose an element in the same way.      *)
(***************************************************************************)
EXTENDS Integers, Sequences, FiniteSets

(* The elements of the queue q. *)
Queued(q) == {q[i] : i \in DOMAIN q}

(* No element is queued twice. *)
Distinct(q) == \A i, j \in DOMAIN q : q[i] = q[j] => i = j

(* Element x is queued ahead of element y. *)
Ahead(q, x, y) == \E i, j \in DOMAIN q : i < j /\ q[i] = x /\ q[j] = y

(* How many members of the set of integers S are at most i. *)
Rank(S, i) == Cardinality({j \in S : j <= i})

(* The n-th smallest member of the finite set of integers S. *)
Nth(S, n) == CHOOSE i \in S : Rank(S, i) = n

(* The elements of q at the positions in S, in the order they have in q. *)
Keep(q, S) == [n \in 1 .. Cardinality(S) |-> q[Nth(S, n)]]

(* The queue q without element x. *)
Without(q, x) == Keep(q, {i \in DOMAIN q : q[i] # x})

(* Mutants: the new thread goes to the wrong end of the queue.              *)
MutantPushFront(q, x) == Append(q, x)
MutantPushBack(q, x)  == <<x>> \o q

PushFront(q, x) == [n \in 1 .. Len(q) + 1 |-> IF n = 1 THEN x ELSE q[n - 1]]

PushBack(q, x) == Append(q, x)
=============================================================================
