------------------------------ MODULE FreeHeap ------------------------------
(***************************************************************************)
(* The free lists of the metadata server are std::priority_queue objects   *)
(* ordered by std::greater: top() is the smallest element, and an element  *)
(* pushed twice is in the queue twice.  A heap is modelled as the function *)
(* that gives, for every identifier, how many times the queue holds it.    *)
(***************************************************************************)
EXTENDS Naturals

HeapOver(Ids) == [Ids -> Nat]

(* vec(n); iota(vec); priority_queue(vec.begin(), vec.end()) *)
HeapOf(Ids, S) == [i \in Ids |-> IF i \in S THEN 1 ELSE 0]

HeapHolds(h, i) == h[i] > 0

HeapEmpty(h) == \A i \in DOMAIN h : h[i] = 0

(* i is what top() returns. *)
IsTop(h, i) == /\ HeapHolds(h, i)
               /\ \A j \in DOMAIN h : HeapHolds(h, j) => i <= j

Pop(h, i) == [h EXCEPT ![i] = @ - 1]

Push(h, i) == [h EXCEPT ![i] = @ + 1]
=============================================================================
