---------------------------- MODULE LinkedQueue -----------------------------
(***************************************************************************)
(* googletest/gtest/sample3-inl.h: Queue<E>, a linked list with a pointer  *)
(* to its first and its last node and a count, over a heap of nodes.       *)
(***************************************************************************)
EXTENDS Naturals, Sequences, FiniteSets

CONSTANTS
  Elements,     \* what is queued
  Nodes,        \* addresses new may return; their number bounds the queue
  NULL          \* the null pointer

ASSUME ListAssumption == NULL \notin Nodes /\ IsFiniteSet(Nodes)

VARIABLES
  heap,         \* the allocated nodes: element_ and next_ of each
  head_, last_, size_,
  out           \* what the last Dequeue returned, << >> for NULL

listVars == <<heap, head_, last_, size_, out>>

Allocated == DOMAIN heap
Node(e) == [element_ |-> e, next_ |-> NULL]
Without(n) == [m \in Allocated \ {n} |-> heap[m]]

-----------------------------------------------------------------------------
Enqueue(e) ==
  \E n \in Nodes \ Allocated :
    LET new == [m \in Allocated \cup {n} |-> IF m = n THEN Node(e) ELSE heap[m]] IN
    /\ IF size_ = 0
       THEN head_' = n /\ last_' = n /\ size_' = 1 /\ heap' = new
       ELSE /\ heap' = [new EXCEPT ![last_].next_ = n]
            /\ last_' = n /\ size_' = size_ + 1 /\ UNCHANGED head_
    /\ UNCHANGED out
(* Mutant: the element is copied after head_ has moved on.                 *)
DequeueCopiesLate ==
  IF size_ = 0
  THEN out' = << >> /\ UNCHANGED <<heap, head_, last_, size_>>
  ELSE /\ head_' = heap[head_].next_ /\ size_' = size_ - 1
       /\ last_' = IF size_ = 1 THEN NULL ELSE last_
       /\ out' = <<heap[IF size_ = 1 THEN head_ ELSE heap[head_].next_].element_>>
       /\ heap' = Without(head_)
Dequeue ==
  IF size_ = 0
  THEN out' = << >> /\ UNCHANGED <<heap, head_, last_, size_>>
  ELSE /\ head_' = heap[head_].next_
       /\ size_' = size_ - 1
       /\ last_' = IF size_ = 1 THEN NULL ELSE last_
       /\ out' = <<heap[head_].element_>>
       /\ heap' = Without(head_)
(* Clear walks the list and deletes every node it meets.                   *)
Reached ==
  LET after[k \in 0..Cardinality(Allocated)] ==
        IF k = 0 THEN head_ ELSE IF after[k - 1] = NULL THEN NULL
        ELSE heap[after[k - 1]].next_
  IN  [k \in 0..Cardinality(Allocated) |-> after[k]]
Clear ==
  /\ IF size_ > 0
     THEN /\ heap' = [m \in {n \in Allocated : \A k \in DOMAIN Reached : Reached[k] # n} |-> heap[m]]
          /\ head_' = NULL /\ last_' = NULL /\ size_' = 0
     ELSE UNCHANGED <<heap, head_, last_, size_>>
  /\ UNCHANGED out

ListInit == heap = << >> /\ head_ = NULL /\ last_ = NULL /\ size_ = 0 /\ out = << >>
ListNext == (\E e \in Elements : Enqueue(e)) \/ Dequeue \/ Clear
ListSpec == ListInit /\ [][ListNext]_listVars

-----------------------------------------------------------------------------
(* The elements from head_ along next_, for size_ nodes.                   *)
Contents == [k \in 1..size_ |-> heap[Reached[k - 1]].element_]
Abstract == INSTANCE Fifo WITH fifo <- Contents, MaxSize <- Cardinality(Nodes)
(* The allocated nodes are the size_ nodes of the list, and last_ is the   *)
(* last of them: none is leaked, none is used after its deletion.          *)
NodesAreTheList ==
  /\ Cardinality(Allocated) = size_
  /\ {Reached[k] : k \in 0..(size_ - 1)} = Allocated
  /\ size_ > 0 => Reached[size_ - 1] = last_ /\ heap[last_].next_ = NULL
  /\ size_ = 0 => head_ = NULL /\ last_ = NULL
(* The linked list is a first-in first-out queue: whatever calls were      *)
(* made, the nodes from head_ on hold exactly the elements of the queue in *)
(* order, Dequeue returns the oldest one, and the pointers never leave the *)
(* list when it becomes empty and is filled again.                         *)
ImplementsFifo == Abstract!FifoSpec /\ []NodesAreTheList
=============================================================================
