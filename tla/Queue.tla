-------------------------------- MODULE Queue --------------------------------
(***************************************************************************)
(* The queue module (queue.c): singly linked lists of nodes that come from *)
(* one pool, with a pointer to the last node and a count.  The pool is a   *)
(* list of its own, last in first out.  Queue 0 is _free_queues.           *)
(*                                                                         *)
(* Callers use a queue between _queue_alloc and _queue_dealloc and         *)
(* initialise it as soon as they have it, as every caller in the kernel    *)
(* does (process.c:60-65).  The kernel never gives a queue back; a caller  *)
(* that does is taken to empty it first, or its nodes would be lost.       *)
(***************************************************************************)
EXTENDS Integers, FiniteSets, SequencesExt

CONSTANTS N_QUEUES, N_QNODES, N_KEYS, Items, Keys     \* as in QueueAbs

ASSUME QueueAssumption ==
  /\ N_QUEUES \in Nat /\ N_QUEUES >= 2
  /\ N_QNODES \in Nat /\ N_QNODES >= N_QUEUES
  /\ N_KEYS \in Nat /\ N_KEYS >= 2
  /\ Keys \subseteq 0..(N_KEYS - 1) /\ 0 \in Keys

Queues == 0..(N_QUEUES - 1)
Nodes == 0..(N_QNODES - 1)
NULL == -1

VARIABLES
  next, data, key,              \* the fields of each node
  free_qnodes,                  \* the first node of the pool
  first, last, size, compare,   \* the fields of each queue
  held, returned, panicked      \* as in QueueAbs

nodes == <<next, data, key, free_qnodes>>
headers == <<first, last, size, compare>>
vars == <<nodes, headers, held, returned, panicked>>

\* The order of a queue: its comparison function, or none.
Orders == {"none", "time"}

-----------------------------------------------------------------------------
(* Mutants, as in Kernel.                                                  *)

AfterEqualsOnly(k1, k2) == k1 >= k2                         \* CompareTime
StaleLast(q, n) == last                                     \* LastAfterRemove
PoolOfOne(n, nxt) == [nxt EXCEPT ![n] = NULL]               \* LinkIntoPool

-----------------------------------------------------------------------------

\* _queue_empty
IsEmpty(q) == first[q] = NULL

\* _compare_time(k1, k2) >= 0
CompareTime(k1, k2) == (k1 - k2) % N_KEYS < N_KEYS \div 2

\* _qnode_dealloc: the links once node n is the first of the pool.
LinkIntoPool(n, nxt) == [nxt EXCEPT ![n] = free_qnodes]

\* _queue_remove: the last nodes once q has lost its first one, n.
LastAfterRemove(q, n) ==
  IF next[n] = NULL THEN [last EXCEPT ![q] = NULL] ELSE last

\* The nodes of queue q from the first one on, as far as its count goes.
NextOf(n) == IF n = NULL THEN NULL ELSE next[n]
Chain(q) ==
  LET node[i \in 1..size[q]] == IF i = 1 THEN first[q] ELSE NextOf(node[i - 1])
  IN [i \in 1..size[q] |-> node[i]]

\* _queue_insert, the search: the number of nodes that a key is put behind.
Behind(q, k) ==
  LET ns == Chain(q)
  IN CHOOSE i \in 0..Len(ns) :
       /\ \A j \in 1..i : CompareTime(k, key[ns[j]])
       /\ i < Len(ns) => ~CompareTime(k, key[ns[i + 1]])

\* _queue_insert(q, d, k)
QueueInsert(q, d, k) ==
  IF free_qnodes = NULL
  THEN panicked' = TRUE /\ UNCHANGED <<nodes, first, last, size>>
  ELSE LET n == free_qnodes
           ns == Chain(q)
           i == IF compare[q] = "none" THEN Len(ns) ELSE Behind(q, k)
           prev == IF compare[q] = "none" THEN last[q]
                   ELSE IF i = 0 THEN NULL ELSE ns[i]
           curr == IF i = Len(ns) THEN NULL ELSE ns[i + 1]
           fresh == [next EXCEPT ![n] = curr]       \* _qnode_alloc, and the link
       IN /\ free_qnodes' = next[n]
          /\ data' = [data EXCEPT ![n] = d]
          /\ key' = [key EXCEPT ![n] = k]
          /\ IF IsEmpty(q)
             THEN /\ next' = [next EXCEPT ![n] = NULL]
                  /\ first' = [first EXCEPT ![q] = n]
                  /\ last' = [last EXCEPT ![q] = n]
                  /\ size' = [size EXCEPT ![q] = 1]
             ELSE /\ next' = IF prev = NULL THEN fresh
                             ELSE [fresh EXCEPT ![prev] = n]
                  /\ first' = IF prev = NULL THEN [first EXCEPT ![q] = n] ELSE first
                  /\ last' = IF curr = NULL THEN [last EXCEPT ![q] = n] ELSE last
                  /\ size' = [size EXCEPT ![q] = @ + 1]
          /\ UNCHANGED panicked

\* _queue_remove(q), of a queue that is not empty.
QueueRemove(q) ==
  LET n == first[q]
  IN /\ first' = [first EXCEPT ![q] = next[n]]
     /\ last' = LastAfterRemove(q, n)
     /\ size' = [size EXCEPT ![q] = @ - 1]
     /\ returned' = data[n]
     /\ next' = LinkIntoPool(n, next)
     /\ free_qnodes' = n
     /\ UNCHANGED <<data, key>>

-----------------------------------------------------------------------------

\* The state after _queue_modinit: the nodes were put into the pool in order,
\* so queue 1 got the last node, queue 2 the one before, and so on.
Init ==
  /\ next = [n \in Nodes |->
       IF n = 0 \/ n = N_QNODES - N_QUEUES + 1 THEN NULL ELSE n - 1]
  /\ data = [n \in Nodes |-> IF n > N_QNODES - N_QUEUES THEN N_QNODES - n ELSE NULL]
  /\ key = [n \in Nodes |-> 0]
  /\ free_qnodes = N_QNODES - N_QUEUES
  /\ first = [q \in Queues |-> IF q = 0 THEN N_QNODES - 1 ELSE NULL]
  /\ last = [q \in Queues |-> IF q = 0 THEN N_QNODES - N_QUEUES + 1 ELSE NULL]
  /\ size = [q \in Queues |-> IF q = 0 THEN N_QUEUES - 1 ELSE 0]
  /\ compare = [q \in Queues |-> "none"]
  /\ held = {}
  /\ returned = NULL
  /\ panicked = FALSE

InsertInto(q, d, k) ==
  /\ ~panicked
  /\ QueueInsert(q, d, k)
  /\ UNCHANGED <<compare, held, returned>>

RemoveFrom(q) ==
  /\ ~panicked
  /\ IF IsEmpty(q)
     THEN returned' = NULL /\ UNCHANGED <<nodes, first, last, size>>
     ELSE QueueRemove(q)
  /\ UNCHANGED <<compare, held, panicked>>

\* _queue_alloc of one queue, which its caller then passes to _queue_init.
\* Nothing is left of its earlier contents: it was cleared when it was freed.
Alloc(order) ==
  /\ ~panicked
  /\ ~IsEmpty(0)
  /\ QueueRemove(0)
  /\ held' = held \cup {data[first[0]]}
  /\ compare' = [compare EXCEPT ![data[first[0]]] = order]
  /\ UNCHANGED panicked

\* _queue_dealloc, of an empty queue: only its comparison function is cleared.
Dealloc(q) ==
  /\ ~panicked
  /\ IsEmpty(q)
  /\ QueueInsert(0, q, 0)
  /\ compare' = [compare EXCEPT ![q] = "none"]
  /\ held' = held \ {q}
  /\ UNCHANGED returned

Next ==
  \/ \E q \in held, d \in Items, k \in Keys : InsertInto(q, d, k)
  \/ \E q \in held : RemoveFrom(q) \/ Dealloc(q)
  \/ \E order \in Orders : Alloc(order)

Spec == Init /\ [][Next]_vars

-----------------------------------------------------------------------------

\* The nodes of the pool.
Pool ==
  LET reach[i \in 0..N_QNODES] ==
        IF i = 0 THEN {free_qnodes} ELSE reach[i - 1] \cup {NextOf(n) : n \in reach[i - 1]}
  IN reach[N_QNODES] \ {NULL}

\* Every node is in the pool or in exactly one queue, once: none is lost and
\* none is linked twice, whatever is inserted and removed (queue.c:93-120,
\* 235-333).
NodesConserved ==
  /\ \A q \in Queues : ToSet(Chain(q)) \subseteq Nodes /\ IsInjective(Chain(q))
  /\ \A n \in Nodes :
       Cardinality({q \in Queues : n \in ToSet(Chain(q))})
         = IF n \in Pool THEN 0 ELSE 1

\* The count, the first and the last pointer of a queue agree: the chain ends
\* after `size` nodes, at the node that `last` points to, which is where a
\* FIFO insert appends (queue.c:293-298).
HeadersAgree ==
  \A q \in Queues :
    LET ns == Chain(q)
    IN IF first[q] = NULL THEN size[q] = 0 /\ last[q] = NULL
       ELSE size[q] > 0 /\ Last(ns) = last[q] /\ NextOf(Last(ns)) = NULL

\* The linked lists implement the abstract queues: elements come out in FIFO
\* order, or in the order of their keys and FIFO for equal ones, and an
\* insert fails only when all the nodes are in use.
Abs == INSTANCE QueueAbs WITH
  contents <- [q \in Queues |->
    [i \in DOMAIN Chain(q) |->
       [data |-> data[Chain(q)[i]], key |-> key[Chain(q)[i]]]]],
  ordered <- {q \in held : compare[q] = "time"}
Refines == Abs!AbsSpec

=============================================================================
