------------------------------ MODULE QueueAbs ------------------------------
(***************************************************************************)
(* What the queue module (queue.c, queue.h) promises its callers: queues   *)
(* of (data, key) pairs, first in first out or in the order of their keys, *)
(* with a common limit on the number of elements.  Queue 0 is the module's *)
(* own: it holds the queues that nobody has allocated.                     *)
(***************************************************************************)
EXTENDS Integers, SequencesExt

CONSTANTS
  N_QUEUES,         \* number of queues
  N_QNODES,         \* number of elements that all of them can hold together
  N_KEYS,           \* keys are counted modulo this (2^32)
  Items,            \* what callers put into queues
  Keys              \* the keys they put them under

Queues == 0..(N_QUEUES - 1)
NULL == -1

VARIABLES
  contents,         \* the elements of each queue, first one first
  held,             \* the queues that callers have allocated
  ordered,          \* the held queues that are ordered by key
  returned,         \* the result of the last call
  panicked          \* an element did not fit: the kernel has stopped

absVars == <<contents, held, ordered, returned, panicked>>

Element(d, k) == [data |-> d, key |-> k]

\* Keys are times that wrap: k1 is later than or equal to k2 when it is less
\* than half a turn ahead of it.
NotBefore(k1, k2) == (k1 - k2) % N_KEYS < N_KEYS \div 2

\* The elements that s begins with and that k is not before.
Passed(s, k) ==
  {i \in 0..Len(s) : \A j \in 1..i : NotBefore(k, s[j].key)}
Place(s, k) == CHOOSE i \in Passed(s, k) : \A j \in Passed(s, k) : j <= i

Total(c) == FoldSet(LAMBDA q, n : Len(c[q]) + n, 0, Queues)

Add(c, q, d, k) ==
  [c EXCEPT ![q] = IF q \in ordered THEN InsertAt(@, Place(@, k) + 1, Element(d, k))
                   ELSE Append(@, Element(d, k))]

AbsInit ==
  /\ contents = [q \in Queues |->
       IF q = 0 THEN [i \in 1..(N_QUEUES - 1) |-> Element(i, 0)] ELSE <<>>]
  /\ held = {} /\ ordered = {}
  /\ returned = NULL
  /\ panicked = FALSE

AbsInsert(q, d, k) ==
  /\ ~panicked
  /\ IF Total(contents) < N_QNODES
     THEN contents' = Add(contents, q, d, k) /\ UNCHANGED panicked
     ELSE panicked' = TRUE /\ UNCHANGED contents
  /\ UNCHANGED <<held, ordered, returned>>

AbsRemove(q) ==
  /\ ~panicked
  /\ IF contents[q] = <<>>
     THEN returned' = NULL /\ UNCHANGED contents
     ELSE /\ returned' = Head(contents[q]).data
          /\ contents' = [contents EXCEPT ![q] = Tail(@)]
  /\ UNCHANGED <<held, ordered, panicked>>

AbsAlloc(byKey) ==
  /\ ~panicked
  /\ contents[0] # <<>>
  /\ LET q == Head(contents[0]).data
     IN /\ contents' = [contents EXCEPT ![0] = Tail(@)]
        /\ held' = held \cup {q}
        /\ ordered' = IF byKey THEN ordered \cup {q} ELSE ordered
        /\ returned' = q
  /\ UNCHANGED panicked

\* A queue is given back when it is empty.  That takes an element, which the
\* other queues may have used up since this one was allocated.
AbsDealloc(q) ==
  /\ ~panicked
  /\ contents[q] = <<>>
  /\ held' = held \ {q} /\ ordered' = ordered \ {q}
  /\ IF Total(contents) < N_QNODES
     THEN contents' = Add(contents, 0, q, 0) /\ UNCHANGED panicked
     ELSE panicked' = TRUE /\ UNCHANGED contents
  /\ UNCHANGED returned

AbsNext ==
  \/ \E q \in held, d \in Items, k \in Keys : AbsInsert(q, d, k)
  \/ \E q \in held : AbsRemove(q) \/ AbsDealloc(q)
  \/ \E byKey \in BOOLEAN : AbsAlloc(byKey)

AbsSpec == AbsInit /\ [][AbsNext]_absVars

=============================================================================
