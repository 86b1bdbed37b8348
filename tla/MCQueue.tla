------------------------------ MODULE MCQueue ------------------------------
(***************************************************************************)
(* The instance of Queue that TLC checks.  Two nodes are alike when they   *)
(* hold the same element, and all the nodes of the pool are alike: nothing *)
(* reads the fields of a node in the pool before they are written, and no  *)
(* result depends on which node an element got.  The view therefore keeps  *)
(* the elements of each queue, not the nodes that hold them, and leaves    *)
(* out the result of the last call, which no later call depends on.        *)
(***************************************************************************)
EXTENDS Queue

QueueView ==
  <<[q \in Queues |-> [i \in DOMAIN Chain(q) |->
       <<data[Chain(q)[i]], key[Chain(q)[i]]>>]],
    [q \in Queues |-> IsEmpty(q)],
    [q \in Queues |-> last[q] \in ToSet(Chain(q))],
    Cardinality(Pool), size, compare, held, panicked>>

=============================================================================
