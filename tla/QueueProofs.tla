---------------------------- MODULE QueueProofs ----------------------------
(***************************************************************************)
(* The linked lists of the queue module lose no node, link none twice and  *)
(* implement the abstract queues, for every number of queues and nodes and *)
(* every set of elements and keys.                                         *)
(*                                                                         *)
(* The proofs follow the nodes of every list, the pool being one more, as  *)
(* sequences: an insert takes the first node of the pool to a place in a   *)
(* queue, and a removal takes the first one of a queue to the front of the *)
(* pool.  Both are one operation on the sequences, and one on the links.   *)
(***************************************************************************)
EXTENDS Queue, InductionFacts, FiniteSetTheorems

\* The lists of nodes: the queues, and the pool as the list NULL.
Lists == Queues \cup {NULL}
Link == Nodes \cup {NULL}

\* What follows the first i nodes of a list.
After(s, i) == IF i < Len(s) THEN s[i + 1] ELSE NULL

\* The links nxt thread the nodes of s, from the pointer h on.
Threaded(s, h, nxt) ==
  /\ h = After(s, 0)
  /\ \A i \in 1..Len(s) : nxt[s[i]] = After(s, i)

\* No node is twice in the lists, and every node is in one.
Apart(c) ==
  \A l, m \in Lists : \A i \in 1..Len(c[l]), j \in 1..Len(c[m]) :
    c[l][i] = c[m][j] => l = m /\ i = j
Complete(c) ==
  \A n \in Nodes : \E l \in Lists : \E i \in 1..Len(c[l]) : c[l][i] = n

\* The first node of list l moved behind the first i of list m.
Moved(c, l, m, i) ==
  [c EXCEPT ![l] = Tail(c[l]), ![m] = InsertAt(c[m], i + 1, Head(c[l]))]

LEMMA SizesOfQueue ==
  /\ N_QUEUES \in Nat /\ N_QNODES \in Nat /\ N_QUEUES >= 2 /\ N_QNODES >= N_QUEUES
  /\ NULL \in Int /\ NULL \notin Queues /\ NULL \notin Nodes /\ NULL \in Lists
  /\ Queues \subseteq Nat /\ Nodes \subseteq Nat /\ Lists \subseteq Int
  /\ 0 \in Queues /\ 0 \in Nodes /\ Queues \subseteq Lists
BY QueueAssumption DEF Queues, Nodes, Lists, NULL

LEMMA MovedFacts ==
  ASSUME NEW c \in [Lists -> Seq(Nodes)], NEW l \in Lists, NEW m \in Lists, l # m,
         c[l] # <<>>, NEW i \in 0..Len(c[m])
  PROVE  LET d == Moved(c, l, m, i)
         IN /\ d \in [Lists -> Seq(Nodes)]
            /\ Len(c[l]) \in Nat /\ Len(c[l]) > 0 /\ Len(c[m]) \in Nat
            /\ Len(d[l]) = Len(c[l]) - 1 /\ Len(d[m]) = Len(c[m]) + 1
            /\ \A j \in 1..(Len(c[l]) - 1) : d[l][j] = c[l][j + 1]
            /\ \A j \in 1..(Len(c[m]) + 1) :
                 d[m][j] = IF j <= i THEN c[m][j] ELSE IF j = i + 1 THEN c[l][1] ELSE c[m][j - 1]
            /\ \A k \in Lists \ {l, m} : d[k] = c[k]
            /\ d[l] = Tail(c[l]) /\ d[m] = InsertAt(c[m], i + 1, Head(c[l]))
<1> DEFINE d == Moved(c, l, m, i)
           x == Tail(c[l])
           y == InsertAt(c[m], i + 1, Head(c[l]))
<1>1. c[l] \in Seq(Nodes) /\ c[m] \in Seq(Nodes)
  OBVIOUS
<1>2. /\ Head(c[l]) \in Nodes /\ Head(c[l]) = c[l][1]
      /\ x \in Seq(Nodes) /\ Len(x) = Len(c[l]) - 1
      /\ \A j \in 1..(Len(c[l]) - 1) : x[j] = c[l][j + 1]
  BY <1>1, HeadTailProperties
<1>3. /\ y \in Seq(Nodes) /\ Len(y) = Len(c[m]) + 1
      /\ \A j \in 1..(Len(c[m]) + 1) :
           y[j] = IF j <= i THEN c[m][j] ELSE IF j = i + 1 THEN c[l][1] ELSE c[m][j - 1]
  <2> DEFINE s == c[m]
             e == Head(c[l])
  <2>1. s \in Seq(Nodes) /\ e \in Nodes /\ i \in 0..Len(s) /\ e = c[l][1]
    BY <1>1, <1>2
  <2> HIDE DEF s, e
  <2> DEFINE t == InsertAt(s, i + 1, e)
  <2>2. /\ t \in Seq(Nodes) /\ Len(t) = Len(s) + 1
        /\ \A j \in 1..(Len(s) + 1) :
             t[j] = IF j <= i THEN s[j] ELSE IF j = i + 1 THEN e ELSE s[j - 1]
    <3> HIDE DEF d, x, y, t
    <3>1. t = InsertAt(s, i + 1, e)
      BY DEF t
    <3>2. t \in Seq(Nodes) /\ IsInsertion(t, s, i, e)
      BY <2>1, <3>1, InsertAtFacts
    <3> QED BY <3>2 DEF IsInsertion
  <2>3. y = t
    BY DEF s, e
  <2> HIDE DEF t, y
  <2> QED BY <2>1, <2>2, <2>3 DEF s
<1>4. Len(c[l]) \in Nat /\ Len(c[l]) > 0 /\ Len(c[m]) \in Nat
  BY <1>1, LenProperties, EmptySeq
<1>5. d = [c EXCEPT ![l] = x, ![m] = y]
  BY DEF Moved
<1>6. x = Tail(c[l]) /\ y = InsertAt(c[m], i + 1, Head(c[l]))
  OBVIOUS
<1> HIDE DEF d, x, y
<1>7. /\ d \in [Lists -> Seq(Nodes)] /\ d[l] = x /\ d[m] = y
      /\ \A k \in Lists \ {l, m} : d[k] = c[k]
  BY <1>2, <1>3, <1>5
<1>8. /\ Len(d[l]) = Len(c[l]) - 1 /\ Len(d[m]) = Len(c[m]) + 1
      /\ \A j \in 1..(Len(c[l]) - 1) : d[l][j] = c[l][j + 1]
      /\ \A j \in 1..(Len(c[m]) + 1) :
           d[m][j] = IF j <= i THEN c[m][j] ELSE IF j = i + 1 THEN c[l][1] ELSE c[m][j - 1]
  BY <1>2, <1>3, <1>7
<1> QED BY <1>4, <1>6, <1>7, <1>8 DEF d

\* The same of a list of any name.
IsMoved(d, c, l, m, i) ==
  /\ Len(d[l]) = Len(c[l]) - 1 /\ Len(d[m]) = Len(c[m]) + 1
  /\ \A j \in 1..(Len(c[l]) - 1) : d[l][j] = c[l][j + 1]
  /\ \A j \in 1..(Len(c[m]) + 1) :
       d[m][j] = IF j <= i THEN c[m][j] ELSE IF j = i + 1 THEN c[l][1] ELSE c[m][j - 1]

LEMMA MovedIsMoved ==
  ASSUME NEW c \in [Lists -> Seq(Nodes)], NEW l \in Lists, NEW m \in Lists, l # m,
         c[l] # <<>>, NEW i \in 0..Len(c[m]), NEW d, d = Moved(c, l, m, i)
  PROVE  IsMoved(d, c, l, m, i)
BY MovedFacts, SMTT(40) DEF IsMoved

\* Where the element at position j of list k was before the move.
WasIn(k, j, l, m, i) == IF k = m /\ j = i + 1 THEN l ELSE k
WasAt(k, j, l, m, i) ==
  IF k = l THEN j + 1
  ELSE IF k # m \/ j <= i THEN j
  ELSE IF j = i + 1 THEN 1
  ELSE j - 1

LEMMA MovedKeepsElements ==
  ASSUME NEW c \in [Lists -> Seq(Nodes)], NEW l \in Lists, NEW m \in Lists, l # m,
         c[l] # <<>>, NEW i \in 0..Len(c[m]), Apart(c), Complete(c)
  PROVE  Apart(Moved(c, l, m, i)) /\ Complete(Moved(c, l, m, i))
<1> DEFINE d == Moved(c, l, m, i)
           K(k, j) == WasIn(k, j, l, m, i)
           J(k, j) == WasAt(k, j, l, m, i)
<1>1. /\ d \in [Lists -> Seq(Nodes)]
      /\ Len(c[l]) \in Nat /\ Len(c[l]) > 0 /\ Len(c[m]) \in Nat
      /\ Len(d[l]) = Len(c[l]) - 1 /\ Len(d[m]) = Len(c[m]) + 1
      /\ \A j \in 1..(Len(c[l]) - 1) : d[l][j] = c[l][j + 1]
      /\ \A j \in 1..(Len(c[m]) + 1) :
           d[m][j] = IF j <= i THEN c[m][j] ELSE IF j = i + 1 THEN c[l][1] ELSE c[m][j - 1]
      /\ \A k \in Lists \ {l, m} : d[k] = c[k]
  BY MovedFacts
<1> HIDE DEF d
<1>2. ASSUME NEW k \in Lists, NEW j \in 1..Len(d[k])
      PROVE  /\ K(k, j) \in Lists /\ J(k, j) \in 1..Len(c[K(k, j)])
             /\ d[k][j] = c[K(k, j)][J(k, j)]
  <2>1. CASE k = l
    <3>1. j \in 1..(Len(c[l]) - 1) /\ j + 1 \in 1..Len(c[l])
      BY <1>1, <2>1
    <3>2. K(k, j) = l /\ J(k, j) = j + 1
      BY <2>1 DEF WasIn, WasAt
    <3> QED BY <1>1, <2>1, <3>1, <3>2
  <2>2. CASE k = m /\ j = i + 1
    <3>1. j \in 1..(Len(c[m]) + 1) /\ ~(j <= i) /\ 1 \in 1..Len(c[l])
      BY <1>1, <2>2
    <3>2. K(k, j) = l /\ J(k, j) = 1
      BY <2>2, <3>1 DEF WasIn, WasAt
    <3> QED BY <1>1, <2>2, <3>1, <3>2
  <2>3. CASE k = m /\ j # i + 1
    <3>1. /\ j \in 1..(Len(c[m]) + 1) /\ (j <= i => j \in 1..Len(c[m]))
          /\ (~(j <= i) => j - 1 \in 1..Len(c[m]))
      BY <1>1, <2>3
    <3>2. K(k, j) = m /\ J(k, j) = IF j <= i THEN j ELSE j - 1
      BY <2>3 DEF WasIn, WasAt
    <3> QED BY <1>1, <2>3, <3>1, <3>2
  <2>4. CASE k # l /\ k # m
    <3>1. K(k, j) = k /\ J(k, j) = j
      BY <2>4 DEF WasIn, WasAt
    <3>2. d[k] = c[k]
      BY <1>1, <2>4
    <3> QED BY <3>1, <3>2
  <2> QED BY <2>1, <2>2, <2>3, <2>4
<1>3. Apart(d)
  <2> SUFFICES ASSUME NEW k1 \in Lists, NEW k2 \in Lists,
                      NEW j1 \in 1..Len(d[k1]), NEW j2 \in 1..Len(d[k2]),
                      d[k1][j1] = d[k2][j2]
               PROVE  k1 = k2 /\ j1 = j2
    BY DEF Apart
  <2>1. K(k1, j1) = K(k2, j2) /\ J(k1, j1) = J(k2, j2)
    <3> HIDE DEF K, J
    <3>1. /\ K(k1, j1) \in Lists /\ J(k1, j1) \in 1..Len(c[K(k1, j1)])
          /\ d[k1][j1] = c[K(k1, j1)][J(k1, j1)]
      BY <1>2
    <3>2. /\ K(k2, j2) \in Lists /\ J(k2, j2) \in 1..Len(c[K(k2, j2)])
          /\ d[k2][j2] = c[K(k2, j2)][J(k2, j2)]
      BY <1>2
    <3> DEFINE l1 == K(k1, j1)
               l2 == K(k2, j2)
               i1 == J(k1, j1)
               i2 == J(k2, j2)
    <3> HIDE DEF l1, l2, i1, i2
    <3>3. /\ l1 \in Lists /\ l2 \in Lists /\ i1 \in 1..Len(c[l1]) /\ i2 \in 1..Len(c[l2])
          /\ c[l1][i1] = c[l2][i2]
      BY <3>1, <3>2 DEF l1, l2, i1, i2
    <3>4. l1 = l2 /\ i1 = i2
      BY <3>3 DEF Apart
    <3> QED BY <3>4 DEF l1, l2, i1, i2
  <2>2. j1 \in Int /\ j2 \in Int /\ i \in Int /\ j1 > 0 /\ j2 > 0
    BY <1>1
  <2>3. /\ (IF k1 = m /\ j1 = i + 1 THEN l ELSE k1) = (IF k2 = m /\ j2 = i + 1 THEN l ELSE k2)
        /\ (IF k1 = l THEN j1 + 1 ELSE IF k1 # m \/ j1 <= i THEN j1
            ELSE IF j1 = i + 1 THEN 1 ELSE j1 - 1)
           = (IF k2 = l THEN j2 + 1 ELSE IF k2 # m \/ j2 <= i THEN j2
              ELSE IF j2 = i + 1 THEN 1 ELSE j2 - 1)
    BY <2>1 DEF WasIn, WasAt
  <2>4. k1 = k2
    BY <2>2, <2>3
  <2> QED BY <2>2, <2>3, <2>4
<1>4. Complete(d)
  <2> SUFFICES ASSUME NEW n \in Nodes
               PROVE  \E k \in Lists : \E j \in 1..Len(d[k]) : d[k][j] = n
    BY DEF Complete
  <2>1. PICK k \in Lists : \E j \in 1..Len(c[k]) : c[k][j] = n
    BY DEF Complete
  <2>2. PICK j \in 1..Len(c[k]) : c[k][j] = n
    BY <2>1
  <2>3. CASE k = l /\ j = 1
    <3>1. i + 1 \in 1..(Len(c[m]) + 1) /\ ~(i + 1 <= i)
      BY <1>1
    <3>2. i + 1 \in 1..Len(d[m]) /\ d[m][i + 1] = n
      BY <1>1, <2>2, <2>3, <3>1
    <3> QED BY <3>2
  <2>4. CASE k = l /\ j # 1
    <3>1. j - 1 \in 1..(Len(c[l]) - 1) /\ (j - 1) + 1 = j
      BY <1>1, <2>4
    <3>2. j - 1 \in 1..Len(d[l]) /\ d[l][j - 1] = n
      BY <1>1, <2>2, <2>4, <3>1
    <3> QED BY <3>2
  <2>5. CASE k = m /\ j <= i
    <3>1. j \in 1..(Len(c[m]) + 1)
      BY <1>1, <2>5
    <3>2. j \in 1..Len(d[m]) /\ d[m][j] = n
      BY <1>1, <2>2, <2>5, <3>1
    <3> QED BY <3>2
  <2>6. CASE k = m /\ ~(j <= i)
    <3>1. j + 1 \in 1..(Len(c[m]) + 1) /\ ~(j + 1 <= i) /\ j + 1 # i + 1 /\ (j + 1) - 1 = j
      BY <1>1, <2>6
    <3>2. j + 1 \in 1..Len(d[m]) /\ d[m][j + 1] = n
      BY <1>1, <2>2, <2>6, <3>1
    <3> QED BY <3>2
  <2>7. CASE k # l /\ k # m
    <3>1. d[k] = c[k]
      BY <1>1, <2>7
    <3> QED BY <2>2, <3>1
  <2> QED BY <2>3, <2>4, <2>5, <2>6, <2>7
<1> QED BY <1>3, <1>4 DEF d

\* The links after such a move: those of the moved node and of the one before
\* its new place have changed.
LEMMA MovedIsThreaded ==
  ASSUME NEW c \in [Lists -> Seq(Nodes)], NEW l \in Lists, NEW m \in Lists, l # m,
         c[l] # <<>>, NEW i \in 0..Len(c[m]), Apart(c),
         NEW h \in [Lists -> Link], NEW nxt \in [Nodes -> Link],
         \A k \in Lists : Threaded(c[k], h[k], nxt),
         NEW g, NEW nx,
         g = [h EXCEPT ![l] = nxt[c[l][1]], ![m] = IF i = 0 THEN c[l][1] ELSE h[m]],
         \A n \in Nodes :
           nx[n] = IF n = c[l][1] THEN After(c[m], i)
                   ELSE IF i > 0 /\ n = c[m][i] THEN c[l][1] ELSE nxt[n]
  PROVE  \A k \in Lists : Threaded(Moved(c, l, m, i)[k], g[k], nx)
<1> DEFINE d == Moved(c, l, m, i)
           x == c[l][1]
<1>1. /\ d \in [Lists -> Seq(Nodes)]
      /\ Len(c[l]) \in Nat /\ Len(c[l]) > 0 /\ Len(c[m]) \in Nat
      /\ Len(d[l]) = Len(c[l]) - 1 /\ Len(d[m]) = Len(c[m]) + 1
      /\ \A j \in 1..(Len(c[l]) - 1) : d[l][j] = c[l][j + 1]
      /\ \A j \in 1..(Len(c[m]) + 1) :
           d[m][j] = IF j <= i THEN c[m][j] ELSE IF j = i + 1 THEN x ELSE c[m][j - 1]
      /\ \A k \in Lists \ {l, m} : d[k] = c[k]
  <2>1. Len(c[m]) \in Nat /\ Len(c[l]) \in Nat
    BY LenProperties
  <2> HIDE DEF d, x
  <2>2. /\ d \in [Lists -> Seq(Nodes)]
        /\ Len(c[l]) \in Nat /\ Len(c[l]) > 0 /\ Len(c[m]) \in Nat
        /\ Len(d[l]) = Len(c[l]) - 1 /\ Len(d[m]) = Len(c[m]) + 1
    BY MovedFacts, SMTT(40) DEF d
  <2>3. \A j \in 1..(Len(c[l]) - 1) : d[l][j] = c[l][j + 1]
    BY MovedFacts DEF d
  <2>4. \A j \in 1..(Len(c[m]) + 1) :
           d[m][j] = IF j <= i THEN c[m][j] ELSE IF j = i + 1 THEN x ELSE c[m][j - 1]
    BY MovedFacts DEF d, x
  <2>5. \A k \in Lists \ {l, m} : d[k] = c[k]
    BY DEF d, Moved
  <2> QED BY <2>2, <2>3, <2>4, <2>5
<1> HIDE DEF d
<1>2. ASSUME NEW k \in Lists, NEW j \in 1..Len(c[k])
      PROVE  c[k][j] \in Nodes /\ nxt[c[k][j]] = After(c[k], j)
  BY ElementOfSeq DEF Threaded
<1>3. \A k \in Lists : h[k] = After(c[k], 0)
  BY DEF Threaded
<1>4. 1 \in 1..Len(c[l]) /\ x \in Nodes
  BY <1>1, <1>2
<1>5. i > 0 => i \in 1..Len(c[m])
  BY <1>1
\* The links of the nodes that are neither.
<1>6. ASSUME NEW k \in Lists, NEW j \in 1..Len(c[k]),
             k # l \/ j # 1, k # m \/ j # i
      PROVE  nx[c[k][j]] = After(c[k], j)
  <2>1. c[k][j] # x
    BY <1>4, <1>6 DEF Apart
  <2>2. ~(i > 0 /\ c[k][j] = c[m][i])
    BY <1>5, <1>6 DEF Apart
  <2> QED BY <1>2, <2>1, <2>2
<1>7. nx[x] = After(c[m], i) /\ (i > 0 => nx[c[m][i]] = x)
  <2>1. i > 0 => c[m][i] \in Nodes /\ c[m][i] # x
    BY <1>2, <1>4, <1>5 DEF Apart
  <2> QED BY <1>4, <2>1
<1>8. g \in [Lists -> Link] /\ g[l] = nxt[x] /\ g[m] = (IF i = 0 THEN x ELSE h[m])
      /\ \A k \in Lists \ {l, m} : g[k] = h[k]
  BY <1>4 DEF Link
<1> HIDE DEF x
<1>9. Threaded(d[l], g[l], nx)
  <2>1. g[l] = After(d[l], 0)
    <3>1. nxt[x] = After(c[l], 1)
      BY <1>2, <1>4 DEF x
    <3>2. After(d[l], 0) = After(c[l], 1)
      BY <1>1 DEF After
    <3> QED BY <1>8, <3>1, <3>2
  <2>2. ASSUME NEW j \in 1..Len(d[l]) PROVE nx[d[l][j]] = After(d[l], j)
    <3>1. j + 1 \in 1..Len(c[l]) /\ j + 1 # 1 /\ d[l][j] = c[l][j + 1]
      BY <1>1, <2>2
    <3>2. nx[d[l][j]] = After(c[l], j + 1)
      BY <1>6, <3>1
    <3>3. After(d[l], j) = After(c[l], j + 1)
      BY <1>1, <2>2 DEF After
    <3> QED BY <3>2, <3>3
  <2> QED BY <2>1, <2>2 DEF Threaded
<1>10. Threaded(d[m], g[m], nx)
  <2>1. g[m] = After(d[m], 0)
    <3>1. CASE i = 0
      <4>1. d[m][1] = x /\ 0 < Len(d[m])
        BY <1>1, <3>1
      <4> QED BY <1>8, <3>1, <4>1 DEF After
    <3>2. CASE i # 0
      <4>1. 1 \in 1..(Len(c[m]) + 1) /\ 1 <= i /\ 0 < Len(c[m]) /\ 0 < Len(c[m]) + 1
        BY <1>1, <3>2
      <4>3. d[m][1] = c[m][1] /\ 0 < Len(d[m])
        BY <1>1, <4>1
      <4> QED BY <1>3, <1>8, <3>2, <4>1, <4>3 DEF After
    <3> QED BY <3>1, <3>2
  <2>2. ASSUME NEW j \in 1..Len(d[m]) PROVE nx[d[m][j]] = After(d[m], j)
    <3>0. j \in 1..(Len(c[m]) + 1) /\ j \in Int /\ i \in Int
      BY <1>1, <2>2
    <3>1. CASE j < i
      <4>1. /\ j \in 1..Len(c[m]) /\ j # i /\ j <= i /\ j + 1 <= i
            /\ j + 1 \in 1..(Len(c[m]) + 1) /\ j < Len(c[m]) /\ j < Len(d[m])
        BY <1>1, <3>0, <3>1
      <4>2. d[m][j] = c[m][j] /\ d[m][j + 1] = c[m][j + 1]
        BY <1>1, <3>0, <4>1
      <4>3. nx[d[m][j]] = After(c[m], j)
        BY <1>6, <4>1, <4>2
      <4> QED BY <4>1, <4>2, <4>3 DEF After
    <3>2. CASE j = i
      <4>1. j <= i /\ i > 0 /\ i + 1 \in 1..(Len(c[m]) + 1) /\ ~(i + 1 <= i) /\ i < Len(d[m])
        BY <1>1, <3>0, <3>2
      <4>2. d[m][j] = c[m][i] /\ d[m][i + 1] = x
        BY <1>1, <3>0, <3>2, <4>1
      <4> QED BY <1>7, <3>2, <4>1, <4>2 DEF After
    <3>3. CASE j = i + 1
      <4>3. ~(j <= i)
        BY <3>0, <3>3
      <4>1. d[m][j] = x
        BY <1>1, <3>0, <3>3, <4>3
      <4>2. After(d[m], j) = After(c[m], i)
        <5>1. CASE i < Len(c[m])
          <6>1. /\ j < Len(d[m]) /\ j + 1 \in 1..(Len(c[m]) + 1)
                /\ ~(j + 1 <= i) /\ j + 1 # i + 1 /\ (j + 1) - 1 = i + 1
            BY <1>1, <3>0, <3>3, <5>1
          <6>2. d[m][j + 1] = c[m][i + 1]
            BY <1>1, <6>1
          <6> QED BY <5>1, <6>1, <6>2 DEF After
        <5>2. CASE ~(i < Len(c[m]))
          <6>1. ~(j < Len(d[m]))
            BY <1>1, <3>0, <3>3, <5>2
          <6> QED BY <5>2, <6>1 DEF After
        <5> QED BY <5>1, <5>2
      <4> QED BY <1>7, <4>1, <4>2
    <3>4. CASE j > i + 1
      <4>1. /\ ~(j <= i) /\ j # i + 1 /\ j - 1 \in 1..Len(c[m]) /\ j - 1 # i
            /\ (j - 1) + 1 = j
        BY <1>1, <3>0, <3>4
      <4>2. d[m][j] = c[m][j - 1]
        BY <1>1, <3>0, <4>1
      <4>3. nx[d[m][j]] = After(c[m], j - 1)
        BY <1>6, <4>1, <4>2
      <4>4. After(d[m], j) = After(c[m], j - 1)
        <5>1. CASE j < Len(d[m])
          <6>1. /\ j - 1 < Len(c[m]) /\ j + 1 \in 1..(Len(c[m]) + 1)
                /\ ~(j + 1 <= i) /\ j + 1 # i + 1 /\ (j + 1) - 1 = j
            BY <1>1, <3>0, <3>4, <5>1
          <6>2. d[m][j + 1] = c[m][j]
            BY <1>1, <6>1, ZenonT(60)
          <6> QED BY <4>1, <5>1, <6>1, <6>2 DEF After
        <5>2. CASE ~(j < Len(d[m]))
          <6>1. ~(j - 1 < Len(c[m]))
            BY <1>1, <3>0, <5>2
          <6> QED BY <5>2, <6>1 DEF After
        <5> QED BY <5>1, <5>2
      <4> QED BY <4>3, <4>4
    <3> QED BY <3>0, <3>1, <3>2, <3>3, <3>4
  <2> QED BY <2>1, <2>2 DEF Threaded
<1>11. ASSUME NEW k \in Lists \ {l, m} PROVE Threaded(d[k], g[k], nx)
  <2>1. d[k] = c[k] /\ g[k] = h[k]
    BY <1>1, <1>8
  <2>2. ASSUME NEW j \in 1..Len(c[k]) PROVE nx[c[k][j]] = After(c[k], j)
    BY <1>6, <1>11
  <2> QED BY <1>3, <2>1, <2>2 DEF Threaded
<1> QED BY <1>9, <1>10, <1>11 DEF d

-----------------------------------------------------------------------------
(* The lists that the headers and the links of a state make.               *)

\* A threaded sequence with as many nodes as a queue counts is its chain.
LEMMA ChainIs ==
  ASSUME NEW q, NEW s \in Seq(Nodes), size[q] = Len(s), Threaded(s, first[q], next)
  PROVE  Chain(q) = s
<1> DEFINE n == Len(s)
           Step(f, i) == IF i = 1 THEN first[q] ELSE NextOf(f[i - 1])
           F == CHOOSE f : f = [i \in 1..n |-> IF i = 1 THEN first[q] ELSE NextOf(f[i - 1])]
<1>1. n \in Nat /\ DOMAIN s = 1..n /\ \A i \in 1..n : s[i] \in Nodes
  BY LenProperties, ElementOfSeq
<1>2. ASSUME NEW i \in 1..n PROVE s[i] = Step(s, i)
  <2>1. CASE i = 1
    <3>1. first[q] = s[1]
      BY <1>1, <2>1 DEF Threaded, After
    <3> QED BY <2>1, <3>1
  <2>2. CASE i # 1
    <3>1. i - 1 \in 1..n /\ i - 1 < n /\ (i - 1) + 1 = i
      BY <1>1, <2>2
    <3>2. s[i - 1] # NULL
      BY <1>1, <3>1, SizesOfQueue
    <3>3. next[s[i - 1]] = s[i]
      BY <3>1 DEF Threaded, After
    <3> QED BY <2>2, <3>2, <3>3 DEF NextOf
  <2> QED BY <2>1, <2>2
<1>3. F = [i \in 1..n |-> IF i = 1 THEN first[q] ELSE NextOf(F[i - 1])]
  <2>1. s = [i \in 1..n |-> s[i]]
    BY <1>1
  <2>2. s = [i \in 1..n |-> IF i = 1 THEN first[q] ELSE NextOf(s[i - 1])]
    BY <1>2, <2>1
  <2>3. \E f : f = [i \in 1..n |-> IF i = 1 THEN first[q] ELSE NextOf(f[i - 1])]
    BY <2>2
  <2> QED BY <2>3
<1>4. Chain(q) = [i \in 1..n |-> F[i]]
  BY DEF Chain
<1> HIDE DEF F, n
<1>5. ASSUME NEW i \in 1..n PROVE F[i] = Step(F, i)
  BY <1>3
<1>6. \A i \in 1..n : F[i] = s[i]
  <2> DEFINE S == {i \in 0..n : i # 0 => F[i] = s[i]}
  <2>1. 0 \in S
    BY <1>1
  <2>2. ASSUME NEW i \in 0..(n - 1), i \in S PROVE i + 1 \in S
    <3>1. i + 1 \in 1..n /\ (i + 1) - 1 = i /\ i + 1 \in 0..n /\ (i = 0 <=> i + 1 = 1)
      BY <1>1
    <3>2. F[i + 1] = Step(F, i + 1) /\ s[i + 1] = Step(s, i + 1)
      BY <1>2, <1>5, <3>1
    <3>3. i # 0 => F[i] = s[i]
      BY <2>2
    <3>4. F[i + 1] = s[i + 1]
      BY <3>1, <3>2, <3>3
    <3> QED BY <3>1, <3>4
  <2> HIDE DEF S
  <2>3. 0..n \subseteq S
    BY <1>1, <2>1, <2>2, IntervalInduction
  <2>4. \A i \in 1..n : i \in 0..n /\ i # 0
    BY <1>1
  <2> QED BY <2>3, <2>4 DEF S
<1>7. Chain(q) = [i \in 1..n |-> s[i]]
  BY <1>4, <1>6
<1>8. s = [i \in 1..n |-> s[i]]
  BY <1>1
<1> QED BY <1>7, <1>8

\* A list in which no node is twice is not longer than there are nodes.
LEMMA ApartIsShort ==
  ASSUME NEW s \in Seq(Nodes), \A i, j \in 1..Len(s) : s[i] = s[j] => i = j
  PROVE  Len(s) <= N_QNODES
<1>1. Len(s) \in Nat /\ \A i \in 1..Len(s) : s[i] \in Nodes
  BY LenProperties, ElementOfSeq
<1> DEFINE f == [i \in 1..Len(s) |-> s[i]]
<1>2. f \in [1..Len(s) -> Nodes] /\ \A i, j \in 1..Len(s) : f[i] = f[j] => i = j
  BY <1>1
<1>3. IsFiniteSet(Nodes) /\ Cardinality(Nodes) = N_QNODES
  <2>1. 0 \in Int /\ N_QNODES - 1 \in Int
    BY SizesOfQueue
  <2>2. IsFiniteSet(0..(N_QNODES - 1))
        /\ Cardinality(0..(N_QNODES - 1)) = (IF 0 > N_QNODES - 1 THEN 0 ELSE (N_QNODES - 1) - 0 + 1)
    BY <2>1, FS_Interval
  <2> QED BY <2>2, SizesOfQueue DEF Nodes
<1>4. IsFiniteSet(1..Len(s)) /\ Cardinality(1..Len(s)) = Len(s)
  <2>1. IsFiniteSet(1..Len(s))
        /\ Cardinality(1..Len(s)) = (IF 1 > Len(s) THEN 0 ELSE Len(s) - 1 + 1)
    BY <1>1, FS_Interval
  <2> QED BY <1>1, <2>1
<1> SUFFICES ASSUME Len(s) > N_QNODES PROVE FALSE
  BY <1>1, SizesOfQueue
<1> HIDE DEF f
<1>5. \E i, j \in 1..Len(s) : i # j /\ f[i] = f[j]
  BY <1>2, <1>3, <1>4, FS_PigeonHole
<1> QED BY <1>2, <1>5

\* A threaded sequence that begins where the pool does holds its nodes.
LEMMA PoolIs ==
  ASSUME NEW p \in Seq(Nodes), Len(p) <= N_QNODES, Threaded(p, free_qnodes, next)
  PROVE  Pool = ToSet(p)
<1> DEFINE N == N_QNODES
           Step(f, i) == IF i = 0 THEN {free_qnodes} ELSE f[i - 1] \cup {NextOf(n) : n \in f[i - 1]}
           F == CHOOSE f : f = [i \in 0..N |-> IF i = 0 THEN {free_qnodes}
                  ELSE f[i - 1] \cup {NextOf(n) : n \in f[i - 1]}]
           W == [i \in 0..N |-> {After(p, j) : j \in 0..i}]
<1>1. /\ N \in Nat /\ Len(p) \in Nat /\ DOMAIN p = 1..Len(p)
      /\ \A i \in 1..Len(p) : p[i] \in Nodes /\ p[i] # NULL
  BY LenProperties, ElementOfSeq, SizesOfQueue
<1>2. ASSUME NEW j \in Nat PROVE NextOf(After(p, j)) = After(p, j + 1)
  <2>1. CASE j < Len(p)
    <3>1. j + 1 \in 1..Len(p) /\ After(p, j) = p[j + 1]
      BY <1>1, <2>1 DEF After
    <3>2. next[p[j + 1]] = After(p, j + 1)
      BY <3>1 DEF Threaded
    <3> QED BY <1>1, <3>1, <3>2 DEF NextOf
  <2>2. CASE ~(j < Len(p))
    <3>1. After(p, j) = NULL /\ ~(j + 1 < Len(p))
      BY <1>1, <2>2 DEF After
    <3> QED BY <3>1 DEF NextOf, After
  <2> QED BY <2>1, <2>2
<1>3. ASSUME NEW i \in 0..N PROVE W[i] = Step(W, i)
  <2>1. CASE i = 0
    <3>1. W[i] = {After(p, 0)}
      BY <1>1, <2>1
    <3>2. free_qnodes = After(p, 0)
      BY DEF Threaded
    <3> QED BY <2>1, <3>1, <3>2
  <2>2. CASE i # 0
    <3>1. i - 1 \in 0..N /\ i - 1 \in Nat /\ (i - 1) + 1 = i
      BY <1>1, <2>2
    <3>2. W[i] = {After(p, j) : j \in 0..i} /\ W[i - 1] = {After(p, j) : j \in 0..(i - 1)}
      BY <3>1
    <3>3. {NextOf(n) : n \in W[i - 1]} = {After(p, j + 1) : j \in 0..(i - 1)}
      <4>1. \A j \in 0..(i - 1) : j \in Nat
        BY <3>1
      <4>2. {NextOf(n) : n \in W[i - 1]} = {NextOf(After(p, j)) : j \in 0..(i - 1)}
        BY <3>2
      <4> HIDE DEF W
      <4> QED BY <1>2, <4>1, <4>2
    <3>4. {After(p, j) : j \in 0..i}
            = {After(p, j) : j \in 0..(i - 1)} \cup {After(p, j + 1) : j \in 0..(i - 1)}
      <4>1. ASSUME NEW j \in 0..i
            PROVE  j \in 0..(i - 1) \/ (j - 1 \in 0..(i - 1) /\ (j - 1) + 1 = j)
        BY <3>1
      <4>2. \A j \in 0..(i - 1) : j \in 0..i /\ j + 1 \in 0..i
        BY <3>1
      <4>3. ASSUME NEW x \in {After(p, j) : j \in 0..i}
            PROVE  x \in {After(p, j) : j \in 0..(i - 1)} \cup {After(p, j + 1) : j \in 0..(i - 1)}
        BY <4>1
      <4>4. ASSUME NEW x \in {After(p, j) : j \in 0..(i - 1)} \cup {After(p, j + 1) : j \in 0..(i - 1)}
            PROVE  x \in {After(p, j) : j \in 0..i}
        BY <4>2
      <4> QED BY <4>3, <4>4
    <3> HIDE DEF W
    <3> QED BY <2>2, <3>2, <3>3, <3>4
  <2> QED BY <2>1, <2>2
<1>4. F = [i \in 0..N |-> IF i = 0 THEN {free_qnodes}
             ELSE F[i - 1] \cup {NextOf(n) : n \in F[i - 1]}]
  <2>1. W = [i \in 0..N |-> W[i]]
    OBVIOUS
  <2> HIDE DEF W
  <2>2. W = [i \in 0..N |-> IF i = 0 THEN {free_qnodes}
             ELSE W[i - 1] \cup {NextOf(n) : n \in W[i - 1]}]
    BY <1>3, <2>1
  <2>3. \E f : f = [i \in 0..N |-> IF i = 0 THEN {free_qnodes}
             ELSE f[i - 1] \cup {NextOf(n) : n \in f[i - 1]}]
    BY <2>2
  <2> QED BY <2>3
<1>5. Pool = F[N] \ {NULL}
  BY DEF Pool
<1> HIDE DEF F, W
<1>6. ASSUME NEW i \in 0..N PROVE F[i] = Step(F, i)
  BY <1>4
<1>7. F[N] = W[N]
  <2> DEFINE S == {i \in 0..N : F[i] = W[i]}
  <2>1. 0 \in S
    <3>1. 0 \in 0..N
      BY <1>1
    <3>2. F[0] = Step(F, 0) /\ W[0] = Step(W, 0)
      BY <1>3, <1>6, <3>1
    <3> QED BY <3>1, <3>2
  <2>2. ASSUME NEW i \in 0..(N - 1), i \in S PROVE i + 1 \in S
    <3>1. i + 1 \in 0..N /\ (i + 1) - 1 = i /\ i + 1 # 0
      BY <1>1
    <3>2. F[i + 1] = Step(F, i + 1) /\ W[i + 1] = Step(W, i + 1)
      BY <1>3, <1>6, <3>1
    <3>3. F[i] = W[i]
      BY <2>2
    <3>4. F[i + 1] = W[i + 1]
      BY <3>1, <3>2, <3>3
    <3> QED BY <3>1, <3>4
  <2> HIDE DEF S
  <2>3. 0..N \subseteq S
    BY <1>1, <2>1, <2>2, IntervalInduction
  <2>4. N \in 0..N
    BY <1>1
  <2> QED BY <2>3, <2>4 DEF S
<1>8. W[N] = {After(p, j) : j \in 0..N}
  <2>1. N \in 0..N
    BY <1>1
  <2> QED BY <2>1 DEF W
<1>9. {After(p, j) : j \in 0..N} \ {NULL} = {p[i] : i \in 1..Len(p)}
  <2>1. ASSUME NEW j \in 0..N, After(p, j) # NULL
        PROVE  \E i \in 1..Len(p) : After(p, j) = p[i]
    <3>1. j < Len(p)
      BY <2>1 DEF After
    <3>2. j + 1 \in 1..Len(p) /\ After(p, j) = p[j + 1]
      BY <1>1, <3>1 DEF After
    <3> QED BY <3>2
  <2>2. ASSUME NEW i \in 1..Len(p)
        PROVE  \E j \in 0..N : p[i] = After(p, j)
    <3>1. i - 1 \in 0..N /\ i - 1 < Len(p) /\ (i - 1) + 1 = i
      BY <1>1
    <3>2. After(p, i - 1) = p[i]
      BY <3>1 DEF After
    <3> QED BY <3>1, <3>2
  <2> QED BY <1>1, <2>1, <2>2
<1> QED BY <1>1, <1>5, <1>7, <1>8, <1>9 DEF ToSet

\* The pointer that each list begins with.
Starts == [l \in Lists |-> IF l = NULL THEN free_qnodes ELSE first[l]]
LastOf(s) == IF Len(s) = 0 THEN NULL ELSE s[Len(s)]

Stands(c, starts, nxt, sz, lst) ==
  /\ c \in [Lists -> Seq(Nodes)] /\ Apart(c) /\ Complete(c)
  /\ \A l \in Lists : Threaded(c[l], starts[l], nxt)
  /\ \A q \in Queues : sz[q] = Len(c[q]) /\ lst[q] = LastOf(c[q])
Represents(c) == Stands(c, Starts, next, size, last)

\* The queues on the free list are no caller's, and each of them is there once.
FreeList(c) ==
  /\ \A i \in 1..Len(c[0]) : data[c[0][i]] \in Queues \ (held \cup {0})
  /\ \A i, j \in 1..Len(c[0]) : data[c[0][i]] = data[c[0][j]] => i = j

Values == Items \cup Queues \cup {NULL}

QueueTypes ==
  /\ next \in [Nodes -> Link] /\ data \in [Nodes -> Values] /\ key \in [Nodes -> Keys]
  /\ free_qnodes \in Link /\ first \in [Queues -> Link] /\ last \in [Queues -> Link]
  /\ size \in [Queues -> Nat]
  /\ compare \in [Queues -> Orders] /\ compare[0] = "none"
  /\ held \in SUBSET (Queues \ {0})

QueueInv == QueueTypes /\ \E c : Represents(c) /\ FreeList(c)

LEMMA RepresentsFacts ==
  ASSUME QueueTypes, NEW c, Represents(c)
  PROVE  /\ \A l \in Lists : /\ c[l] \in Seq(Nodes) /\ Len(c[l]) \in Nat
                             /\ \A i \in 1..Len(c[l]) : c[l][i] \in Nodes /\ c[l][i] # NULL
         /\ \A q \in Queues : /\ Chain(q) = c[q] /\ first[q] = After(c[q], 0)
                              /\ IsEmpty(q) <=> Len(c[q]) = 0
         /\ free_qnodes = After(c[NULL], 0)
         /\ free_qnodes = NULL <=> Len(c[NULL]) = 0
         /\ Starts \in [Lists -> Link]
<1>1. ASSUME NEW l \in Lists
      PROVE  /\ c[l] \in Seq(Nodes) /\ Len(c[l]) \in Nat
             /\ \A i \in 1..Len(c[l]) : c[l][i] \in Nodes /\ c[l][i] # NULL
  <2>1. c[l] \in Seq(Nodes)
    BY DEF Represents, Stands
  <2> QED BY <2>1, LenProperties, ElementOfSeq, SizesOfQueue
<1>2. ASSUME NEW l \in Lists
      PROVE  Starts[l] = After(c[l], 0) /\ (Starts[l] = NULL <=> Len(c[l]) = 0)
  <2>1. Starts[l] = After(c[l], 0)
    BY DEF Represents, Stands, Threaded
  <2>2. CASE Len(c[l]) = 0
    BY <2>1, <2>2 DEF After
  <2>3. CASE Len(c[l]) # 0
    <3>1. 0 < Len(c[l]) /\ 0 + 1 \in 1..Len(c[l])
      BY <1>1, <2>3
    <3> QED BY <1>1, <2>1, <2>3, <3>1 DEF After
  <2> QED BY <2>1, <2>2, <2>3
<1>3. /\ Starts[NULL] = free_qnodes
      /\ \A q \in Queues : q \in Lists /\ Starts[q] = first[q]
  BY SizesOfQueue DEF Starts
<1>4. ASSUME NEW q \in Queues
      PROVE  Chain(q) = c[q] /\ first[q] = After(c[q], 0) /\ (IsEmpty(q) <=> Len(c[q]) = 0)
  <2>1. q \in Lists /\ Starts[q] = first[q]
    BY <1>3
  <2>2. /\ c[q] \in Seq(Nodes) /\ size[q] = Len(c[q])
        /\ Threaded(c[q], first[q], next)
    <3>1. /\ c \in [Lists -> Seq(Nodes)] /\ size[q] = Len(c[q])
          /\ Threaded(c[q], Starts[q], next)
      BY <2>1 DEF Represents, Stands
    <3> QED BY <2>1, <3>1
  <2>3. Chain(q) = c[q]
    BY <2>2, ChainIs
  <2> QED BY <1>2, <2>1, <2>3 DEF IsEmpty
<1>5. Starts \in [Lists -> Link]
  BY DEF Starts, Lists, QueueTypes
<1> QED BY <1>1, <1>2, <1>3, <1>4, <1>5, SizesOfQueue

\* The search of _queue_insert ends behind the elements that the new one is not
\* before, at the first that it is before.
StopsAt(s, k, i) ==
  /\ \A j \in 1..i : CompareTime(k, key[s[j]])
  /\ i < Len(s) => ~CompareTime(k, key[s[i + 1]])

LEMMA BehindFacts ==
  ASSUME NEW q, NEW k, NEW s \in Seq(Nodes), Chain(q) = s
  PROVE  Behind(q, k) \in 0..Len(s) /\ StopsAt(s, k, Behind(q, k))
<1>1. Len(s) \in Nat
  BY LenProperties
<1> DEFINE S == {i \in 0..Len(s) : i < Len(s) => ~CompareTime(k, key[s[i + 1]])}
<1>2. S # {} /\ S \subseteq Nat
  <2>1. Len(s) \in S
    BY <1>1
  <2> QED BY <1>1, <2>1
<1> HIDE DEF S
<1>3. PICK i \in S : \A j \in S : i <= j
  BY <1>2, LeastExists
<1>4. i \in 0..Len(s) /\ (i < Len(s) => ~CompareTime(k, key[s[i + 1]]))
  BY <1>3 DEF S
<1>5. ASSUME NEW j \in 1..i PROVE CompareTime(k, key[s[j]])
  <2>1. j - 1 \in 0..Len(s) /\ j - 1 < Len(s) /\ (j - 1) + 1 = j /\ ~(i <= j - 1)
    BY <1>1, <1>4
  <2>2. j - 1 \notin S
    BY <1>3, <2>1
  <2> QED BY <2>1, <2>2 DEF S
<1>6. \E n \in 0..Len(s) : StopsAt(s, k, n)
  BY <1>4, <1>5 DEF StopsAt
<1>7. Behind(q, k) = CHOOSE n \in 0..Len(s) : StopsAt(s, k, n)
  BY DEF Behind, StopsAt
<1> QED BY <1>6, <1>7

-----------------------------------------------------------------------------
(* What an insert and a removal do to the lists.                           *)

\* Where an element with key k goes in queue q.
GoesTo(c, q, k, i) ==
  /\ i \in 0..Len(c[q])
  /\ IF compare[q] = "none" THEN i = Len(c[q]) ELSE StopsAt(c[q], k, i)

LEMMA InsertMoves ==
  ASSUME QueueTypes, NEW c, Represents(c), NEW q \in Queues, NEW d \in Values, NEW k \in Keys,
         QueueInsert(q, d, k), free_qnodes # NULL
  PROVE  \E i : /\ GoesTo(c, q, k, i)
                /\ c[NULL] # <<>> /\ Stands(Moved(c, NULL, q, i), Starts', next', size', last')
                /\ data' = [data EXCEPT ![c[NULL][1]] = d]
                /\ key' = [key EXCEPT ![c[NULL][1]] = k]
                /\ next' \in [Nodes -> Link] /\ free_qnodes' \in Link
                /\ first' \in [Queues -> Link] /\ last' \in [Queues -> Link]
                /\ size' \in [Queues -> Nat] /\ UNCHANGED panicked
<1> DEFINE s == c[q]
           p == c[NULL]
           n == free_qnodes
           i == IF compare[q] = "none" THEN Len(s) ELSE Behind(q, k)
           prev == IF compare[q] = "none" THEN last[q] ELSE IF i = 0 THEN NULL ELSE s[i]
           curr == IF i = Len(s) THEN NULL ELSE s[i + 1]
           fresh == [next EXCEPT ![n] = curr]
           e == Moved(c, NULL, q, i)
<1>1. /\ q \in Lists /\ NULL \in Lists /\ q # NULL
      /\ s \in Seq(Nodes) /\ Len(s) \in Nat
      /\ \A j \in 1..Len(s) : s[j] \in Nodes /\ s[j] # NULL
      /\ p \in Seq(Nodes) /\ Len(p) \in Nat
      /\ \A j \in 1..Len(p) : p[j] \in Nodes /\ p[j] # NULL
      /\ Chain(q) = s /\ (IsEmpty(q) <=> Len(s) = 0) /\ Len(p) # 0
      /\ Starts \in [Lists -> Link]
  BY RepresentsFacts, SizesOfQueue
<1>2. n = p[1] /\ 1 \in 1..Len(p) /\ n \in Nodes /\ p # <<>>
  <2>1. 0 < Len(p) /\ 1 \in 1..Len(p)
    BY <1>1
  <2>2. n = After(p, 0)
    BY RepresentsFacts
  <2>3. p # <<>>
    BY <1>1, EmptySeq
  <2> QED BY <1>1, <2>1, <2>2, <2>3 DEF After
<1>3. i \in 0..Len(s) /\ GoesTo(c, q, k, i)
  <2>1. CASE compare[q] = "none"
    BY <1>1, <2>1 DEF GoesTo
  <2>2. CASE compare[q] # "none"
    BY <1>1, <2>2, BehindFacts DEF GoesTo
  <2> QED BY <2>1, <2>2
<1>4. /\ c \in [Lists -> Seq(Nodes)] /\ Apart(c) /\ Complete(c)
      /\ \A l \in Lists : Threaded(c[l], Starts[l], next)
      /\ \A r \in Queues : size[r] = Len(c[r]) /\ last[r] = LastOf(c[r])
  BY DEF Represents, Stands
<1>5. /\ next \in [Nodes -> Link] /\ first \in [Queues -> Link] /\ last \in [Queues -> Link]
      /\ size \in [Queues -> Nat]
  BY DEF QueueTypes
<1>6. /\ free_qnodes' = next[n]
      /\ data' = [data EXCEPT ![n] = d]
      /\ key' = [key EXCEPT ![n] = k]
      /\ UNCHANGED panicked
      /\ IF IsEmpty(q)
         THEN /\ next' = [next EXCEPT ![n] = NULL]
              /\ first' = [first EXCEPT ![q] = n]
              /\ last' = [last EXCEPT ![q] = n]
              /\ size' = [size EXCEPT ![q] = 1]
         ELSE /\ next' = IF prev = NULL THEN fresh ELSE [fresh EXCEPT ![prev] = n]
              /\ first' = IF prev = NULL THEN [first EXCEPT ![q] = n] ELSE first
              /\ last' = IF curr = NULL THEN [last EXCEPT ![q] = n] ELSE last
              /\ size' = [size EXCEPT ![q] = size[q] + 1]
  BY <1>1 DEF QueueInsert
<1>7. ~IsEmpty(q) => prev = IF i = 0 THEN NULL ELSE s[i]
  <2>1. CASE compare[q] = "none"
    BY <1>1, <1>4, <2>1 DEF LastOf
  <2>2. CASE compare[q] # "none"
    BY <2>2
  <2> QED BY <2>1, <2>2
<1>8. curr = After(s, i) /\ curr \in Link /\ (IsEmpty(q) => i = 0 /\ curr = NULL)
      /\ (curr = NULL <=> i = Len(s))
  <2>1. CASE i = Len(s)
    BY <1>1, <2>1 DEF After, Link
  <2>2. CASE i # Len(s)
    <3>1. i < Len(s) /\ i + 1 \in 1..Len(s)
      BY <1>1, <1>3, <2>2
    <3> QED BY <1>1, <2>2, <3>1 DEF After, Link
  <2> QED BY <2>1, <2>2
<1> HIDE DEF prev, curr, i, s, p, n, e
<1>9. i > 0 => i \in 1..Len(s) /\ s[i] \in Nodes /\ s[i] # NULL /\ s[i] # n
  <2>1. i > 0 => i \in 1..Len(s)
    BY <1>1, <1>3
  <2>2. ASSUME i > 0 PROVE s[i] # n
    BY <1>1, <1>2, <1>4, <2>1, <2>2 DEF Apart, s, p
  <2> QED BY <1>1, <2>1, <2>2
<1>10. /\ next' \in [Nodes -> Link]
       /\ \A x \in Nodes :
            next'[x] = IF x = n THEN After(s, i) ELSE IF i > 0 /\ x = s[i] THEN n ELSE next[x]
  <2>0. n \in Link /\ NULL \in Link
    BY <1>2 DEF Link
  <2>1. CASE IsEmpty(q)
    <3>1. next' = [next EXCEPT ![n] = NULL] /\ i = 0 /\ After(s, i) = NULL
      BY <1>6, <1>8, <2>1
    <3> QED BY <1>2, <1>5, <2>0, <3>1
  <2>2. CASE ~IsEmpty(q) /\ i = 0
    <3>1. next' = fresh
      BY <1>6, <1>7, <2>2
    <3> QED BY <1>2, <1>5, <1>8, <2>2, <3>1
  <2>3. CASE ~IsEmpty(q) /\ i # 0
    <3>1. i > 0
      BY <1>1, <1>3, <2>3
    <3>2. next' = [fresh EXCEPT ![s[i]] = n]
      BY <1>6, <1>7, <1>9, <2>3, <3>1
    <3> QED BY <1>2, <1>5, <1>8, <1>9, <2>0, <3>1, <3>2
  <2> QED BY <2>1, <2>2, <2>3
<1>11. /\ first' = IF i = 0 THEN [first EXCEPT ![q] = n] ELSE first
       /\ last' = IF i = Len(s) THEN [last EXCEPT ![q] = n] ELSE last
       /\ size' = [size EXCEPT ![q] = Len(s) + 1]
  <2>1. CASE IsEmpty(q)
    BY <1>1, <1>6, <1>8, <2>1
  <2>2. CASE ~IsEmpty(q)
    <3>1. prev = NULL <=> i = 0
      BY <1>1, <1>3, <1>7, <1>9, <2>2
    <3>2. size[q] = Len(s)
      BY <1>4 DEF s
    <3> QED BY <1>6, <1>8, <2>2, <3>1, <3>2
  <2> QED BY <2>1, <2>2
<1>12. /\ first' \in [Queues -> Link] /\ last' \in [Queues -> Link]
       /\ size' \in [Queues -> Nat] /\ free_qnodes' \in Link
  <2>1. n \in Link
    BY <1>2 DEF Link
  <2> QED BY <1>1, <1>2, <1>5, <1>6, <1>11, <2>1
<1>13. Starts' = [Starts EXCEPT ![NULL] = next[n], ![q] = IF i = 0 THEN n ELSE Starts[q]]
  <2>1. Starts' = [l \in Lists |-> IF l = NULL THEN free_qnodes' ELSE first'[l]]
    BY DEF Starts
  <2>2. ASSUME NEW l \in Lists
        PROVE  (IF l = NULL THEN free_qnodes' ELSE first'[l])
                 = IF l = NULL THEN next[n]
                   ELSE IF l = q THEN (IF i = 0 THEN n ELSE Starts[q]) ELSE Starts[l]
    <3>1. l # NULL => l \in Queues /\ Starts[l] = first[l]
      BY DEF Starts, Lists
    <3>2. Starts[q] = first[q]
      BY <1>1 DEF Starts
    <3> QED BY <1>1, <1>5, <1>6, <1>11, <3>1, <3>2
  <2>3. Starts' = [l \in Lists |-> IF l = NULL THEN next[n]
                     ELSE IF l = q THEN (IF i = 0 THEN n ELSE Starts[q]) ELSE Starts[l]]
    BY <2>1, <2>2
  <2> QED BY <1>1, <2>3
<1>14. /\ e \in [Lists -> Seq(Nodes)] /\ Len(e[q]) = Len(s) + 1
       /\ \A j \in 1..(Len(s) + 1) :
            e[q][j] = IF j <= i THEN s[j] ELSE IF j = i + 1 THEN n ELSE s[j - 1]
       /\ \A l \in Lists \ {NULL, q} : e[l] = c[l]
  BY <1>1, <1>2, <1>3, <1>4, MovedFacts DEF e, s, p
<1>15. Apart(e) /\ Complete(e)
  BY <1>1, <1>2, <1>3, <1>4, MovedKeepsElements DEF e, s, p
<1>16. \A l \in Lists : Threaded(e[l], Starts'[l], next')
  <2>1. /\ c \in [Lists -> Seq(Nodes)] /\ NULL \in Lists /\ q \in Lists /\ NULL # q
        /\ c[NULL] # <<>> /\ i \in 0..Len(c[q]) /\ Apart(c)
        /\ Starts \in [Lists -> Link] /\ next \in [Nodes -> Link]
        /\ \A l \in Lists : Threaded(c[l], Starts[l], next)
    BY <1>1, <1>2, <1>3, <1>4, <1>5 DEF s, p
  <2>2. Starts' = [Starts EXCEPT ![NULL] = next[c[NULL][1]],
                                 ![q] = IF i = 0 THEN c[NULL][1] ELSE Starts[q]]
    BY <1>2, <1>13 DEF p
  <2>3. \A x \in Nodes :
          next'[x] = IF x = c[NULL][1] THEN After(c[q], i)
                     ELSE IF i > 0 /\ x = c[q][i] THEN c[NULL][1] ELSE next[x]
    BY <1>2, <1>10 DEF s, p
  <2> QED BY <2>1, <2>2, <2>3, MovedIsThreaded, ZenonT(60) DEF e
<1>17. ASSUME NEW r \in Queues
       PROVE  size'[r] = Len(e[r]) /\ last'[r] = LastOf(e[r])
  <2>1. CASE r = q
    <3>1. size'[r] = Len(e[r]) /\ Len(e[r]) # 0
      BY <1>1, <1>5, <1>11, <1>14, <2>1
    <3>2. last'[r] = LastOf(e[r])
      <4>1. LastOf(e[q]) = e[q][Len(s) + 1] /\ Len(s) + 1 \in 1..(Len(s) + 1)
        BY <1>1, <1>14, <2>1, <3>1 DEF LastOf
      <4>2. CASE i = Len(s)
        <5>1. e[q][Len(s) + 1] = n
          BY <1>1, <1>14, <4>1, <4>2
        <5> QED BY <1>5, <1>11, <2>1, <4>1, <4>2, <5>1
      <4>3. CASE i # Len(s)
        <5>1. ~(Len(s) + 1 <= i) /\ Len(s) + 1 # i + 1 /\ (Len(s) + 1) - 1 = Len(s) /\ Len(s) # 0
          BY <1>1, <1>3, <4>3
        <5>2. e[q][Len(s) + 1] = s[Len(s)]
          BY <1>14, <4>1, <5>1
        <5>3. last[q] = LastOf(s)
          BY <1>4 DEF s
        <5>4. last[q] = s[Len(s)]
          BY <5>1, <5>3 DEF LastOf
        <5> QED BY <1>11, <2>1, <4>1, <4>3, <5>2, <5>4
      <4> QED BY <4>2, <4>3
    <3> QED BY <3>1, <3>2
  <2>2. CASE r # q
    <3>1. r \in Lists /\ r # NULL
      BY SizesOfQueue
    <3>2. e[r] = c[r]
      BY <1>14, <2>2, <3>1
    <3> QED BY <1>4, <1>5, <1>11, <2>2, <3>2
  <2> QED BY <2>1, <2>2
<1>18. Stands(e, Starts', next', size', last')
  BY <1>14, <1>15, <1>16, <1>17 DEF Stands
<1>19. /\ data' = [data EXCEPT ![c[NULL][1]] = d] /\ key' = [key EXCEPT ![c[NULL][1]] = k]
       /\ c[NULL] # <<>>
  BY <1>2, <1>6 DEF p
<1> QED BY <1>3, <1>6, <1>10, <1>12, <1>18, <1>19 DEF e

LEMMA RemoveMoves ==
  ASSUME QueueTypes, NEW c, Represents(c), NEW q \in Queues, QueueRemove(q), ~IsEmpty(q)
  PROVE  /\ c[q] # <<>> /\ c[q][1] = first[q] /\ first[q] \in Nodes
         /\ Stands(Moved(c, q, NULL, 0), Starts', next', size', last')
         /\ returned' = data[c[q][1]] /\ UNCHANGED <<data, key>>
         /\ next' \in [Nodes -> Link] /\ free_qnodes' \in Link
         /\ first' \in [Queues -> Link] /\ last' \in [Queues -> Link]
         /\ size' \in [Queues -> Nat]
<1> DEFINE s == c[q]
           p == c[NULL]
           n == first[q]
           e == Moved(c, q, NULL, 0)
<1>1. /\ q \in Lists /\ NULL \in Lists /\ q # NULL
      /\ s \in Seq(Nodes) /\ Len(s) \in Nat
      /\ \A j \in 1..Len(s) : s[j] \in Nodes /\ s[j] # NULL
      /\ p \in Seq(Nodes) /\ Len(p) \in Nat /\ Len(s) # 0
      /\ free_qnodes = After(p, 0) /\ Starts \in [Lists -> Link]
  BY RepresentsFacts, SizesOfQueue
<1>2. n = s[1] /\ 1 \in 1..Len(s) /\ n \in Nodes /\ n \in Link /\ s # <<>>
  <2>1. 0 < Len(s) /\ 1 \in 1..Len(s)
    BY <1>1
  <2>2. n = After(s, 0)
    BY RepresentsFacts
  <2>3. s # <<>>
    BY <1>1, EmptySeq
  <2> QED BY <1>1, <2>1, <2>2, <2>3 DEF After, Link
<1>3. /\ c \in [Lists -> Seq(Nodes)] /\ Apart(c) /\ Complete(c)
      /\ \A l \in Lists : Threaded(c[l], Starts[l], next)
      /\ \A r \in Queues : size[r] = Len(c[r]) /\ last[r] = LastOf(c[r])
  BY DEF Represents, Stands
<1>4. /\ next \in [Nodes -> Link] /\ first \in [Queues -> Link] /\ last \in [Queues -> Link]
      /\ size \in [Queues -> Nat] /\ free_qnodes \in Link /\ NULL \in Link
  BY DEF QueueTypes, Link
<1>5. next[n] = After(s, 1) /\ next[n] \in Link /\ (next[n] = NULL <=> Len(s) = 1)
  <2>1. next[n] = After(s, 1)
    BY <1>1, <1>2, <1>3 DEF Threaded
  <2>2. CASE Len(s) = 1
    BY <1>2, <1>4, <2>1, <2>2 DEF After
  <2>3. CASE Len(s) # 1
    <3>0. \A m \in Nat : m # 0 /\ m # 1 => 1 < m /\ 1 + 1 \in 1..m
      OBVIOUS
    <3>1. 1 < Len(s) /\ 1 + 1 \in 1..Len(s)
      BY <1>1, <2>3, <3>0
    <3>2. s[1 + 1] # NULL
      BY <1>1, <3>1
    <3>3. After(s, 1) = s[1 + 1]
      BY <3>1 DEF After
    <3> QED BY <1>2, <1>4, <2>1, <2>3, <3>2, <3>3
  <2> QED BY <2>2, <2>3
<1>6. /\ first' = [first EXCEPT ![q] = next[n]]
      /\ last' = IF next[n] = NULL THEN [last EXCEPT ![q] = NULL] ELSE last
      /\ size' = [size EXCEPT ![q] = Len(s) - 1]
      /\ returned' = data[n] /\ next' = [next EXCEPT ![n] = free_qnodes]
      /\ free_qnodes' = n /\ UNCHANGED <<data, key>>
  BY <1>3, <1>4 DEF QueueRemove, LastAfterRemove, LinkIntoPool
<1> HIDE DEF s, p, n, e
<1>7. /\ next' \in [Nodes -> Link] /\ free_qnodes' \in Link
      /\ first' \in [Queues -> Link] /\ last' \in [Queues -> Link]
      /\ size' \in [Queues -> Nat]
  <2>1. Len(s) - 1 \in Nat
    BY <1>1
  <2> QED BY <1>2, <1>4, <1>5, <1>6, <2>1
<1>8. \A x \in Nodes : next'[x] = IF x = n THEN After(p, 0) ELSE next[x]
  BY <1>1, <1>2, <1>4, <1>6
<1>9. Starts' = [Starts EXCEPT ![q] = next[n], ![NULL] = n]
  <2>1. Starts' = [l \in Lists |-> IF l = NULL THEN free_qnodes' ELSE first'[l]]
    BY DEF Starts
  <2>2. ASSUME NEW l \in Lists
        PROVE  (IF l = NULL THEN free_qnodes' ELSE first'[l])
                 = IF l = NULL THEN n ELSE IF l = q THEN next[n] ELSE Starts[l]
    <3>1. l # NULL => l \in Queues /\ Starts[l] = first[l]
      BY DEF Starts, Lists
    <3> QED BY <1>1, <1>4, <1>6, <3>1
  <2>3. Starts' = [l \in Lists |-> IF l = NULL THEN n ELSE IF l = q THEN next[n] ELSE Starts[l]]
    BY <2>1, <2>2
  <2> QED BY <1>1, <2>3
<1>10. 0 \in 0..Len(c[NULL]) /\ q # NULL /\ c[q] # <<>>
  BY <1>1, <1>2 DEF p, s
<1>11. /\ e \in [Lists -> Seq(Nodes)] /\ Len(e[q]) = Len(s) - 1
       /\ \A j \in 1..(Len(s) - 1) : e[q][j] = s[j + 1]
       /\ \A l \in Lists \ {q, NULL} : e[l] = c[l]
  BY <1>1, <1>3, <1>10, MovedFacts DEF e, s
<1>12. Apart(e) /\ Complete(e)
  BY <1>1, <1>3, <1>10, MovedKeepsElements DEF e
<1>13. \A l \in Lists : Threaded(e[l], Starts'[l], next')
  <2>1. /\ c \in [Lists -> Seq(Nodes)] /\ NULL \in Lists /\ q \in Lists
        /\ Starts \in [Lists -> Link] /\ next \in [Nodes -> Link]
        /\ \A l \in Lists : Threaded(c[l], Starts[l], next)
    BY <1>1, <1>3, <1>4
  <2>2. Starts' = [Starts EXCEPT ![q] = next[c[q][1]],
                                 ![NULL] = IF 0 = 0 THEN c[q][1] ELSE Starts[NULL]]
    BY <1>2, <1>9 DEF s
  <2>3. \A x \in Nodes :
          next'[x] = IF x = c[q][1] THEN After(c[NULL], 0)
                     ELSE IF 0 > 0 /\ x = c[NULL][0] THEN c[q][1] ELSE next[x]
    BY <1>2, <1>8 DEF s, p
  <2> QED BY <1>3, <1>10, <2>1, <2>2, <2>3, MovedIsThreaded, ZenonT(60) DEF e
<1>14. ASSUME NEW r \in Queues
       PROVE  size'[r] = Len(e[r]) /\ last'[r] = LastOf(e[r])
  <2>1. CASE r = q
    <3>1. size'[r] = Len(e[r]) /\ Len(e[r]) = Len(s) - 1
      BY <1>4, <1>6, <1>11, <2>1
    <3>2. CASE Len(s) = 1
      <4>1. Len(e[r]) = 0
        BY <3>1, <3>2
      <4>2. LastOf(e[r]) = NULL
        BY <4>1 DEF LastOf
      <4> QED BY <1>4, <1>5, <1>6, <2>1, <3>1, <3>2, <4>2
    <3>3. CASE Len(s) # 1
      <4>0. \A m \in Nat : m # 0 /\ m # 1 =>
              m - 1 # 0 /\ m - 1 \in 1..(m - 1) /\ (m - 1) + 1 = m
        OBVIOUS
      <4>1. Len(e[r]) # 0 /\ Len(s) - 1 \in 1..(Len(s) - 1) /\ (Len(s) - 1) + 1 = Len(s)
        BY <1>1, <3>1, <3>3, <4>0
      <4>2. LastOf(e[r]) = e[q][Len(s) - 1]
        BY <2>1, <3>1, <4>1 DEF LastOf
      <4>3. e[q][Len(s) - 1] = s[Len(s)]
        <5>1. e[q][Len(s) - 1] = s[(Len(s) - 1) + 1]
          BY <1>11, <4>1
        <5> QED BY <4>1, <5>1
      <4>4. last[q] = s[Len(s)]
        <5>1. last[q] = LastOf(s)
          BY <1>3 DEF s
        <5> QED BY <1>1, <5>1 DEF LastOf
      <4> QED BY <1>5, <1>6, <2>1, <3>1, <3>3, <4>2, <4>3, <4>4
    <3> QED BY <3>2, <3>3
  <2>2. CASE r # q
    <3>1. r \in Lists /\ r # NULL
      BY SizesOfQueue
    <3>2. e[r] = c[r]
      BY <1>11, <2>2, <3>1
    <3> QED BY <1>3, <1>4, <1>6, <2>2, <3>2
  <2> QED BY <2>1, <2>2
<1>15. Stands(e, Starts', next', size', last')
  BY <1>11, <1>12, <1>13, <1>14 DEF Stands
<1>16. c[q][1] = first[q] /\ returned' = data[c[q][1]] /\ first[q] \in Nodes
  BY <1>2, <1>6 DEF s, n
<1> QED BY <1>6, <1>7, <1>10, <1>15, <1>16 DEF e

-----------------------------------------------------------------------------
(* The invariant.                                                          *)

\* The free list when neither the list nor the data of its nodes changes.
LEMMA FreeListStays ==
  ASSUME NEW c, NEW e, FreeList(c), e[0] = c[0], held' \subseteq held,
         \A i \in 1..Len(c[0]) : data'[c[0][i]] = data[c[0][i]]
  PROVE  FreeList(e)'
BY DEF FreeList

LEMMA InsertKeeps ==
  ASSUME QueueInv, NEW q \in held, NEW d \in Items, NEW k \in Keys, InsertInto(q, d, k)
  PROVE  QueueInv'
<1>1. PICK c : Represents(c) /\ FreeList(c)
  BY DEF QueueInv
<1>2. QueueTypes /\ q \in Queues /\ q # 0 /\ d \in Values
  BY DEF QueueInv, QueueTypes, Values
<1>3. QueueInsert(q, d, k) /\ UNCHANGED <<compare, held, returned>>
  BY DEF InsertInto
<1>4. CASE free_qnodes = NULL
  <2>1. UNCHANGED <<next, data, key, free_qnodes, first, last, size, compare, held>>
    BY <1>3, <1>4 DEF QueueInsert, nodes
  <2>2. QueueTypes'
    BY <1>2, <2>1 DEF QueueTypes
  <2>3. Starts' = Starts
    BY <2>1 DEF Starts
  <2>4. Represents(c)' /\ FreeList(c)'
    BY <1>1, <2>1, <2>3 DEF Represents, FreeList
  <2> QED BY <2>2, <2>4 DEF QueueInv
<1>5. CASE free_qnodes # NULL
  <2>1. PICK i : /\ GoesTo(c, q, k, i)
                 /\ c[NULL] # <<>> /\ Stands(Moved(c, NULL, q, i), Starts', next', size', last')
                 /\ data' = [data EXCEPT ![c[NULL][1]] = d]
                 /\ key' = [key EXCEPT ![c[NULL][1]] = k]
                 /\ next' \in [Nodes -> Link] /\ free_qnodes' \in Link
                 /\ first' \in [Queues -> Link] /\ last' \in [Queues -> Link]
                 /\ size' \in [Queues -> Nat]
    BY <1>1, <1>2, <1>3, <1>5, InsertMoves
  <2> DEFINE e == Moved(c, NULL, q, i)
  <2>2. QueueTypes'
    BY <1>2, <1>3, <2>1 DEF QueueTypes
  <2>3. e[0] = c[0] /\ c \in [Lists -> Seq(Nodes)]
    BY <1>1, <1>2, SizesOfQueue DEF Moved, Represents, Stands
  <2>4. ASSUME NEW j \in 1..Len(c[0]) PROVE data'[c[0][j]] = data[c[0][j]]
    <3>1. Apart(c) /\ 1 \in 1..Len(c[NULL]) /\ 0 # NULL /\ 0 \in Lists /\ NULL \in Lists
      BY <1>1, <2>1, SizesOfQueue, RepresentsFacts, <1>2, EmptySeq DEF Represents, Stands
    <3>2. c[0][j] # c[NULL][1]
      BY <3>1 DEF Apart
    <3>3. c[0][j] \in Nodes
      BY <1>1, <1>2, <3>1, RepresentsFacts
    <3> QED BY <1>2, <2>1, <3>2, <3>3 DEF QueueTypes
  <2>5. FreeList(e)'
    BY <1>1, <1>3, <2>3, <2>4, FreeListStays
  <2>6. Represents(e)'
    BY <2>1 DEF Represents
  <2> QED BY <2>2, <2>5, <2>6 DEF QueueInv
<1> QED BY <1>4, <1>5

LEMMA RemoveKeeps ==
  ASSUME QueueInv, NEW q \in held, RemoveFrom(q)
  PROVE  QueueInv'
<1>1. PICK c : Represents(c) /\ FreeList(c)
  BY DEF QueueInv
<1>2. QueueTypes /\ q \in Queues /\ q # 0
  BY DEF QueueInv, QueueTypes
<1>3. UNCHANGED <<compare, held, panicked>>
  BY DEF RemoveFrom
<1>4. CASE IsEmpty(q)
  <2>1. UNCHANGED <<next, data, key, free_qnodes, first, last, size, compare, held>>
    BY <1>3, <1>4 DEF RemoveFrom, nodes
  <2>2. QueueTypes'
    BY <1>2, <2>1 DEF QueueTypes
  <2>3. Starts' = Starts
    BY <2>1 DEF Starts
  <2>4. Represents(c)' /\ FreeList(c)'
    BY <1>1, <2>1, <2>3 DEF Represents, FreeList
  <2> QED BY <2>2, <2>4 DEF QueueInv
<1>5. CASE ~IsEmpty(q)
  <2> DEFINE e == Moved(c, q, NULL, 0)
  <2>1. QueueRemove(q)
    BY <1>5 DEF RemoveFrom
  <2>2. /\ c[q] # <<>> /\ Stands(e, Starts', next', size', last')
        /\ UNCHANGED <<data, key>>
        /\ next' \in [Nodes -> Link] /\ free_qnodes' \in Link
        /\ first' \in [Queues -> Link] /\ last' \in [Queues -> Link]
        /\ size' \in [Queues -> Nat]
    BY <1>1, <1>2, <1>5, <2>1, RemoveMoves
  <2>3. QueueTypes'
    BY <1>2, <1>3, <2>2 DEF QueueTypes
  <2>4. e[0] = c[0]
    BY <1>1, <1>2, SizesOfQueue DEF Moved, Represents, Stands
  <2>5. FreeList(e)'
    BY <1>1, <1>3, <2>2, <2>4, FreeListStays
  <2>6. Represents(e)'
    BY <2>2 DEF Represents
  <2> QED BY <2>3, <2>5, <2>6 DEF QueueInv
<1> QED BY <1>4, <1>5

\* The first queue of the free list is nobody's before it is the caller's.
LEMMA AllocKeeps ==
  ASSUME QueueInv, NEW order \in Orders, Alloc(order)
  PROVE  QueueInv'
<1>1. PICK c : Represents(c) /\ FreeList(c)
  BY DEF QueueInv
<1>2. QueueTypes /\ 0 \in Queues /\ 0 # NULL
  BY SizesOfQueue DEF QueueInv, NULL
<1>3. ~IsEmpty(0) /\ QueueRemove(0)
  BY DEF Alloc
<1> DEFINE e == Moved(c, 0, NULL, 0)
           a == data[c[0][1]]
<1>4. /\ c[0] # <<>> /\ c[0][1] = first[0] /\ Stands(e, Starts', next', size', last')
      /\ UNCHANGED <<data, key>>
      /\ next' \in [Nodes -> Link] /\ free_qnodes' \in Link
      /\ first' \in [Queues -> Link] /\ last' \in [Queues -> Link]
      /\ size' \in [Queues -> Nat]
  BY <1>1, <1>2, <1>3, RemoveMoves
<1>5. /\ Len(c[0]) \in Nat /\ 1 \in 1..Len(c[0]) /\ c \in [Lists -> Seq(Nodes)]
      /\ 0 \in Lists /\ NULL \in Lists /\ 0 \in 0..Len(c[NULL])
  <2>1. /\ Len(c[0]) \in Nat /\ c \in [Lists -> Seq(Nodes)] /\ Len(c[NULL]) \in Nat
        /\ 0 \in Lists /\ NULL \in Lists
    BY <1>1, <1>2, SizesOfQueue, RepresentsFacts DEF Represents, Stands
  <2>2. c[0] \in Seq(Nodes)
    BY <2>1
  <2> QED BY <1>4, <2>1, <2>2, EmptySeq
<1>6. /\ held' = held \cup {a} /\ compare' = [compare EXCEPT ![a] = order]
      /\ a \in Queues /\ a # 0 /\ a \notin held
  BY <1>1, <1>4, <1>5 DEF Alloc, FreeList
<1>7. /\ Len(e[0]) = Len(c[0]) - 1
      /\ \A j \in 1..(Len(c[0]) - 1) : e[0][j] = c[0][j + 1]
  <2> HIDE DEF a
  <2>1. IsMoved(e, c, 0, NULL, 0)
    BY <1>2, <1>4, <1>5, MovedIsMoved
  <2> QED BY <2>1 DEF IsMoved
<1> HIDE DEF e, a
<1>8. QueueTypes'
  BY <1>2, <1>4, <1>6 DEF QueueTypes
<1>9. FreeList(e)'
  <2>1. ASSUME NEW i \in 1..Len(e[0])
        PROVE  /\ i + 1 \in 1..Len(c[0]) /\ i + 1 # 1 /\ e[0][i] = c[0][i + 1]
               /\ data'[e[0][i]] = data[c[0][i + 1]]
    <3>1. i + 1 \in 1..Len(c[0]) /\ i + 1 # 1 /\ i \in 1..(Len(c[0]) - 1)
      BY <1>5, <1>7
    <3> QED BY <1>4, <1>7, <3>1
  <2>2. ASSUME NEW i \in 1..Len(e[0])
        PROVE  data'[e[0][i]] \in Queues \ (held' \cup {0})
    <3>1. i + 1 \in 1..Len(c[0]) /\ i + 1 # 1 /\ data'[e[0][i]] = data[c[0][i + 1]]
      BY <2>1
    <3>2. data[c[0][i + 1]] \in Queues \ (held \cup {0}) /\ data[c[0][i + 1]] # a
      BY <1>1, <1>5, <3>1 DEF FreeList, a
    <3> QED BY <1>6, <3>1, <3>2
  <2>3. ASSUME NEW i \in 1..Len(e[0]), NEW j \in 1..Len(e[0]), data'[e[0][i]] = data'[e[0][j]]
        PROVE  i = j
    <3>1. i + 1 = j + 1
      <4>1. i + 1 \in 1..Len(c[0]) /\ j + 1 \in 1..Len(c[0])
        BY <2>1
      <4>2. data[c[0][i + 1]] = data[c[0][j + 1]]
        BY <2>1, <2>3
      <4> QED BY <1>1, <4>1, <4>2 DEF FreeList
    <3> QED BY <3>1
  <2> QED BY <2>2, <2>3 DEF FreeList
<1>10. Represents(e)'
  BY <1>4 DEF Represents, e
<1> QED BY <1>8, <1>9, <1>10 DEF QueueInv

\* A queue that is given back goes behind the others, which are not it.
LEMMA DeallocKeeps ==
  ASSUME QueueInv, NEW q \in held, Dealloc(q)
  PROVE  QueueInv'
<1>1. PICK c : Represents(c) /\ FreeList(c)
  BY DEF QueueInv
<1>2. /\ QueueTypes /\ 0 \in Queues /\ 0 # NULL /\ 0 \in Keys
      /\ q \in Queues /\ q # 0 /\ q \in Values
  BY SizesOfQueue, QueueAssumption DEF QueueInv, QueueTypes, NULL, Values
<1>3. /\ QueueInsert(0, q, 0) /\ held' = held \ {q}
      /\ compare' = [compare EXCEPT ![q] = "none"]
  BY DEF Dealloc
<1>4. compare' \in [Queues -> Orders] /\ compare'[0] = "none" /\ held' \in SUBSET (Queues \ {0})
  BY <1>2, <1>3 DEF QueueTypes, Orders
<1>5. CASE free_qnodes = NULL
  <2>1. UNCHANGED <<next, data, key, free_qnodes, first, last, size>>
    BY <1>3, <1>5 DEF QueueInsert, nodes
  <2>2. QueueTypes'
    BY <1>2, <1>4, <2>1 DEF QueueTypes
  <2>3. Starts' = Starts
    BY <2>1 DEF Starts
  <2>4. Represents(c)' /\ FreeList(c)'
    BY <1>1, <1>3, <2>1, <2>3 DEF Represents, FreeList
  <2> QED BY <2>2, <2>4 DEF QueueInv
<1>6. CASE free_qnodes # NULL
  <2>1. PICK i : /\ GoesTo(c, 0, 0, i)
                 /\ c[NULL] # <<>> /\ Stands(Moved(c, NULL, 0, i), Starts', next', size', last')
                 /\ data' = [data EXCEPT ![c[NULL][1]] = q]
                 /\ key' = [key EXCEPT ![c[NULL][1]] = 0]
                 /\ next' \in [Nodes -> Link] /\ free_qnodes' \in Link
                 /\ first' \in [Queues -> Link] /\ last' \in [Queues -> Link]
                 /\ size' \in [Queues -> Nat]
    BY <1>1, <1>2, <1>3, <1>6, InsertMoves
  <2> DEFINE e == Moved(c, NULL, 0, i)
             n == c[NULL][1]
  <2>2. QueueTypes'
    BY <1>2, <1>4, <2>1 DEF QueueTypes
  <2>3. /\ c \in [Lists -> Seq(Nodes)] /\ Apart(c) /\ Len(c[0]) \in Nat /\ i = Len(c[0])
        /\ 0 \in Lists /\ NULL \in Lists /\ i \in 0..Len(c[0])
        /\ 1 \in 1..Len(c[NULL]) /\ n \in Nodes
        /\ \A j \in 1..Len(c[0]) : c[0][j] \in Nodes
    <3>1. c \in [Lists -> Seq(Nodes)] /\ Apart(c) /\ 0 \in Lists /\ NULL \in Lists
      BY <1>1, SizesOfQueue DEF Represents, Stands
    <3>2. /\ Len(c[0]) \in Nat /\ Len(c[NULL]) \in Nat /\ c[NULL] \in Seq(Nodes)
          /\ \A j \in 1..Len(c[NULL]) : c[NULL][j] \in Nodes
          /\ \A j \in 1..Len(c[0]) : c[0][j] \in Nodes
      BY <1>1, <1>2, <3>1, RepresentsFacts
    <3>3. 1 \in 1..Len(c[NULL])
      BY <2>1, <3>2, EmptySeq
    <3>4. i = Len(c[0]) /\ i \in 0..Len(c[0])
      BY <1>2, <2>1 DEF GoesTo, QueueTypes
    <3> QED BY <3>1, <3>2, <3>3, <3>4
  <2>4. /\ Len(e[0]) = Len(c[0]) + 1
        /\ \A j \in 1..(Len(c[0]) + 1) :
             e[0][j] = IF j <= i THEN c[0][j] ELSE IF j = i + 1 THEN n ELSE c[0][j - 1]
    <3>1. IsMoved(e, c, NULL, 0, i)
      BY <1>2, <2>1, <2>3, MovedIsMoved
    <3> QED BY <3>1 DEF IsMoved
  <2> HIDE DEF e, n
  <2>5. ASSUME NEW j \in 1..Len(e[0])
        PROVE  \/ /\ j \in 1..Len(c[0]) /\ data'[e[0][j]] = data[c[0][j]]
                  /\ data'[e[0][j]] # q
               \/ j = Len(c[0]) + 1 /\ data'[e[0][j]] = q
    <3>1. CASE j <= i
      <4>1. j \in 1..Len(c[0]) /\ e[0][j] = c[0][j]
        BY <2>3, <2>4, <3>1
      <4>2. c[0][j] # n /\ c[0][j] \in Nodes
        BY <1>2, <2>3, <4>1 DEF Apart, n
      <4>3. data'[e[0][j]] = data[c[0][j]]
        BY <1>2, <2>1, <4>1, <4>2 DEF QueueTypes, n
      <4>4. data[c[0][j]] # q
        BY <1>1, <4>1 DEF FreeList
      <4> QED BY <4>1, <4>3, <4>4
    <3>2. CASE ~(j <= i)
      <4>1. j = Len(c[0]) + 1 /\ j = i + 1
        BY <2>3, <2>4, <3>2
      <4>2. e[0][j] = n
        BY <2>3, <2>4, <3>2, <4>1
      <4>3. data'[n] = q
        BY <1>2, <2>1, <2>3 DEF QueueTypes, n
      <4> QED BY <4>1, <4>2, <4>3
    <3> QED BY <3>1, <3>2
  <2>6. FreeList(e)'
    <3>1. ASSUME NEW j \in 1..Len(e[0])
          PROVE  data'[e[0][j]] \in Queues \ (held' \cup {0})
      BY <1>1, <1>2, <1>3, <2>5 DEF FreeList
    <3>2. ASSUME NEW j \in 1..Len(e[0]), NEW k \in 1..Len(e[0]), data'[e[0][j]] = data'[e[0][k]]
          PROVE  j = k
      <4>1. CASE data'[e[0][j]] = q
        BY <2>5, <3>2, <4>1
      <4>2. CASE data'[e[0][j]] # q
        <5>1. /\ j \in 1..Len(c[0]) /\ k \in 1..Len(c[0])
              /\ data[c[0][j]] = data[c[0][k]]
          BY <2>5, <3>2, <4>2
        <5> QED BY <1>1, <5>1 DEF FreeList
      <4> QED BY <4>1, <4>2
    <3> QED BY <3>1, <3>2 DEF FreeList
  <2>7. Represents(e)'
    BY <2>1 DEF Represents, e
  <2> QED BY <2>2, <2>6, <2>7 DEF QueueInv
<1> QED BY <1>5, <1>6

\* At first the pool and the free list share the nodes.
FirstNodes ==
  [l \in Lists |->
     IF l = NULL THEN [i \in 1..(N_QNODES - N_QUEUES + 1) |-> N_QNODES - N_QUEUES + 1 - i]
     ELSE IF l = 0 THEN [i \in 1..(N_QUEUES - 1) |-> N_QNODES - i]
     ELSE <<>>]

LEMMA InitRepresents ==
  ASSUME Init
  PROVE  QueueTypes /\ Represents(FirstNodes) /\ FreeList(FirstNodes)
<1> DEFINE c == FirstNodes
           p == [i \in 1..(N_QNODES - N_QUEUES + 1) |-> N_QNODES - N_QUEUES + 1 - i]
           f == [i \in 1..(N_QUEUES - 1) |-> N_QNODES - i]
<1>1. /\ N_QUEUES \in Nat /\ N_QNODES \in Nat /\ N_QUEUES >= 2 /\ N_QNODES >= N_QUEUES
      /\ NULL \in Lists /\ 0 \in Lists /\ 0 # NULL /\ NULL \in Link /\ NULL \notin Nodes
      /\ \A l \in Lists \ {NULL} : l \in Queues
      /\ Queues \subseteq Lists /\ NULL \notin Queues
  BY SizesOfQueue DEF Lists, NULL, Link
<1>2. p \in [1..(N_QNODES - N_QUEUES + 1) -> Nodes] /\ f \in [1..(N_QUEUES - 1) -> Nodes]
  BY <1>1 DEF Nodes
<1>3. /\ p \in Seq(Nodes) /\ Len(p) = N_QNODES - N_QUEUES + 1
      /\ f \in Seq(Nodes) /\ Len(f) = N_QUEUES - 1
      /\ <<>> \in Seq(Nodes) /\ Len(<<>>) = 0
  BY <1>1, <1>2, FunctionIsSeq
<1>4. /\ \A i \in 1..(N_QNODES - N_QUEUES + 1) : p[i] = N_QNODES - N_QUEUES + 1 - i
      /\ \A i \in 1..(N_QUEUES - 1) : f[i] = N_QNODES - i
  OBVIOUS
<1> HIDE DEF p, f
<1>5. /\ c \in [Lists -> Seq(Nodes)] /\ c[NULL] = p /\ c[0] = f
      /\ \A l \in Lists \ {NULL, 0} : c[l] = <<>> /\ Len(c[l]) = 0
  BY <1>1, <1>3 DEF FirstNodes, p, f
<1> HIDE DEF c
<1>6. QueueTypes
  <2>1. next \in [Nodes -> Link] /\ key \in [Nodes -> Keys]
    BY <1>1, QueueAssumption DEF Init, Nodes, Link
  <2>2. data \in [Nodes -> Values]
    <3>1. \A n \in Nodes : n > N_QNODES - N_QUEUES => N_QNODES - n \in Queues
      BY <1>1 DEF Nodes, Queues
    <3> QED BY <3>1 DEF Init, Values
  <2>3. free_qnodes \in Link /\ first \in [Queues -> Link] /\ last \in [Queues -> Link]
    <3>1. {N_QNODES - N_QUEUES, N_QNODES - 1, N_QNODES - N_QUEUES + 1} \subseteq Nodes
      BY <1>1 DEF Nodes
    <3> QED BY <1>1, <3>1 DEF Init, Link
  <2>4. size \in [Queues -> Nat]
    BY <1>1 DEF Init
  <2>5. compare \in [Queues -> Orders] /\ compare[0] = "none" /\ held \in SUBSET (Queues \ {0})
    BY <1>1, SizesOfQueue DEF Init, Orders
  <2> QED BY <2>1, <2>2, <2>3, <2>4, <2>5 DEF QueueTypes
<1>7. Apart(c)
  <2> SUFFICES ASSUME NEW l \in Lists, NEW m \in Lists,
                      NEW i \in 1..Len(c[l]), NEW j \in 1..Len(c[m]), c[l][i] = c[m][j]
               PROVE  l = m /\ i = j
    BY DEF Apart
  <2>1. (l = NULL \/ l = 0) /\ (m = NULL \/ m = 0)
    BY <1>5
  <2>2. l = NULL => i \in 1..(N_QNODES - N_QUEUES + 1) /\ c[l][i] = N_QNODES - N_QUEUES + 1 - i
    BY <1>3, <1>4, <1>5
  <2>3. m = NULL => j \in 1..(N_QNODES - N_QUEUES + 1) /\ c[m][j] = N_QNODES - N_QUEUES + 1 - j
    BY <1>3, <1>4, <1>5
  <2>4. l = 0 => i \in 1..(N_QUEUES - 1) /\ c[l][i] = N_QNODES - i
    BY <1>3, <1>4, <1>5
  <2>5. m = 0 => j \in 1..(N_QUEUES - 1) /\ c[m][j] = N_QNODES - j
    BY <1>3, <1>4, <1>5
  <2> QED BY <1>1, <2>1, <2>2, <2>3, <2>4, <2>5
<1>8. Complete(c)
  <2> SUFFICES ASSUME NEW n \in Nodes
               PROVE  \E l \in Lists : \E i \in 1..Len(c[l]) : c[l][i] = n
    BY DEF Complete
  <2>1. n \in Int /\ 0 <= n /\ n < N_QNODES
    BY <1>1 DEF Nodes
  <2>2. CASE n > N_QNODES - N_QUEUES
    <3>1. N_QNODES - n \in 1..(N_QUEUES - 1) /\ N_QNODES - (N_QNODES - n) = n
      BY <1>1, <2>1, <2>2
    <3>2. N_QNODES - n \in 1..Len(c[0]) /\ c[0][N_QNODES - n] = n
      BY <1>3, <1>4, <1>5, <3>1
    <3> QED BY <1>1, <3>2
  <2>3. CASE ~(n > N_QNODES - N_QUEUES)
    <3> DEFINE i == N_QNODES - N_QUEUES + 1 - n
    <3>1. i \in 1..(N_QNODES - N_QUEUES + 1) /\ N_QNODES - N_QUEUES + 1 - i = n
      BY <1>1, <2>1, <2>3
    <3> HIDE DEF i
    <3>2. i \in 1..Len(c[NULL]) /\ c[NULL][i] = n
      BY <1>3, <1>4, <1>5, <3>1
    <3> QED BY <1>1, <3>2
  <2> QED BY <2>2, <2>3
<1>9. ASSUME NEW l \in Lists PROVE Threaded(c[l], Starts[l], next)
  <2>0. ASSUME NEW n \in Nodes
        PROVE  next[n] = IF n = 0 \/ n = N_QNODES - N_QUEUES + 1 THEN NULL ELSE n - 1
    BY DEF Init
  <2>1. CASE l = NULL
    <3>1. Starts[l] = N_QNODES - N_QUEUES
      BY <1>1, <2>1 DEF Starts, Init
    <3>2. 1 \in 1..(N_QNODES - N_QUEUES + 1) /\ 0 < N_QNODES - N_QUEUES + 1
      BY <1>1
    <3>3. After(p, 0) = N_QNODES - N_QUEUES
      BY <1>1, <1>3, <1>4, <3>2 DEF After
    <3>4. ASSUME NEW i \in 1..Len(p) PROVE next[p[i]] = After(p, i)
      <4>1. i \in 1..(N_QNODES - N_QUEUES + 1) /\ p[i] = N_QNODES - N_QUEUES + 1 - i
        BY <1>3, <1>4
      <4>2. p[i] \in Nodes /\ p[i] # N_QNODES - N_QUEUES + 1
        BY <1>1, <4>1 DEF Nodes
      <4>3. CASE i = N_QNODES - N_QUEUES + 1
        <5>1. p[i] = 0 /\ ~(i < Len(p))
          BY <1>1, <1>3, <4>1, <4>3
        <5> QED BY <2>0, <4>2, <5>1 DEF After
      <4>4. CASE i # N_QNODES - N_QUEUES + 1
        <5>1. p[i] # 0 /\ i < Len(p) /\ i + 1 \in 1..(N_QNODES - N_QUEUES + 1)
          BY <1>1, <1>3, <4>1, <4>4
        <5>2. p[i + 1] = N_QNODES - N_QUEUES + 1 - (i + 1)
          BY <1>4, <5>1
        <5>3. p[i + 1] = p[i] - 1
          BY <1>1, <4>1, <5>2
        <5> QED BY <2>0, <4>2, <5>1, <5>3 DEF After
      <4> QED BY <4>3, <4>4
    <3> QED BY <1>5, <2>1, <3>1, <3>3, <3>4 DEF Threaded
  <2>2. CASE l = 0
    <3>1. Starts[l] = N_QNODES - 1
      BY <1>1, <2>2, SizesOfQueue DEF Starts, Init
    <3>2. 1 \in 1..(N_QUEUES - 1) /\ 0 < N_QUEUES - 1
      BY <1>1
    <3>3. After(f, 0) = N_QNODES - 1
      BY <1>1, <1>3, <1>4, <3>2 DEF After
    <3>4. ASSUME NEW i \in 1..Len(f) PROVE next[f[i]] = After(f, i)
      <4>1. i \in 1..(N_QUEUES - 1) /\ f[i] = N_QNODES - i
        BY <1>3, <1>4
      <4>2. f[i] \in Nodes /\ f[i] # 0
        BY <1>1, <4>1 DEF Nodes
      <4>3. CASE i = N_QUEUES - 1
        <5>1. f[i] = N_QNODES - N_QUEUES + 1 /\ ~(i < Len(f))
          BY <1>1, <1>3, <4>1, <4>3
        <5> QED BY <2>0, <4>2, <5>1 DEF After
      <4>4. CASE i # N_QUEUES - 1
        <5>1. f[i] # N_QNODES - N_QUEUES + 1 /\ i < Len(f) /\ i + 1 \in 1..(N_QUEUES - 1)
          BY <1>1, <1>3, <4>1, <4>4
        <5>2. f[i + 1] = N_QNODES - (i + 1)
          BY <1>4, <5>1
        <5>3. f[i + 1] = f[i] - 1
          BY <1>1, <4>1, <5>2
        <5> QED BY <2>0, <4>2, <5>1, <5>3 DEF After
      <4> QED BY <4>3, <4>4
    <3> QED BY <1>5, <2>2, <3>1, <3>3, <3>4 DEF Threaded
  <2>3. CASE l # NULL /\ l # 0
    <3>1. Starts[l] = NULL /\ Len(c[l]) = 0
      BY <1>1, <1>5, <2>3 DEF Starts, Init
    <3> QED BY <3>1 DEF Threaded, After
  <2> QED BY <2>1, <2>2, <2>3
<1>10. ASSUME NEW q \in Queues PROVE size[q] = Len(c[q]) /\ last[q] = LastOf(c[q])
  <2>1. CASE q = 0
    <3>1. size[q] = N_QUEUES - 1 /\ last[q] = N_QNODES - N_QUEUES + 1
      BY <2>1, SizesOfQueue DEF Init
    <3>2. N_QUEUES - 1 \in 1..(N_QUEUES - 1) /\ N_QUEUES - 1 # 0
      BY <1>1
    <3>3. LastOf(f) = N_QNODES - (N_QUEUES - 1)
      BY <1>3, <1>4, <3>2 DEF LastOf
    <3>4. N_QNODES - (N_QUEUES - 1) = N_QNODES - N_QUEUES + 1
      BY <1>1
    <3> QED BY <1>3, <1>5, <2>1, <3>1, <3>3, <3>4
  <2>2. CASE q # 0
    <3>1. size[q] = 0 /\ last[q] = NULL /\ q \in Lists \ {NULL, 0}
      BY <1>1, <2>2 DEF Init
    <3> QED BY <1>5, <3>1 DEF LastOf
  <2> QED BY <2>1, <2>2
<1>11. FreeList(c)
  <2>1. ASSUME NEW i \in 1..Len(c[0])
        PROVE  data[c[0][i]] = i /\ i \in Queues \ {0}
    <3>1. i \in 1..(N_QUEUES - 1) /\ c[0][i] = N_QNODES - i
      BY <1>3, <1>4, <1>5
    <3>2. /\ c[0][i] \in Nodes /\ c[0][i] > N_QNODES - N_QUEUES /\ N_QNODES - c[0][i] = i
          /\ i \in Queues \ {0}
      BY <1>1, <3>1 DEF Nodes, Queues
    <3> QED BY <3>2 DEF Init
  <2>2. held = {}
    BY DEF Init
  <2> QED BY <2>1, <2>2 DEF FreeList
<1> QED BY <1>5, <1>6, <1>7, <1>8, <1>9, <1>10, <1>11 DEF c, Represents, Stands

LEMMA QueueStep ==
  ASSUME QueueInv, [Next]_vars
  PROVE  QueueInv'
<1>1. CASE \E q \in held, d \in Items, k \in Keys : InsertInto(q, d, k)
  BY <1>1, InsertKeeps
<1>2. CASE \E q \in held : RemoveFrom(q)
  BY <1>2, RemoveKeeps
<1>3. CASE \E q \in held : Dealloc(q)
  BY <1>3, DeallocKeeps
<1>4. CASE \E order \in Orders : Alloc(order)
  BY <1>4, AllocKeeps
<1>5. CASE UNCHANGED vars
  <2>1. PICK c : Represents(c) /\ FreeList(c)
    BY DEF QueueInv
  <2>2. UNCHANGED <<next, data, key, free_qnodes, first, last, size, compare, held>>
    BY <1>5 DEF vars, nodes, headers
  <2>3. Starts' = Starts
    BY <2>2 DEF Starts
  <2>4. Represents(c)' /\ FreeList(c)' /\ QueueTypes'
    BY <2>1, <2>2, <2>3 DEF Represents, FreeList, QueueInv, QueueTypes
  <2> QED BY <2>4 DEF QueueInv
<1> QED BY <1>1, <1>2, <1>3, <1>4, <1>5 DEF Next

LEMMA QueueAlways == Spec => []QueueInv
<1>1. Init => QueueInv
  BY InitRepresents DEF QueueInv
<1>2. QueueInv /\ [Next]_vars => QueueInv'
  BY QueueStep
<1> QED BY <1>1, <1>2, PTL DEF Spec

\* The sequences say what the run's invariants say of the links.
LEMMA InvConserves ==
  ASSUME QueueInv
  PROVE  NodesConserved
<1>1. PICK c : Represents(c)
  BY DEF QueueInv
<1>2. /\ QueueTypes /\ c \in [Lists -> Seq(Nodes)] /\ Apart(c) /\ Complete(c)
      /\ Threaded(c[NULL], Starts[NULL], next) /\ NULL \in Lists /\ Starts[NULL] = free_qnodes
      /\ Queues \subseteq Lists /\ NULL \notin Queues
  BY <1>1, SizesOfQueue DEF QueueInv, Represents, Stands, Starts
<1>3. /\ \A l \in Lists : /\ c[l] \in Seq(Nodes) /\ Len(c[l]) \in Nat
                          /\ \A i \in 1..Len(c[l]) : c[l][i] \in Nodes
      /\ \A q \in Queues : Chain(q) = c[q]
  BY <1>1, <1>2, RepresentsFacts
<1>4. ASSUME NEW l \in Lists
      PROVE  /\ ToSet(c[l]) = {c[l][i] : i \in 1..Len(c[l])}
             /\ ToSet(c[l]) \subseteq Nodes /\ IsInjective(c[l])
  <2>1. DOMAIN c[l] = 1..Len(c[l])
    BY <1>3
  <2>2. IsInjective(c[l])
    BY <1>2, <2>1 DEF IsInjective, Apart
  <2> QED BY <1>3, <2>1, <2>2 DEF ToSet
<1>5. Pool = ToSet(c[NULL])
  <2>1. \A i, j \in 1..Len(c[NULL]) : c[NULL][i] = c[NULL][j] => i = j
    BY <1>2 DEF Apart
  <2> DEFINE p == c[NULL]
  <2>2. p \in Seq(Nodes) /\ Threaded(p, free_qnodes, next)
    BY <1>2
  <2>3. Len(p) <= N_QNODES
    BY <2>1, <2>2, ApartIsShort
  <2> HIDE DEF p
  <2>4. Pool = ToSet(p)
    BY <2>2, <2>3, PoolIs
  <2> QED BY <2>4 DEF p
<1>6. ASSUME NEW n \in Nodes
      PROVE  Cardinality({q \in Queues : n \in ToSet(Chain(q))}) = IF n \in Pool THEN 0 ELSE 1
  <2>1. PICK l \in Lists : \E i \in 1..Len(c[l]) : c[l][i] = n
    BY <1>2 DEF Complete
  <2>2. n \in ToSet(c[l])
    BY <1>4, <2>1
  <2>3. ASSUME NEW m \in Lists, n \in ToSet(c[m]) PROVE m = l
    <3>1. PICK i \in 1..Len(c[m]) : c[m][i] = n
      BY <1>4, <2>3
    <3>2. PICK j \in 1..Len(c[l]) : c[l][j] = n
      BY <2>1
    <3> QED BY <1>2, <3>1, <3>2 DEF Apart
  <2>4. CASE l = NULL
    <3>1. {q \in Queues : n \in ToSet(Chain(q))} = {}
      BY <1>2, <1>3, <2>3, <2>4
    <3> QED BY <1>5, <2>2, <2>4, <3>1, FS_EmptySet
  <2>5. CASE l # NULL
    <3>1. l \in Queues
      BY <2>5 DEF Lists
    <3>2. {q \in Queues : n \in ToSet(Chain(q))} = {l}
      BY <1>2, <1>3, <2>2, <2>3, <3>1
    <3>3. n \notin Pool
      BY <1>2, <1>5, <2>3, <2>5
    <3> QED BY <3>2, <3>3, FS_Singleton
  <2> QED BY <2>4, <2>5
<1>7. \A q \in Queues : ToSet(Chain(q)) \subseteq Nodes /\ IsInjective(Chain(q))
  BY <1>2, <1>3, <1>4
<1> QED BY <1>6, <1>7 DEF NodesConserved

LEMMA InvHeaders ==
  ASSUME QueueInv
  PROVE  HeadersAgree
<1>1. PICK c : Represents(c)
  BY DEF QueueInv
<1>2. ASSUME NEW q \in Queues
      PROVE  IF first[q] = NULL THEN size[q] = 0 /\ last[q] = NULL
             ELSE /\ size[q] > 0 /\ Last(Chain(q)) = last[q]
                  /\ NextOf(Last(Chain(q))) = NULL
  <2>1. /\ QueueTypes /\ q \in Lists /\ Threaded(c[q], Starts[q], next)
        /\ size[q] = Len(c[q]) /\ last[q] = LastOf(c[q])
    BY <1>1, SizesOfQueue DEF QueueInv, Represents, Stands
  <2>2. /\ c[q] \in Seq(Nodes) /\ Len(c[q]) \in Nat /\ Chain(q) = c[q]
        /\ (IsEmpty(q) <=> Len(c[q]) = 0)
        /\ \A i \in 1..Len(c[q]) : c[q][i] # NULL
    BY <1>1, <2>1, RepresentsFacts
  <2>3. CASE first[q] = NULL
    BY <2>1, <2>2, <2>3 DEF IsEmpty, LastOf
  <2>4. CASE first[q] # NULL
    <3>1. Len(c[q]) # 0 /\ Len(c[q]) \in 1..Len(c[q]) /\ Len(c[q]) > 0
      BY <2>2, <2>4 DEF IsEmpty
    <3>2. Last(Chain(q)) = c[q][Len(c[q])] /\ last[q] = c[q][Len(c[q])]
      BY <2>1, <2>2, <3>1 DEF Last, LastOf
    <3>3. next[c[q][Len(c[q])]] = NULL
      BY <2>1, <3>1 DEF Threaded, After
    <3> QED BY <2>1, <2>2, <2>4, <3>1, <3>2, <3>3 DEF NextOf
  <2> QED BY <2>3, <2>4
<1> QED BY <1>2 DEF HeadersAgree

\* Every node stays in the pool or in one queue, once, after any sequence of
\* inserts, removals, allocations and deallocations (queue.c:93-120, 235-333).
THEOREM NodesConservedHolds == Spec => []NodesConserved
<1>1. QueueInv => NodesConserved
  BY InvConserves
<1> QED BY <1>1, QueueAlways, PTL

\* The count and the first and last pointers of every queue stay those of its
\* nodes: an insert at the end finds the end (queue.c:293-298).
THEOREM HeadersAgreeHolds == Spec => []HeadersAgree
<1>1. QueueInv => HeadersAgree
  BY InvHeaders
<1> QED BY <1>1, QueueAlways, PTL

-----------------------------------------------------------------------------
(* The abstract queues.                                                    *)

\* The elements that the nodes of a list hold.
Elements == [data : Values, key : Keys]
ElementAt(n) == [data |-> data[n], key |-> key[n]]
ElementsOf(s) == [i \in DOMAIN s |-> ElementAt(s[i])]

Contents == [q \in Queues |-> ElementsOf(Chain(q))]
Ordered == {q \in held : compare[q] = "time"}

LEMMA ElementsFacts ==
  ASSUME QueueTypes, NEW s \in Seq(Nodes)
  PROVE  /\ ElementsOf(s) \in Seq(Elements) /\ Len(ElementsOf(s)) = Len(s)
         /\ \A i \in 1..Len(s) : ElementsOf(s)[i] = ElementAt(s[i])
<1>1. Len(s) \in Nat /\ DOMAIN s = 1..Len(s) /\ \A i \in 1..Len(s) : s[i] \in Nodes
  BY LenProperties, ElementOfSeq
<1>2. \A n \in Nodes : ElementAt(n) \in Elements
  BY DEF ElementAt, Elements, QueueTypes
<1>3. ElementsOf(s) \in [1..Len(s) -> Elements]
  BY <1>1, <1>2 DEF ElementsOf
<1> QED BY <1>1, <1>3, FunctionIsSeq DEF ElementsOf

LEMMA ContentsAre ==
  \A c : QueueTypes /\ Represents(c) =>
    /\ Contents = [q \in Queues |-> ElementsOf(c[q])]
    /\ \A q \in Queues :
         /\ ElementsOf(c[q]) \in Seq(Elements) /\ Len(ElementsOf(c[q])) = Len(c[q])
         /\ \A i \in 1..Len(c[q]) : ElementsOf(c[q])[i] = ElementAt(c[q][i])
<1> SUFFICES ASSUME NEW c, QueueTypes, Represents(c)
             PROVE  /\ Contents = [q \in Queues |-> ElementsOf(c[q])]
                    /\ \A q \in Queues :
                         /\ ElementsOf(c[q]) \in Seq(Elements)
                         /\ Len(ElementsOf(c[q])) = Len(c[q])
                         /\ \A i \in 1..Len(c[q]) : ElementsOf(c[q])[i] = ElementAt(c[q][i])
  OBVIOUS
<1>1. \A q \in Queues : c[q] \in Seq(Nodes) /\ Chain(q) = c[q]
  BY RepresentsFacts, SizesOfQueue
<1>2. Contents = [q \in Queues |-> ElementsOf(c[q])]
  BY <1>1 DEF Contents
<1> QED BY <1>1, <1>2, ElementsFacts

LEMMA ContentsAreNext ==
  (\A c : QueueTypes /\ Represents(c) =>
    /\ Contents = [q \in Queues |-> ElementsOf(c[q])]
    /\ \A q \in Queues :
         /\ ElementsOf(c[q]) \in Seq(Elements) /\ Len(ElementsOf(c[q])) = Len(c[q])
         /\ \A i \in 1..Len(c[q]) : ElementsOf(c[q])[i] = ElementAt(c[q][i]))'
BY ContentsAre, PTL

\* There is one sequence with e between the first i elements of s and the others.
LEMMA OneInsertion ==
  ASSUME NEW S, NEW s \in Seq(S), NEW t \in Seq(S), NEW u \in Seq(S), NEW i, NEW e,
         IsInsertion(t, s, i, e), IsInsertion(u, s, i, e)
  PROVE  t = u
BY SeqEqual DEF IsInsertion

LEMMA AppendIsInsertion ==
  ASSUME NEW S, NEW s \in Seq(S), NEW e \in S
  PROVE  Append(s, e) \in Seq(S) /\ IsInsertion(Append(s, e), s, Len(s), e)
<1>1. Len(s) \in Nat
  BY LenProperties
<1>2. /\ Append(s, e) \in Seq(S) /\ Len(Append(s, e)) = Len(s) + 1
      /\ \A j \in 1..Len(s) : Append(s, e)[j] = s[j]
      /\ Append(s, e)[Len(s) + 1] = e
  BY AppendProperties
<1>3. \A j \in 1..(Len(s) + 1) : IF j <= Len(s) THEN j \in 1..Len(s) ELSE j = Len(s) + 1
  BY <1>1
<1> QED BY <1>1, <1>2, <1>3 DEF IsInsertion

\* The place of the abstract queue is where the search of _queue_insert stops.
LEMMA PlaceIs ==
  ASSUME QueueTypes, NEW s \in Seq(Nodes), NEW k, NEW i \in 0..Len(s), StopsAt(s, k, i)
  PROVE  Abs!Place(ElementsOf(s), k) = i
<1> DEFINE D == ElementsOf(s)
           P == Abs!Passed(D, k)
<1>1. Len(s) \in Nat /\ Len(D) = Len(s) /\ \A j \in 1..Len(s) : D[j].key = key[s[j]]
  <2>1. \A n : ElementAt(n).key = key[n]
    BY DEF ElementAt
  <2>2. Len(s) \in Nat /\ Len(D) = Len(s) /\ \A j \in 1..Len(s) : D[j] = ElementAt(s[j])
    BY ElementsFacts, LenProperties
  <2> HIDE DEF D
  <2> QED BY <2>1, <2>2
<1> HIDE DEF D
<1>2. P = {m \in 0..Len(s) : \A j \in 1..m : Abs!NotBefore(k, D[j].key)}
  BY <1>1 DEF Abs!Passed
<1>3. \A x, y : Abs!NotBefore(x, y) = CompareTime(x, y)
  BY DEF Abs!NotBefore, CompareTime
<1>4. ASSUME NEW m \in 0..Len(s)
      PROVE  m \in P <=> \A j \in 1..m : CompareTime(k, key[s[j]])
  <2>1. \A j \in 1..m : j \in 1..Len(s)
    BY <1>1
  <2> QED BY <1>1, <1>2, <1>3, <2>1
<1>5. i \in P
  BY <1>4 DEF StopsAt
<1>6. ASSUME NEW m \in P PROVE m <= i
  <2>1. m \in 0..Len(s)
    BY <1>2
  <2>2. SUFFICES ASSUME ~(m <= i) PROVE FALSE
    OBVIOUS
  <2>3. i < Len(s) /\ i + 1 \in 1..m
    BY <1>1, <2>1, <2>2
  <2> QED BY <1>4, <2>1, <2>3 DEF StopsAt
<1>7. \A m \in P : (\A j \in P : j <= m) <=> m = i
  <2>1. P \subseteq Int
    BY <1>2
  <2> QED BY <1>5, <1>6, <2>1
<1>8. Abs!Place(D, k) = CHOOSE m \in P : \A j \in P : j <= m
  BY DEF Abs!Place
<1> HIDE DEF P
<1>9. (CHOOSE m \in P : \A j \in P : j <= m) = i
  BY <1>5, <1>7
<1> QED BY <1>8, <1>9 DEF D

\* The elements of the queues after an insert.
LEMMA InsertIsAdd ==
  ASSUME QueueTypes, QueueTypes', NEW c, Represents(c),
         NEW q \in Queues, q \in held \/ q = 0, NEW d \in Values, NEW k \in Keys,
         QueueInsert(q, d, k), free_qnodes # NULL
  PROVE  Contents' = [Contents EXCEPT ![q] =
           IF q \in Ordered THEN InsertAt(@, Abs!Place(@, k) + 1, [data |-> d, key |-> k])
           ELSE Append(@, [data |-> d, key |-> k])]
<1> DEFINE x == [data |-> d, key |-> k]
           n == c[NULL][1]
<1>1. PICK i : /\ GoesTo(c, q, k, i)
               /\ c[NULL] # <<>> /\ Stands(Moved(c, NULL, q, i), Starts', next', size', last')
               /\ data' = [data EXCEPT ![n] = d]
               /\ key' = [key EXCEPT ![n] = k]
  BY InsertMoves
<1> DEFINE e == Moved(c, NULL, q, i)
           D == ElementsOf(c[q])
           E == ElementsOf(e[q])'
           I == InsertAt(D, i + 1, x)
<1>2. /\ c \in [Lists -> Seq(Nodes)] /\ Apart(c) /\ q \in Lists /\ NULL \in Lists /\ NULL # q
      /\ c[q] \in Seq(Nodes) /\ Len(c[q]) \in Nat /\ i \in 0..Len(c[q])
      /\ \A l \in Lists : \A j \in 1..Len(c[l]) : c[l][j] \in Nodes
      /\ 1 \in 1..Len(c[NULL]) /\ n \in Nodes /\ e \in [Lists -> Seq(Nodes)]
  <2>1. c \in [Lists -> Seq(Nodes)] /\ Apart(c) /\ q \in Lists /\ NULL \in Lists /\ NULL # q
    BY SizesOfQueue DEF Represents, Stands
  <2>2. \A l \in Lists : /\ c[l] \in Seq(Nodes) /\ Len(c[l]) \in Nat
                         /\ \A j \in 1..Len(c[l]) : c[l][j] \in Nodes
    BY RepresentsFacts
  <2>3. 1 \in 1..Len(c[NULL])
    BY <1>1, <2>1, <2>2, EmptySeq
  <2>4. i \in 0..Len(c[q]) /\ e \in [Lists -> Seq(Nodes)]
    BY <1>1 DEF GoesTo, Stands
  <2> QED BY <2>1, <2>2, <2>3, <2>4
<1>3. Represents(e)' /\ QueueTypes'
  BY <1>1 DEF Represents
<1>4. IsMoved(e, c, NULL, q, i) /\ \A l \in Lists \ {NULL, q} : e[l] = c[l]
  <2>1. IsMoved(e, c, NULL, q, i)
    BY <1>1, <1>2, MovedIsMoved
  <2>2. \A l \in Lists \ {NULL, q} : e[l] = c[l]
    BY <1>2 DEF Moved
  <2> QED BY <2>1, <2>2
<1> HIDE DEF e
<1>5. /\ Contents = [r \in Queues |-> ElementsOf(c[r])]
      /\ D \in Seq(Elements) /\ Len(D) = Len(c[q])
      /\ \A j \in 1..Len(c[q]) : D[j] = ElementAt(c[q][j])
  BY ContentsAre
<1>6. /\ Contents' = [r \in Queues |-> ElementsOf(e[r])']
      /\ E \in Seq(Elements) /\ Len(E) = Len(e[q])
      /\ \A j \in 1..Len(e[q]) : E[j] = ElementAt(e[q][j])'
  BY <1>3, ContentsAreNext
<1>7. /\ ElementAt(n)' = x
      /\ \A m \in Nodes \ {n} : ElementAt(m)' = ElementAt(m)
      /\ x \in Elements
  <2>1. data'[n] = d /\ key'[n] = k
    BY <1>1, <1>2 DEF QueueTypes
  <2>2. \A m \in Nodes \ {n} : data'[m] = data[m] /\ key'[m] = key[m]
    BY <1>1, <1>2 DEF QueueTypes
  <2> HIDE DEF n
  <2>3. ElementAt(n)' = x
    BY <2>1 DEF ElementAt
  <2> QED BY <2>2, <2>3 DEF ElementAt, Elements
<1>8. ASSUME NEW l \in Lists, l # NULL, NEW j \in 1..Len(c[l])
      PROVE  c[l][j] \in Nodes \ {n}
  BY <1>2, <1>8 DEF Apart
<1>9. \A r \in Queues \ {q} : ElementsOf(e[r])' = ElementsOf(c[r])
  <2> TAKE r \in Queues \ {q}
  <2>1. r \in Lists /\ r # NULL /\ e[r] = c[r]
    BY <1>4, SizesOfQueue
  <2>2. DOMAIN c[r] = 1..Len(c[r])
    BY <1>2, <2>1
  <2>3. \A j \in DOMAIN c[r] : ElementAt(c[r][j])' = ElementAt(c[r][j])
    BY <1>7, <1>8, <2>1, <2>2
  <2>4. ElementsOf(e[r])' = [j \in DOMAIN c[r] |-> ElementAt(c[r][j])']
    BY <2>1 DEF ElementsOf
  <2> QED BY <2>3, <2>4 DEF ElementsOf
<1>10. IsInsertion(E, D, i, x)
  <2>1. Len(e[q]) = Len(c[q]) + 1
    BY <1>4 DEF IsMoved
  <2>2. ASSUME NEW j \in 1..(Len(c[q]) + 1)
        PROVE  E[j] = IF j <= i THEN D[j] ELSE IF j = i + 1 THEN x ELSE D[j - 1]
    <3>1. e[q][j] = IF j <= i THEN c[q][j] ELSE IF j = i + 1 THEN n ELSE c[q][j - 1]
      BY <1>4 DEF IsMoved
    <3>2. E[j] = ElementAt(e[q][j])'
      BY <1>6, <2>1
    <3>3. CASE j <= i
      <4>1. j \in 1..Len(c[q])
        BY <1>2, <3>3
      <4>2. ElementAt(c[q][j])' = ElementAt(c[q][j])
        BY <1>2, <1>7, <1>8, <4>1
      <4>3. e[q][j] = c[q][j]
        BY <3>1, <3>3
      <4> QED BY <1>5, <3>2, <3>3, <4>1, <4>2, <4>3
    <3>4. CASE j = i + 1
      <4>1. e[q][j] = n /\ ~(j <= i)
        BY <1>2, <3>1, <3>4
      <4> QED BY <1>7, <3>2, <3>4, <4>1
    <3>5. CASE ~(j <= i) /\ j # i + 1
      <4>1. j - 1 \in 1..Len(c[q])
        BY <1>2, <3>5
      <4>2. ElementAt(c[q][j - 1])' = ElementAt(c[q][j - 1])
        BY <1>2, <1>7, <1>8, <4>1
      <4>3. e[q][j] = c[q][j - 1]
        BY <3>1, <3>5
      <4> QED BY <1>5, <3>2, <3>5, <4>1, <4>2, <4>3
    <3> QED BY <3>3, <3>4, <3>5
  <2> HIDE DEF D, E, x
  <2> QED BY <1>5, <1>6, <2>1, <2>2 DEF IsInsertion
<1> HIDE DEF x
<1>11. E = IF q \in Ordered THEN InsertAt(D, Abs!Place(D, k) + 1, x) ELSE Append(D, x)
  <2>1. CASE q \in Ordered
    <3>1. StopsAt(c[q], k, i)
      BY <1>1, <2>1 DEF GoesTo, Ordered
    <3>2. Abs!Place(D, k) = i
      BY <1>2, <3>1, PlaceIs
    <3> HIDE DEF D, E
    <3> DEFINE t == InsertAt(D, i + 1, x)
    <3>3. t = InsertAt(D, i + 1, x)
      OBVIOUS
    <3> HIDE DEF t
    <3>4. i \in 0..Len(D)
      BY <1>2, <1>5
    <3>5. t \in Seq(Elements) /\ IsInsertion(t, D, i, x)
      BY <1>5, <1>7, <3>3, <3>4, InsertAtFacts
    <3>6. E = t
      BY <1>5, <1>6, <1>10, <3>5, OneInsertion
    <3> QED BY <2>1, <3>2, <3>3, <3>6
  <2>2. CASE q \notin Ordered
    <3>1. compare[q] = "none"
      BY <2>2 DEF Ordered, QueueTypes, Orders
    <3>2. i = Len(D)
      BY <1>1, <1>5, <3>1 DEF GoesTo
    <3> HIDE DEF D, E
    <3>3. Append(D, x) \in Seq(Elements) /\ IsInsertion(Append(D, x), D, i, x)
      BY <1>5, <1>7, <3>2, AppendIsInsertion
    <3>4. E = Append(D, x)
      BY <1>5, <1>6, <1>10, <3>3, OneInsertion
    <3> QED BY <2>2, <3>4
  <2> QED BY <2>1, <2>2
<1>12. Contents[q] = D
  BY <1>5
<1> DEFINE y == IF q \in Ordered THEN InsertAt(D, Abs!Place(D, k) + 1, x) ELSE Append(D, x)
<1>13. Contents' = [Contents EXCEPT ![q] = y]
  <2> HIDE DEF y, D
  <2>1. E = y
    BY <1>11 DEF y
  <2>2. \A r \in Queues : ElementsOf(e[r])' = IF r = q THEN y ELSE Contents[r]
    BY <1>5, <1>9, <2>1
  <2> HIDE DEF E
  <2> QED BY <1>5, <1>6, <2>2
<1> QED BY <1>12, <1>13 DEF x

\* The elements of the queues after a removal.
LEMMA RemoveIsTail ==
  ASSUME QueueTypes, QueueTypes', NEW c, Represents(c), NEW q \in Queues,
         QueueRemove(q), ~IsEmpty(q)
  PROVE  /\ Contents' = [Contents EXCEPT ![q] = Tail(@)]
         /\ Contents[q] # <<>> /\ returned' = Head(Contents[q]).data
         /\ Head(Contents[q]).data = data[first[q]]
<1> DEFINE e == Moved(c, q, NULL, 0)
           D == ElementsOf(c[q])
           E == ElementsOf(e[q])'
<1>1. /\ c[q] # <<>> /\ c[q][1] = first[q]
      /\ Stands(e, Starts', next', size', last')
      /\ returned' = data[c[q][1]] /\ UNCHANGED <<data, key>>
  BY RemoveMoves
<1>2. /\ c \in [Lists -> Seq(Nodes)] /\ q \in Lists /\ NULL \in Lists /\ NULL # q
      /\ c[q] \in Seq(Nodes) /\ Len(c[q]) \in Nat /\ 1 \in 1..Len(c[q])
      /\ 0 \in 0..Len(c[NULL]) /\ e \in [Lists -> Seq(Nodes)]
  <2>1. c \in [Lists -> Seq(Nodes)] /\ q \in Lists /\ NULL \in Lists /\ NULL # q
    BY SizesOfQueue DEF Represents, Stands
  <2>2. \A l \in Lists : c[l] \in Seq(Nodes) /\ Len(c[l]) \in Nat
    BY RepresentsFacts
  <2>3. 1 \in 1..Len(c[q])
    BY <1>1, <2>1, <2>2, EmptySeq
  <2>4. e \in [Lists -> Seq(Nodes)]
    BY <1>1 DEF Stands
  <2> QED BY <2>1, <2>2, <2>3, <2>4
<1>3. Represents(e)' /\ QueueTypes'
  BY <1>1 DEF Represents
<1>4. IsMoved(e, c, q, NULL, 0) /\ \A l \in Lists \ {NULL, q} : e[l] = c[l]
  <2>1. IsMoved(e, c, q, NULL, 0)
    BY <1>1, <1>2, MovedIsMoved
  <2>2. \A l \in Lists \ {NULL, q} : e[l] = c[l]
    BY <1>2 DEF Moved
  <2> QED BY <2>1, <2>2
<1> HIDE DEF e
<1>5. /\ Contents = [r \in Queues |-> ElementsOf(c[r])]
      /\ D \in Seq(Elements) /\ Len(D) = Len(c[q])
      /\ \A j \in 1..Len(c[q]) : D[j] = ElementAt(c[q][j])
  BY ContentsAre
<1>6. /\ Contents' = [r \in Queues |-> ElementsOf(e[r])']
      /\ E \in Seq(Elements) /\ Len(E) = Len(e[q])
      /\ \A j \in 1..Len(e[q]) : E[j] = ElementAt(e[q][j])'
  BY <1>3, ContentsAreNext
<1>7. \A m : ElementAt(m)' = ElementAt(m)
  BY <1>1 DEF ElementAt
<1>8. \A r \in Queues \ {q} : ElementsOf(e[r])' = ElementsOf(c[r])
  <2> TAKE r \in Queues \ {q}
  <2>1. e[r] = c[r]
    BY <1>4, SizesOfQueue
  <2>2. ElementsOf(e[r])' = [j \in DOMAIN c[r] |-> ElementAt(c[r][j])']
    BY <2>1 DEF ElementsOf
  <2> QED BY <1>7, <2>2 DEF ElementsOf
<1>9. D # <<>> /\ Head(D) = ElementAt(c[q][1])
  BY <1>2, <1>5, EmptySeq, HeadTailProperties
<1>10. E = Tail(D)
  <2> DEFINE t == Tail(D)
  <2>1. /\ t \in Seq(Elements) /\ Len(t) = Len(D) - 1
        /\ \A j \in 1..(Len(D) - 1) : t[j] = D[j + 1]
    BY <1>5, <1>9, HeadTailProperties
  <2>2. Len(E) = Len(c[q]) - 1 /\ Len(e[q]) = Len(c[q]) - 1
    BY <1>4, <1>6 DEF IsMoved
  <2>3. ASSUME NEW j \in 1..(Len(c[q]) - 1) PROVE E[j] = t[j]
    <3>1. e[q][j] = c[q][j + 1] /\ j + 1 \in 1..Len(c[q])
      BY <1>2, <1>4 DEF IsMoved
    <3>2. E[j] = ElementAt(e[q][j])'
      BY <1>6, <2>2
    <3>3. t[j] = ElementAt(c[q][j + 1])
      BY <1>5, <2>1, <3>1
    <3> QED BY <1>7, <3>1, <3>2, <3>3
  <2> HIDE DEF t, E
  <2>4. E = t
    BY <1>5, <1>6, <2>1, <2>2, <2>3, SeqEqual
  <2> QED BY <2>4 DEF t
<1>11. Contents' = [Contents EXCEPT ![q] = Tail(D)]
  <2> HIDE DEF D
  <2>1. \A r \in Queues : ElementsOf(e[r])' = IF r = q THEN Tail(D) ELSE Contents[r]
    BY <1>5, <1>8, <1>10
  <2> HIDE DEF E
  <2> QED BY <1>5, <1>6, <2>1
<1>12. Contents[q] = D
  BY <1>5
<1>13. ElementAt(c[q][1]).data = data[c[q][1]]
  BY DEF ElementAt
<1> HIDE DEF D
<1> QED BY <1>1, <1>9, <1>11, <1>12, <1>13

\* The nodes in the queues of a set of them.
NodesIn(c, T) == {n \in Nodes : \E q \in T : \E i \in 1..Len(c[q]) : c[q][i] = n}

LEMMA NodesAreCounted ==
  ASSUME NEW c \in [Lists -> Seq(Nodes)], Apart(c), NEW T \in SUBSET Queues, NEW x \in T
  PROVE  Cardinality(NodesIn(c, T)) = Len(c[x]) + Cardinality(NodesIn(c, T \ {x}))
<1> DEFINE A == NodesIn(c, {x})
           B == NodesIn(c, T \ {x})
           s == c[x]
<1>1. Queues \subseteq Lists /\ x \in Lists /\ s \in Seq(Nodes) /\ Len(s) \in Nat
      /\ IsFiniteSet(Nodes)
  BY SizesOfQueue, LenProperties, FS_Interval DEF Nodes
<1>2. IsFiniteSet(A) /\ IsFiniteSet(B)
  BY <1>1, FS_Subset DEF NodesIn
<1>3. A \cup B = NodesIn(c, T)
  BY DEF NodesIn
<1>4. A \cap B = {}
  BY <1>1 DEF NodesIn, Apart
<1>5. Cardinality(A) = Len(s)
  <2>1. A = {s[i] : i \in 1..Len(s)}
    BY <1>1, ElementOfSeq DEF NodesIn
  <2>2. \A i, j \in 1..Len(s) : s[i] = s[j] => i = j
    BY <1>1 DEF Apart
  <2> HIDE DEF A, s
  <2>3. [i \in 1..Len(s) |-> s[i]] \in Bijection(1..Len(s), A)
    BY <2>1, <2>2 DEF Bijection, Injection, Surjection, IsInjective
  <2>4. ExistsBijection(1..Len(s), A)
    BY <2>3 DEF ExistsBijection
  <2> QED BY <1>1, <2>4, FS_CountingElements
<1>6. Cardinality(A \cup B) = Cardinality(A) + Cardinality(B) - Cardinality(A \cap B)
  BY <1>2, FS_Union
<1>7. Cardinality(A \cap B) = 0 /\ Cardinality(A) \in Nat /\ Cardinality(B) \in Nat
  BY <1>2, <1>4, FS_EmptySet, FS_CardinalityType
<1> HIDE DEF A, B
<1>8. Cardinality(A \cup B) = Cardinality(A) + Cardinality(B)
  BY <1>6, <1>7
<1> QED BY <1>3, <1>5, <1>7, <1>8 DEF B

\* The number of elements in all the queues is the number of nodes in them:
\* the sum over the queues has one value, and that count is one.
LEMMA TotalIsCount ==
  ASSUME NEW c \in [Lists -> Seq(Nodes)], Apart(c),
         NEW C, \A q \in Queues : Len(C[q]) = Len(c[q])
  PROVE  Abs!Total(C) = Cardinality(NodesIn(c, Queues))
<1> DEFINE Q == Queues
           W == [T \in SUBSET Q |-> Cardinality(NodesIn(c, T))]
           One(T) == CHOOSE x \in T : TRUE
           F == CHOOSE f : f = [T \in SUBSET Q |->
                  IF T = {} THEN 0 ELSE Len(C[One(T)]) + f[T \ {One(T)}]]
<1>1. IsFiniteSet(Q) /\ Q = Abs!Queues
  BY SizesOfQueue, FS_Interval DEF Queues, Abs!Queues
<1>2. Abs!Total(C) = F[Q]
  BY <1>1 DEF Abs!Total, Abs!FoldSet, Abs!MapThenFoldSet
<1>3. ASSUME NEW T \in SUBSET Q
      PROVE  /\ T # {} => One(T) \in T
             /\ W[T] = IF T = {} THEN 0 ELSE Len(C[One(T)]) + W[T \ {One(T)}]
  <2>1. T # {} => One(T) \in T
    OBVIOUS
  <2>2. CASE T = {}
    <3>1. NodesIn(c, T) = {}
      BY <2>2 DEF NodesIn
    <3> QED BY <2>1, <2>2, <3>1, FS_EmptySet
  <2>3. CASE T # {}
    <3> DEFINE x == One(T)
    <3>1. x \in T /\ T \ {x} \in SUBSET Q
      BY <2>1, <2>3
    <3> HIDE DEF x, One
    <3>2. Cardinality(NodesIn(c, T)) = Len(c[x]) + Cardinality(NodesIn(c, T \ {x}))
      BY <3>1, NodesAreCounted
    <3>3. W[T] = Len(C[x]) + W[T \ {x}]
      BY <3>1, <3>2
    <3> QED BY <2>1, <2>3, <3>3 DEF x
  <2> QED BY <2>2, <2>3
<1> HIDE DEF One
<1>4. F = [T \in SUBSET Q |-> IF T = {} THEN 0 ELSE Len(C[One(T)]) + F[T \ {One(T)}]]
  <2>1. W = [T \in SUBSET Q |-> W[T]]
    OBVIOUS
  <2> HIDE DEF W
  <2>2. W = [T \in SUBSET Q |-> IF T = {} THEN 0 ELSE Len(C[One(T)]) + W[T \ {One(T)}]]
    BY <1>3, <2>1
  <2>3. \E f : f = [T \in SUBSET Q |-> IF T = {} THEN 0 ELSE Len(C[One(T)]) + f[T \ {One(T)}]]
    BY <2>2
  <2> QED BY <2>3
<1> HIDE DEF F, W, Q
<1>5. ASSUME NEW T \in SUBSET Q
      PROVE  F[T] = IF T = {} THEN 0 ELSE Len(C[One(T)]) + F[T \ {One(T)}]
  BY <1>4
<1>6. ASSUME NEW T \in SUBSET Q
      PROVE  IsFiniteSet(T) /\ Cardinality(T) \in Nat
  BY <1>1, FS_Subset, FS_CardinalityType
<1> DEFINE S == {n \in Nat : \A T \in SUBSET Q : Cardinality(T) = n => F[T] = W[T]}
<1>7. 0 \in S
  <2>1. \A T \in SUBSET Q : Cardinality(T) = 0 => T = {}
    BY <1>6, FS_EmptySet
  <2> QED BY <1>3, <1>5, <2>1
<1>8. \A n \in Nat : n \in S => n + 1 \in S
  <2> SUFFICES ASSUME NEW n \in Nat, n \in S, NEW T \in SUBSET Q, Cardinality(T) = n + 1
               PROVE  F[T] = W[T]
    OBVIOUS
  <2> DEFINE x == One(T)
  <2>1. T # {}
    <3>1. Cardinality({}) = 0 /\ n + 1 # 0
      BY FS_EmptySet
    <3> HIDE DEF S, x
    <3> QED BY <3>1
  <2>2. x \in T /\ T \ {x} \in SUBSET Q
    BY <1>3, <2>1
  <2> HIDE DEF x
  <2>3. Cardinality(T \ {x}) = n
    <3>1. Cardinality(T \ {x}) = Cardinality(T) - 1
      BY <1>6, <2>2, FS_RemoveElement
    <3> QED BY <3>1
  <2>4. F[T \ {x}] = W[T \ {x}]
    BY <2>2, <2>3
  <2> QED BY <1>3, <1>5, <2>1, <2>4 DEF x
<1> HIDE DEF S
<1>9. Nat \subseteq S
  BY <1>7, <1>8, NatSetInduction
<1>10. F[Q] = W[Q]
  <2>1. Q \in SUBSET Q /\ Cardinality(Q) \in S
    BY <1>6, <1>9
  <2> QED BY <2>1 DEF S
<1> QED BY <1>2, <1>10 DEF W, Q

\* There is room for one more exactly when the pool has a node.
LEMMA RoomIsFree ==
  ASSUME QueueTypes, NEW c, Represents(c)
  PROVE  Abs!Total(Contents) < N_QNODES <=> free_qnodes # NULL
<1> DEFINE A == NodesIn(c, Queues)
<1>1. /\ c \in [Lists -> Seq(Nodes)] /\ Apart(c) /\ Complete(c) /\ NULL \in Lists
      /\ NULL \notin Queues /\ Queues \subseteq Lists
      /\ IsFiniteSet(Nodes) /\ Cardinality(Nodes) = N_QNODES /\ N_QNODES \in Nat
  <2>1. IsFiniteSet(Nodes) /\ Cardinality(Nodes) = N_QNODES
    <3>1. N_QNODES - 1 \in Int /\ 0 \in Int /\ N_QNODES - 1 - 0 + 1 = N_QNODES /\ ~(0 > N_QNODES - 1)
      BY SizesOfQueue
    <3> QED BY <3>1, FS_Interval DEF Nodes
  <2> QED BY <2>1, SizesOfQueue DEF Represents, Stands
<1>2. \A q \in Queues : Len(Contents[q]) = Len(c[q])
  BY ContentsAre
<1>3. Abs!Total(Contents) = Cardinality(A)
  BY <1>1, <1>2, TotalIsCount
<1>4. A \in SUBSET Nodes
  BY DEF NodesIn
<1>5. Cardinality(A) \in Nat /\ Cardinality(A) <= N_QNODES /\ (Cardinality(A) = N_QNODES => A = Nodes)
  BY <1>1, <1>4, FS_Subset, FS_CardinalityType
<1>6. /\ Len(c[NULL]) \in Nat /\ (free_qnodes = NULL <=> Len(c[NULL]) = 0)
      /\ \A i \in 1..Len(c[NULL]) : c[NULL][i] \in Nodes
  BY <1>1, RepresentsFacts
<1>7. CASE free_qnodes = NULL
  <2>1. Nodes \subseteq A
    <3>1. \A n \in Nodes : \E l \in Lists : \E i \in 1..Len(c[l]) : c[l][i] = n
      BY <1>1 DEF Complete
    <3>2. \A i \in 1..Len(c[NULL]) : FALSE
      BY <1>6, <1>7
    <3> QED BY <3>1, <3>2 DEF NodesIn, Lists
  <2>2. A = Nodes
    BY <1>4, <2>1
  <2> QED BY <1>1, <1>3, <1>7, <2>2
<1>8. CASE free_qnodes # NULL
  <2>1. 1 \in 1..Len(c[NULL])
    BY <1>6, <1>8
  <2>2. c[NULL][1] \in Nodes /\ c[NULL][1] \notin A
    BY <1>1, <1>6, <2>1 DEF NodesIn, Apart
  <2>3. A # Nodes
    BY <2>2
  <2> QED BY <1>1, <1>3, <1>5, <1>8, <2>3
<1> QED BY <1>7, <1>8

\* Every step is a step of the abstract queues or none of theirs.
LEMMA InsertImplements ==
  ASSUME QueueInv, QueueInv', NEW q \in held, NEW d \in Items, NEW k \in Keys,
         InsertInto(q, d, k)
  PROVE  Abs!AbsInsert(q, d, k)
<1>1. PICK c : Represents(c) /\ FreeList(c)
  BY DEF QueueInv
<1>2. QueueTypes /\ QueueTypes' /\ q \in Queues /\ d \in Values
  BY DEF QueueInv, QueueTypes, Values
<1>3. QueueInsert(q, d, k) /\ ~panicked /\ UNCHANGED <<compare, held, returned>>
  BY DEF InsertInto
<1>4. Ordered' = Ordered
  BY <1>3 DEF Ordered
<1>5. CASE free_qnodes = NULL
  <2>1. ~(Abs!Total(Contents) < N_QNODES)
    BY <1>1, <1>2, <1>5, RoomIsFree
  <2>2. panicked' = TRUE /\ UNCHANGED <<data, key, first, size, next>>
    BY <1>3, <1>5 DEF QueueInsert, nodes
  <2>3. Contents' = Contents
    BY <2>2 DEF Contents, ElementsOf, ElementAt, Chain, NextOf
  <2> QED BY <1>3, <1>4, <2>1, <2>2, <2>3
       DEF Abs!AbsInsert, Contents, Ordered, ElementsOf, ElementAt
<1>6. CASE free_qnodes # NULL
  <2>1. Abs!Total(Contents) < N_QNODES
    BY <1>1, <1>2, <1>6, RoomIsFree
  <2>2. Contents' = [Contents EXCEPT ![q] =
          IF q \in Ordered THEN InsertAt(@, Abs!Place(@, k) + 1, [data |-> d, key |-> k])
          ELSE Append(@, [data |-> d, key |-> k])]
    BY <1>1, <1>2, <1>3, <1>6, InsertIsAdd
  <2>3. UNCHANGED panicked
    BY <1>3, <1>6 DEF QueueInsert
  <2>4. Contents' = Abs!Add(Contents, q, d, k)
    BY <2>2 DEF Abs!Add, Abs!Element, Abs!InsertAt, InsertAt, Ordered
  <2> QED BY <1>3, <1>4, <2>1, <2>3, <2>4
       DEF Abs!AbsInsert, Contents, Ordered, ElementsOf, ElementAt
<1> QED BY <1>5, <1>6

LEMMA RemoveImplements ==
  ASSUME QueueInv, QueueInv', NEW q \in held, RemoveFrom(q)
  PROVE  Abs!AbsRemove(q)
<1>1. PICK c : Represents(c) /\ FreeList(c)
  BY DEF QueueInv
<1>2. QueueTypes /\ QueueTypes' /\ q \in Queues
  BY DEF QueueInv, QueueTypes
<1>3. ~panicked /\ UNCHANGED <<compare, held, panicked>>
  BY DEF RemoveFrom
<1>4. Ordered' = Ordered
  BY <1>3 DEF Ordered
<1>5. CASE IsEmpty(q)
  <2>1. Contents[q] = <<>>
    <3>1. Len(c[q]) = 0
      BY <1>1, <1>2, <1>5, RepresentsFacts
    <3>2. /\ Contents[q] = ElementsOf(c[q]) /\ ElementsOf(c[q]) \in Seq(Elements)
          /\ Len(ElementsOf(c[q])) = Len(c[q])
      BY <1>1, <1>2, ContentsAre
    <3> QED BY <3>1, <3>2, EmptySeq
  <2>2. returned' = NULL /\ UNCHANGED <<data, key, first, size, next>>
    BY <1>5 DEF RemoveFrom, nodes
  <2>3. Contents' = Contents
    BY <2>2 DEF Contents, ElementsOf, ElementAt, Chain, NextOf
  <2> QED BY <1>3, <1>4, <2>1, <2>2, <2>3
       DEF Abs!AbsRemove, Abs!NULL, NULL, Contents, Ordered, ElementsOf, ElementAt
<1>6. CASE ~IsEmpty(q)
  <2>1. QueueRemove(q)
    BY <1>6 DEF RemoveFrom
  <2>2. /\ Contents' = [Contents EXCEPT ![q] = Tail(@)]
        /\ Contents[q] # <<>> /\ returned' = Head(Contents[q]).data
    BY <1>1, <1>2, <1>6, <2>1, RemoveIsTail
  <2> QED BY <1>3, <1>4, <2>2
       DEF Abs!AbsRemove, Contents, Ordered, ElementsOf, ElementAt
<1> QED BY <1>5, <1>6

LEMMA AllocImplements ==
  ASSUME QueueInv, QueueInv', NEW order \in Orders, Alloc(order)
  PROVE  Abs!AbsAlloc(order = "time")
<1>1. PICK c : Represents(c) /\ FreeList(c)
  BY DEF QueueInv
<1>2. QueueTypes /\ QueueTypes' /\ 0 \in Queues
  BY SizesOfQueue DEF QueueInv
<1>3. /\ ~panicked /\ ~IsEmpty(0) /\ QueueRemove(0) /\ UNCHANGED panicked
      /\ held' = held \cup {data[first[0]]}
      /\ compare' = [compare EXCEPT ![data[first[0]]] = order]
  BY DEF Alloc
<1>4. /\ Contents' = [Contents EXCEPT ![0] = Tail(@)]
      /\ Contents[0] # <<>> /\ returned' = Head(Contents[0]).data
      /\ Head(Contents[0]).data = data[first[0]]
  BY <1>1, <1>2, <1>3, RemoveIsTail
<1> DEFINE a == data[first[0]]
<1>5. a \in Queues \ held
  <2>1. c[0] # <<>> /\ c[0][1] = first[0]
    BY <1>1, <1>2, <1>3, RemoveMoves
  <2>2. 1 \in 1..Len(c[0])
    <3>1. c[0] \in Seq(Nodes) /\ Len(c[0]) \in Nat
      BY <1>1, <1>2, SizesOfQueue, RepresentsFacts
    <3> QED BY <2>1, <3>1, EmptySeq
  <2> QED BY <1>1, <2>1, <2>2 DEF FreeList
<1> HIDE DEF a
<1>6. Ordered' = IF order = "time" THEN Ordered \cup {a} ELSE Ordered
  <2>1. \A r \in held' : compare'[r] = "time" <=> IF r = a THEN order = "time" ELSE compare[r] = "time"
    BY <1>2, <1>3, <1>5 DEF QueueTypes, a
  <2>2. held' = held \cup {a}
    BY <1>3 DEF a
  <2> QED BY <1>5, <2>1, <2>2 DEF Ordered
<1>7. /\ Contents[0] # <<>> /\ Head(Contents[0]).data = a /\ returned' = a
      /\ held' = held \cup {a}
  BY <1>3, <1>4 DEF a
<1>8. Abs!AbsAlloc(order = "time")
      <=> /\ ~panicked /\ Contents[0] # <<>>
          /\ LET q == Head(Contents[0]).data
             IN /\ Contents' = [Contents EXCEPT ![0] = Tail(@)]
                /\ held' = held \cup {q}
                /\ Ordered' = IF order = "time" THEN Ordered \cup {q} ELSE Ordered
                /\ returned' = q
          /\ UNCHANGED panicked
  BY DEF Abs!AbsAlloc, Contents, Ordered, ElementsOf, ElementAt
<1> QED BY <1>3, <1>4, <1>6, <1>7, <1>8

LEMMA DeallocImplements ==
  ASSUME QueueInv, QueueInv', NEW q \in held, Dealloc(q)
  PROVE  Abs!AbsDealloc(q)
<1>1. PICK c : Represents(c) /\ FreeList(c)
  BY DEF QueueInv
<1>2. /\ QueueTypes /\ QueueTypes' /\ q \in Queues /\ q # 0 /\ q \in Values
      /\ 0 \in Queues /\ 0 \in Keys /\ 0 \notin held
  BY SizesOfQueue, QueueAssumption DEF QueueInv, QueueTypes, Values
<1>3. /\ ~panicked /\ IsEmpty(q) /\ QueueInsert(0, q, 0) /\ UNCHANGED returned
      /\ held' = held \ {q} /\ compare' = [compare EXCEPT ![q] = "none"]
  BY DEF Dealloc
<1>4. Contents[q] = <<>>
  <2>1. Len(c[q]) = 0
    BY <1>1, <1>2, <1>3, RepresentsFacts
  <2>2. /\ Contents[q] = ElementsOf(c[q]) /\ ElementsOf(c[q]) \in Seq(Elements)
        /\ Len(ElementsOf(c[q])) = Len(c[q])
    BY <1>1, <1>2, ContentsAre
  <2> QED BY <2>1, <2>2, EmptySeq
<1>5. Ordered' = Ordered \ {q} /\ 0 \notin Ordered
  <2>1. \A r \in held \ {q} : compare'[r] = compare[r]
    BY <1>2, <1>3 DEF QueueTypes
  <2> QED BY <1>2, <1>3, <2>1 DEF Ordered
<1>6. Abs!AbsDealloc(q)
      <=> /\ ~panicked /\ Contents[q] = <<>>
          /\ held' = held \ {q} /\ Ordered' = Ordered \ {q}
          /\ IF Abs!Total(Contents) < N_QNODES
             THEN Contents' = Abs!Add(Contents, 0, q, 0) /\ UNCHANGED panicked
             ELSE panicked' = TRUE /\ UNCHANGED Contents
          /\ UNCHANGED returned
  BY DEF Abs!AbsDealloc, Contents, Ordered, ElementsOf, ElementAt
<1>7. CASE free_qnodes = NULL
  <2>1. ~(Abs!Total(Contents) < N_QNODES)
    BY <1>1, <1>2, <1>7, RoomIsFree
  <2>2. panicked' = TRUE /\ UNCHANGED <<data, key, first, size, next>>
    BY <1>3, <1>7 DEF QueueInsert, nodes
  <2>3. Contents' = Contents
    BY <2>2 DEF Contents, ElementsOf, ElementAt, Chain, NextOf
  <2> QED BY <1>3, <1>4, <1>5, <1>6, <2>1, <2>2, <2>3
<1>8. CASE free_qnodes # NULL
  <2>1. Abs!Total(Contents) < N_QNODES
    BY <1>1, <1>2, <1>8, RoomIsFree
  <2>2. Contents' = [Contents EXCEPT ![0] =
          IF 0 \in Ordered THEN InsertAt(@, Abs!Place(@, 0) + 1, [data |-> q, key |-> 0])
          ELSE Append(@, [data |-> q, key |-> 0])]
    BY <1>1, <1>2, <1>3, <1>8, InsertIsAdd
  <2>3. UNCHANGED panicked
    BY <1>3, <1>8 DEF QueueInsert
  <2>4. Contents' = Abs!Add(Contents, 0, q, 0)
    BY <2>2 DEF Abs!Add, Abs!Element, Abs!InsertAt, InsertAt, Ordered
  <2> QED BY <1>3, <1>4, <1>5, <1>6, <2>1, <2>3, <2>4
<1> QED BY <1>7, <1>8

LEMMA InitImplements ==
  ASSUME Init
  PROVE  Abs!AbsInit
<1> DEFINE c == FirstNodes
           f == [i \in 1..(N_QUEUES - 1) |-> [data |-> i, key |-> 0]]
<1>1. QueueTypes /\ Represents(c)
  BY InitRepresents
<1>2. /\ N_QUEUES \in Nat /\ N_QNODES \in Nat /\ N_QUEUES >= 2 /\ N_QNODES >= N_QUEUES
      /\ 0 \in Lists /\ 0 # NULL /\ 0 \in Queues
      /\ Queues \subseteq Lists /\ NULL \notin Queues
  BY SizesOfQueue DEF NULL
<1>3. /\ DOMAIN c[0] = 1..(N_QUEUES - 1)
      /\ \A i \in 1..(N_QUEUES - 1) : c[0][i] = N_QNODES - i
      /\ \A q \in Queues \ {0} : c[q] = <<>>
  BY <1>2 DEF FirstNodes
<1> HIDE DEF c
<1>4. Contents = [q \in Queues |-> ElementsOf(c[q])]
  BY <1>1, ContentsAre
<1>5. ASSUME NEW i \in 1..(N_QUEUES - 1)
      PROVE  ElementAt(c[0][i]) = [data |-> i, key |-> 0]
  <2>1. /\ c[0][i] = N_QNODES - i /\ N_QNODES - i \in Nodes
        /\ N_QNODES - i > N_QNODES - N_QUEUES /\ N_QNODES - (N_QNODES - i) = i
    BY <1>2, <1>3 DEF Nodes
  <2>2. data[N_QNODES - i] = i /\ key[N_QNODES - i] = 0
    BY <2>1 DEF Init
  <2> QED BY <2>1, <2>2 DEF ElementAt
<1>6. ElementsOf(c[0]) = f
  BY <1>3, <1>5 DEF ElementsOf
<1>7. \A q \in Queues \ {0} : ElementsOf(c[q]) = <<>>
  <2>1. DOMAIN <<>> = {}
    OBVIOUS
  <2>2. \A q \in Queues \ {0} : ElementsOf(c[q]) \in Seq(Elements) /\ Len(ElementsOf(c[q])) = Len(c[q])
    BY <1>1, ContentsAre
  <2>3. \A q \in Queues \ {0} : Len(c[q]) = 0
    BY <1>3
  <2> QED BY <2>2, <2>3, EmptySeq
<1> HIDE DEF f
<1>8. Contents = [q \in Queues |-> IF q = 0 THEN f ELSE <<>>]
  BY <1>2, <1>4, <1>6, <1>7
<1>9. held = {} /\ Ordered = {} /\ returned = NULL /\ panicked = FALSE
  BY DEF Init, Ordered
<1>10. Abs!AbsInit
       <=> /\ Contents = [q \in Queues |-> IF q = 0 THEN f ELSE <<>>]
           /\ held = {} /\ Ordered = {} /\ returned = NULL /\ panicked = FALSE
  BY DEF Abs!AbsInit, Abs!Queues, Queues, Abs!NULL, NULL, Abs!Element, f,
         Contents, Ordered, ElementsOf, ElementAt
<1> QED BY <1>8, <1>9, <1>10

LEMMA StepImplements ==
  ASSUME QueueInv, QueueInv', [Next]_vars
  PROVE  [Abs!AbsNext]_(Abs!absVars)
<1>1. CASE \E q \in held, d \in Items, k \in Keys : InsertInto(q, d, k)
  BY <1>1, InsertImplements DEF Abs!AbsNext
<1>2. CASE \E q \in held : RemoveFrom(q)
  BY <1>2, RemoveImplements DEF Abs!AbsNext
<1>3. CASE \E q \in held : Dealloc(q)
  BY <1>3, DeallocImplements DEF Abs!AbsNext
<1>4. CASE \E order \in Orders : Alloc(order)
  <2>1. \A order : (order = "time") \in BOOLEAN
    OBVIOUS
  <2> QED BY <1>4, <2>1, AllocImplements DEF Abs!AbsNext
<1>5. CASE UNCHANGED vars
  <2>1. UNCHANGED <<data, key, first, size, next, compare, held, returned, panicked>>
    BY <1>5 DEF vars, nodes, headers
  <2>2. Contents' = Contents /\ Ordered' = Ordered
    BY <2>1 DEF Contents, Ordered, ElementsOf, ElementAt, Chain, NextOf
  <2> QED BY <2>1, <2>2 DEF Abs!absVars, Contents, Ordered, ElementsOf, ElementAt
<1> QED BY <1>1, <1>2, <1>3, <1>4, <1>5 DEF Next

\* The linked lists implement the abstract queues: FIFO, or in the order of the
\* keys and FIFO for equal ones, and an insert fails only when every node is in
\* use (queue.c:93-120, 197-333).
THEOREM ImplementsQueues == Spec => Refines
<1>1. Init => Abs!AbsInit
  BY InitImplements
<1>2. QueueInv /\ QueueInv' /\ [Next]_vars => [Abs!AbsNext]_(Abs!absVars)
  BY StepImplements
<1> QED BY <1>1, <1>2, QueueAlways, PTL DEF Spec, Refines, Abs!AbsSpec

=============================================================================
